------------------------ MODULE MCKnowledgeIngestion ------------------------
EXTENDS KnowledgeIngestion
=============================================================================
