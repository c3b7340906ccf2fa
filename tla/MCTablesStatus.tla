---------------------------- MODULE MCTablesStatus ----------------------------
EXTENDS TablesStatus
===============================================================================
