------------------------------ MODULE MCCountJob ------------------------------
EXTENDS CountJob
===============================================================================
