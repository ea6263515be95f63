----------------------------- MODULE MCAnalyzer -----------------------------
EXTENDS Analyzer
=============================================================================
