-------------------------- MODULE MCStructuredFlow --------------------------
EXTENDS StructuredFlow
=============================================================================
