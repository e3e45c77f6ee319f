------------------------------ MODULE MCAiChat ------------------------------
EXTENDS AiChat
=============================================================================
