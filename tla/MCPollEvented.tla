----------------------------- MODULE MCPollEvented -----------------------------
EXTENDS PollEvented
=============================================================================
