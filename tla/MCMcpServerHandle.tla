-------------------------- MODULE MCMcpServerHandle --------------------------
EXTENDS McpServerHandle
=============================================================================
