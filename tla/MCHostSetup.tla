---------------------------- MODULE MCHostSetup ----------------------------
EXTENDS HostSetup

MCPriority == <<"anthropic", "gemini", "openai">>
=============================================================================
