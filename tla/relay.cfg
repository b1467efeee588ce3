SPECIFICATION FairRelay
CONSTANTS
  Upstreams = {"openai", "anthropic", "responses"}
  Clients = {"openai", "anthropic", "responses"}
  Kinds = {"text", "thinking", "tool_use", "opaque"}
  Cap = 1
  MaxBlocks = 2
  MaxFrags = 2
CHECK_DEADLOCK FALSE
INVARIANTS BlockDiscipline Delivered OneEnd UsageReaches ArchiveAgrees
PROPERTY Released
