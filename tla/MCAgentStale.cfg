SPECIFICATION Spec
CONSTANTS
    Provider = {"CLAUDE", "CODEX", "GEMINI", "OPENCODE"}
    MaxPushes = 1
INVARIANTS LaunchedOnPullRequest
