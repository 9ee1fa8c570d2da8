-------------------------- MODULE MCPrefetchQueue ---------------------------
EXTENDS PrefetchQueue

CONSTANTS a, b

\* One message alone in its folder, and one in no folder that is cancelled.
MCFolders == {{a}}
=============================================================================
