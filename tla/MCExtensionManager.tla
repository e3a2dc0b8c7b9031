------------------------ MODULE MCExtensionManager ------------------------
(* Instances of ExtensionManager for TLC. *)
EXTENDS ExtensionManager, TLC

CONSTANTS t1, t2

\* Two goroutines, each of which performs any operation.
AnyOperation == [t \in Thread |-> Operation]

\* An admin who restarts and removes the extension while requests and
\* Bootstrap start it.
AdminAndRequests ==
  [t \in Thread |-> IF t = t1 THEN {"restart", "install", "update"} ELSE {"ensure", "boot"}]

\* Requests alone.
OnlyRequests == [t \in Thread |-> {"ensure"}]

Symmetry == Permutations(Pid) \cup Permutations(Thread)

=============================================================================
