-------------------------- MODULE MCAuthManager ---------------------------
(* Instances of AuthManager for TLC. *)
EXTENDS AuthManager, TLC

CONSTANTS p1, p2, t1, t2, A, B

\* Two tasks of one process: a turn and the TUI.
OneProcess == [t \in {t1, t2} |-> p1]

\* One task in each of two processes on the same CODEX_HOME.
TwoProcesses == (t1 :> p1) @@ (t2 :> p2)

\* A turn's task and the TUI's event loop; token refreshes start in both.
LockedOps ==
    (t1 :> {"refresh", "recover", "rotate"}) @@
    (t2 :> {"refresh", "recover", "switch", "reload"})

\* The unlocked operations beside locked ones; the login flow is a task of its own
\* that meets all of the TUI's.  A rotation, here, is a switch to another row.
MixedOps ==
    (t1 :> {"refresh", "recover", "login"}) @@
    (t2 :> {"switch", "remove", "logout", "apikey", "reload"})

RefreshAndSwitch == [t \in {t1, t2} |-> {"refresh", "switch"}]

RefreshAndLogin == (t1 :> {"refresh"}) @@ (t2 :> {"login"})

RefreshAndLogout == (t1 :> {"refresh"}) @@ (t2 :> {"logout"})

RefreshAndRemove == (t1 :> {"refresh"}) @@ (t2 :> {"remove"})

SavedAB == <<A, B>>
=============================================================================
