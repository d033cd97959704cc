--------------------------- MODULE NetworkApproval ---------------------------
(***************************************************************************)
(* The approval of network access, codex-rs/core/src/tools/                *)
(* network_approval.rs: requests that the proxy of one session could not   *)
(* decide, the prompts they share, the answers cached for the session and  *)
(* the tool call that is blamed for a refusal.                             *)
(*                                                                         *)
(* Every mutex guards one step.  What an answer makes the owner of a       *)
(* prompt do is a plan, a sequence of such steps.  A request is dropped,   *)
(* wherever it waits, when the proxy drops its connection.  The wording    *)
(* of reasons, hook payloads and the amendment of the persisted policy are *)
(* left out.                                                               *)
(***************************************************************************)
EXTENDS Naturals, Sequences, FiniteSets

CONSTANTS
    Requests,   \* requests of the proxy, each made once
    Hosts,      \* HostApprovalKey
    Calls,      \* tool calls; a call stands for its registration id too
    Scenarios,  \* bound: the requests and calls that one behaviour may make
    None

ASSUME NetworkAssumption ==
    /\ IsFiniteSet(Calls) /\ None \notin Requests \cup Hosts \cup Calls
    /\ None \notin {"user", "policy"}
    /\ Scenarios \subseteq SUBSET (Requests \cup Calls)

VARIABLES
    made,               \* the scenario of this behaviour
    active,             \* active_calls
    outcomes,           \* call_outcomes: who refused, None where there is none
    pending,            \* pending_host_approvals: the request that owns the prompt
    decision,           \* per owner: PendingHostApproval::decision
    approved, denied,   \* session_approved_hosts, session_denied_hosts
    woken,              \* waiters whose Notified future has fired
    req                 \* per request: where it is, and its local variables

serviceVars == <<outcomes, pending, decision, approved, denied, woken, req>>
caches == <<approved, denied>>
networkVars == <<made, active, serviceVars>>

Verdicts == {"once", "session", "deny"}
Stages == {"idle", "checkDenied", "checkApproved", "join", "own", "prompt", "plan",
           "listen", "read", "park", "parked", "done", "dropped"}
OwnerSteps == {"undeny", "approve", "unapprove", "deny", "decide", "notify", "forget"}
Steps == OwnerSteps \cup {"resolve", "blameUser", "blamePolicy"}
RequestStates == [pc : Stages, host : Hosts \cup {None}, owner : Requests \cup {None},
                  call : Calls \cup {None}, plan : Seq(Steps),
                  verdict : Verdicts \cup {None}]

NoRequest == [pc |-> "idle", host |-> None, owner |-> None, call |-> None,
              plan |-> <<>>, verdict |-> None]

NetworkInit ==
    /\ made \in Scenarios
    /\ active = {}
    /\ outcomes = [c \in Calls |-> None]
    /\ pending = [h \in Hosts |-> None]
    /\ decision = [q \in Requests |-> None]
    /\ approved = {} /\ denied = {} /\ woken = {}
    /\ req = [q \in Requests |-> NoRequest]

-----------------------------------------------------------------------------
\* Registrations, for the tool calls that run commands behind the proxy.

RegisterCall(c) == active' = active \cup {c} /\ UNCHANGED outcomes

UnregisterCalls(cs) ==
    /\ active' = active \ cs
    /\ outcomes' = [c \in Calls |-> IF c \in cs THEN None ELSE outcomes[c]]

\* resolve_single_active_call
SingleActiveCall == IF Cardinality(active) = 1 THEN CHOOSE c \in active : TRUE ELSE None

-----------------------------------------------------------------------------
\* handle_inline_policy_request, up to the prompt.

Goto(q, where) == req' = [req EXCEPT ![q].pc = where]
Return(q) == req' = [req EXCEPT ![q] = [NoRequest EXCEPT !.pc = "done"]]

Arrive(q, h) ==
    /\ req[q].pc = "idle" /\ q \in made
    /\ req' = [req EXCEPT ![q].pc = "checkDenied", ![q].host = h]
    /\ UNCHANGED <<outcomes, pending, decision, caches, woken>>

CheckDenied(q) ==
    /\ req[q].pc = "checkDenied"
    /\ IF req[q].host \in denied THEN Return(q) ELSE Goto(q, "checkApproved")
    /\ UNCHANGED <<outcomes, pending, decision, caches, woken>>

CheckApproved(q) ==
    /\ req[q].pc = "checkApproved"
    /\ IF req[q].host \in approved THEN Return(q) ELSE Goto(q, "join")
    /\ UNCHANGED <<outcomes, pending, decision, caches, woken>>

\* get_or_create_pending_approval: the first to ask owns the prompt.
GetOrCreatePending(q) ==
    LET h == req[q].host
    IN  /\ req[q].pc = "join"
        /\ IF pending[h] = None
           THEN /\ pending' = [pending EXCEPT ![h] = q]
                /\ req' = [req EXCEPT ![q].pc = "own", ![q].owner = q]
           ELSE /\ req' = [req EXCEPT ![q].pc = "listen", ![q].owner = pending[h]]
                /\ UNCHANGED pending
        /\ UNCHANGED <<outcomes, decision, caches, woken>>

-----------------------------------------------------------------------------
\* wait_for_decision: the future is made before the decision is read, and fires for
\* every notify_waiters after that.

Listen(q) ==
    /\ req[q].pc = "listen"
    /\ woken' = woken \ {q}
    /\ Goto(q, "read")
    /\ UNCHANGED <<outcomes, pending, decision, caches>>

ReadDecision(q) ==
    LET d == decision[req[q].owner]
    IN  /\ req[q].pc = "read"
        /\ IF d # None THEN Return(q) ELSE Goto(q, "park")
        /\ UNCHANGED <<outcomes, pending, decision, caches, woken>>

Park(q) ==
    /\ req[q].pc = "park"
    /\ Goto(q, "parked")
    /\ UNCHANGED <<outcomes, pending, decision, caches, woken>>

Wake(q) ==
    /\ req[q].pc = "parked" /\ q \in woken
    /\ Goto(q, "listen")
    /\ UNCHANGED <<outcomes, pending, decision, caches, woken>>

-----------------------------------------------------------------------------
\* The owner: what follows each answer, one lock at a time.

\* Mutant: the prompt is over for other requests before its answer is cached.
Plan_CachedLast == [
    policy      |-> <<"decide", "notify", "forget", "resolve", "blamePolicy">>,
    hookAllow   |-> <<"decide", "notify", "forget">>,
    hookDeny    |-> <<"blamePolicy", "decide", "notify", "forget">>,
    once        |-> <<"decide", "notify", "forget">>,
    session     |-> <<"decide", "notify", "forget", "undeny", "approve">>,
    denySession |-> <<"blameUser", "decide", "notify", "forget", "unapprove", "deny">>,
    denied      |-> <<"blameUser", "decide", "notify", "forget">>,
    guardian    |-> <<"blamePolicy", "decide", "notify", "forget">>]

Plan == [
    policy      |-> <<"decide", "notify", "forget", "resolve", "blamePolicy">>,
    hookAllow   |-> <<"decide", "notify", "forget">>,
    hookDeny    |-> <<"blamePolicy", "decide", "notify", "forget">>,
    once        |-> <<"decide", "notify", "forget">>,
    session     |-> <<"undeny", "approve", "decide", "notify", "forget">>,
    denySession |-> <<"blameUser", "unapprove", "deny", "decide", "notify", "forget">>,
    denied      |-> <<"blameUser", "decide", "notify", "forget">>,
    guardian    |-> <<"blamePolicy", "decide", "notify", "forget">>]

Verdict == [policy |-> "deny", hookAllow |-> "once", hookDeny |-> "deny",
            once |-> "once", session |-> "session", denySession |-> "deny",
            denied |-> "deny", guardian |-> "deny"]

Follow(q, answer) ==
    req' = [req EXCEPT ![q].pc = "plan", ![q].plan = Plan[answer],
                       ![q].verdict = Verdict[answer]]

\* There is no turn, or its sandbox or approval policy rules a prompt out.
PolicyDenies(q) ==
    /\ req[q].pc = "own"
    /\ Follow(q, "policy")
    /\ UNCHANGED <<outcomes, pending, decision, caches, woken>>

Prompt(q) ==
    /\ req[q].pc = "own"
    /\ req' = [req EXCEPT ![q].pc = "prompt", ![q].call = SingleActiveCall]
    /\ UNCHANGED <<outcomes, pending, decision, caches, woken>>

\* A hook, the guardian or the user answers; an interrupted turn answers "denied".
Answer(q, answer) ==
    /\ req[q].pc = "prompt"
    /\ Follow(q, answer)
    /\ UNCHANGED <<outcomes, pending, decision, caches, woken>>

\* record_blocked_request, called by the proxy for a request that policy refused.
Blocked(q) ==
    /\ req[q].pc = "idle" /\ q \in made
    /\ req' = [req EXCEPT ![q].pc = "plan", ![q].plan = <<"resolve", "blamePolicy">>,
                          ![q].verdict = "deny"]
    /\ UNCHANGED <<outcomes, pending, decision, caches, woken>>

Doing(q, step) ==
    /\ req[q].pc = "plan"
    /\ Head(req[q].plan) = step

Advanced(q) ==
    LET rest == Tail(req[q].plan)
    IN  IF rest = <<>> THEN [NoRequest EXCEPT !.pc = "done"]
        ELSE [req[q] EXCEPT !.plan = rest]
Advance(q) == req' = [req EXCEPT ![q] = Advanced(q)]

Undeny(q) ==
    /\ Doing(q, "undeny")
    /\ denied' = denied \ {req[q].host}
    /\ Advance(q)
    /\ UNCHANGED <<outcomes, pending, decision, approved, woken>>

Approve(q) ==
    /\ Doing(q, "approve")
    /\ approved' = approved \cup {req[q].host}
    /\ Advance(q)
    /\ UNCHANGED <<outcomes, pending, decision, denied, woken>>

Unapprove(q) ==
    /\ Doing(q, "unapprove")
    /\ approved' = approved \ {req[q].host}
    /\ Advance(q)
    /\ UNCHANGED <<outcomes, pending, decision, denied, woken>>

Deny(q) ==
    /\ Doing(q, "deny")
    /\ denied' = denied \cup {req[q].host}
    /\ Advance(q)
    /\ UNCHANGED <<outcomes, pending, decision, approved, woken>>

Decide(q) ==
    /\ Doing(q, "decide")
    /\ decision' = [decision EXCEPT ![q] = req[q].verdict]
    /\ Advance(q)
    /\ UNCHANGED <<outcomes, pending, caches, woken>>

\* Mutant: the future is made when the waiter parks, after it has read the decision.
Waiting_Parked(q) == {w \in Requests : req[w].owner = q /\ req[w].pc = "parked"}

Waiting(q) ==
    {w \in Requests : req[w].owner = q /\ req[w].pc \in {"read", "park", "parked"}}

NotifyWaiters(q) ==
    /\ Doing(q, "notify")
    /\ woken' = woken \cup Waiting(q)
    /\ Advance(q)
    /\ UNCHANGED <<outcomes, pending, decision, caches>>

Forget(q) ==
    /\ Doing(q, "forget")
    /\ pending' = [pending EXCEPT ![req[q].host] = None]
    /\ Advance(q)
    /\ UNCHANGED <<outcomes, decision, caches, woken>>

Resolve(q) ==
    /\ Doing(q, "resolve")
    /\ req' = [req EXCEPT ![q] = [Advanced(q) EXCEPT !.call = SingleActiveCall]]
    /\ UNCHANGED <<outcomes, pending, decision, caches, woken>>

\* Mutant: the last refusal wins.
Blame_Last(q, step, who) ==
    LET c == req[q].call
    IN  /\ Doing(q, step)
        /\ outcomes' = IF c = None THEN outcomes ELSE [outcomes EXCEPT ![c] = who]
        /\ Advance(q)
        /\ UNCHANGED <<pending, decision, caches, woken>>

\* record_call_outcome: a refusal by the user is not overwritten.
Blame(q, step, who) ==
    LET c == req[q].call
    IN  /\ Doing(q, step)
        /\ outcomes' = IF c = None \/ outcomes[c] = "user" THEN outcomes
                       ELSE [outcomes EXCEPT ![c] = who]
        /\ Advance(q)
        /\ UNCHANGED <<pending, decision, caches, woken>>

\* The proxy drops the connection, and with it the handler, which is at some await:
\* set_decision has none between the decision and the notification.
Drop(q) ==
    /\ req[q].pc \notin {"idle", "done", "dropped"}
    /\ ~Doing(q, "notify")
    /\ req' = [req EXCEPT ![q] = [NoRequest EXCEPT !.pc = "dropped"]]
    /\ UNCHANGED <<outcomes, pending, decision, caches, woken>>

-----------------------------------------------------------------------------
\* What a request does by itself, given an answer to its prompt.
Handle(q) ==
    \/ CheckDenied(q) \/ CheckApproved(q) \/ GetOrCreatePending(q)
    \/ Listen(q) \/ ReadDecision(q) \/ Park(q) \/ Wake(q)
    \/ PolicyDenies(q) \/ Prompt(q)
    \/ \E answer \in DOMAIN Plan \ {"policy"} : Answer(q, answer)
    \/ Undeny(q) \/ Approve(q) \/ Unapprove(q) \/ Deny(q)
    \/ Decide(q) \/ NotifyWaiters(q) \/ Forget(q)
    \/ Resolve(q) \/ Blame(q, "blameUser", "user") \/ Blame(q, "blamePolicy", "policy")

NetworkStep ==
    /\ \E q \in Requests :
          \/ \E h \in Hosts : Arrive(q, h)
          \/ Blocked(q) \/ Handle(q) \/ Drop(q)
    /\ UNCHANGED <<made, active>>

-----------------------------------------------------------------------------
NetworkTypeOK ==
    /\ made \in Scenarios /\ active \subseteq Calls
    /\ outcomes \in [Calls -> {None, "user", "policy"}]
    /\ pending \in [Hosts -> Requests \cup {None}]
    /\ decision \in [Requests -> Verdicts \cup {None}]
    /\ approved \subseteq Hosts /\ denied \subseteq Hosts /\ woken \subseteq Requests
    /\ req \in [Requests -> RequestStates]

\* A host is never both approved and denied for the session: the two caches are written
\* under separate locks, so it rests on one owner at a time being past its prompt.
DecisionsExclusive == approved \cap denied = {}

\* The prompt a request waits for lost its owner before a decision was made.
Stranded(q) ==
    /\ req[q].owner # None
    /\ req[req[q].owner].pc = "dropped" /\ decision[req[q].owner] = None

\* Every request of the proxy is answered, also those that wait for the prompt of another
\* request and whatever the order of its decision and their waiting: only an owner that
\* is dropped in its prompt leaves the others waiting.
RequestsAnswered ==
    \A q \in Requests : req[q].pc = "checkDenied" ~>
                            (req[q].pc \in {"done", "dropped"} \/ Stranded(q))

-----------------------------------------------------------------------------
\* The inductive invariant behind DecisionsExclusive.

\* In every plan the prompt is forgotten last, and a host leaves one cache just before it
\* enters the other.
InSequence(p) ==
    /\ \A i, j \in 1..Len(p) : i < j /\ p[i] = "forget" => p[j] \notin OwnerSteps
    /\ \A i \in 2..Len(p) : /\ p[i] = "approve" => p[i - 1] = "undeny"
                            /\ p[i] = "deny" => p[i - 1] = "unapprove"

\* The state r of a request q, beside the prompts pend and the caches app and den: who has
\* an owner's step ahead owns the prompt of its host, and the other cache is clear of the
\* host when it is about to be cached.
RequestInv(q, r, pend, app, den) ==
    /\ r.pc = "plan" <=> r.plan # <<>>
    /\ InSequence(r.plan)
    /\ r.pc \in {"checkDenied", "checkApproved", "join"} => r.host \in Hosts
    /\ r.pc \in {"own", "prompt"} \/ (\E i \in 1..Len(r.plan) : r.plan[i] \in OwnerSteps)
          => r.host \in Hosts /\ pend[r.host] = q
    /\ r.plan # <<>> => /\ r.plan[1] = "approve" => r.host \notin den
                        /\ r.plan[1] = "deny" => r.host \notin app

NetworkInv ==
    /\ NetworkTypeOK /\ DecisionsExclusive
    /\ \A q \in Requests : RequestInv(q, req[q], pending, approved, denied)
=============================================================================
