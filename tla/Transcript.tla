----------------------------- MODULE Transcript -----------------------------
(***************************************************************************)
(* What a rollout recorder promises to the session that records into it.   *)
(* Items are stored in the order they were submitted, none is skipped or   *)
(* stored twice, and what a barrier confirmed is stored, also after the    *)
(* end of the process.  A reader gets back the stored items, but for those *)
(* whose write followed one that was torn: no repair of a torn line is     *)
(* promised, and if the header is such a line nothing can be read at all.  *)
(***************************************************************************)
EXTENDS Naturals, Sequences

CONSTANT Items

VARIABLES
    submitted,   \* items handed to the recorder, less those that were lost
    stored,      \* items written to the transcript
    unread,      \* the places in stored that a reader skips
    header,      \* the header: "none" yet, "readable" or "unreadable"
    torn,        \* a write failed half way and nothing was written since
    confirmed,   \* how many items a barrier reported as stored
    loaded       \* the places in stored that the last reader got back

tvars == <<submitted, stored, unread, header, torn, confirmed, loaded>>

Init ==
    /\ submitted = <<>> /\ stored = <<>> /\ unread = {}
    /\ header = "none" /\ torn = FALSE
    /\ confirmed = 0 /\ loaded = {}

Submit(i) ==
    /\ submitted' = Append(submitted, i)
    /\ UNCHANGED <<stored, unread, header, torn, confirmed, loaded>>

Tear ==
    /\ torn' = TRUE
    /\ UNCHANGED <<submitted, stored, unread, header, confirmed, loaded>>

WriteHeader ==
    /\ header = "none"
    /\ header' = IF torn THEN "unreadable" ELSE "readable"
    /\ torn' = FALSE
    /\ UNCHANGED <<submitted, stored, unread, confirmed, loaded>>

Store ==
    /\ header # "none" /\ Len(stored) < Len(submitted)
    /\ stored' = Append(stored, submitted[Len(stored) + 1])
    /\ unread' = IF torn THEN unread \cup {Len(stored) + 1} ELSE unread
    /\ torn' = FALSE
    /\ UNCHANGED <<submitted, header, confirmed, loaded>>

Confirm ==
    /\ \E n \in confirmed..Len(stored) : confirmed' = n
    /\ UNCHANGED <<submitted, stored, unread, header, torn, loaded>>

\* The process has ended, or its recorder is replaced: what was not stored is
\* lost, and the next session starts from what it can read.
Reload ==
    /\ header = "readable"
    /\ submitted' = stored
    /\ loaded' = 1..Len(stored) \ unread
    /\ UNCHANGED <<stored, unread, header, torn, confirmed>>

Next == (\E i \in Items : Submit(i)) \/ Tear \/ WriteHeader \/ Store \/ Confirm \/ Reload

Spec == Init /\ [][Next]_tvars
=============================================================================
