--------------------------- MODULE RolloutWriter ---------------------------
(***************************************************************************)
(* The rollout recorder (codex-rs/rollout/src/recorder.rs): callers send   *)
(* commands through a bounded channel to one background writer, which owns *)
(* the JSONL file, keeps what it could not write and reopens the file when *)
(* a write fails.                                                          *)
(*                                                                         *)
(* A step of the writer is one open or one line.  A write that fails       *)
(* leaves nothing behind ("clean") or a fragment without newline ("torn"), *)
(* so that the next line is glued to the fragment and load_rollout_items   *)
(* skips both.  (A fragment that lacks only its newline would be read off  *)
(* the end of a file; the model never reads a fragment.)  Timestamps, git  *)
(* info and the copy of the metadata in the state database are left out.   *)
(***************************************************************************)
EXTENDS Integers, Sequences

CONSTANTS
    Items,
    Callers,     \* tasks of the session that hold the recorder
    Capacity,    \* of the channel; 256 in the code
    MaxItems,    \* bound on the items of the transcript
    MaxFaults,   \* bound on failed opens and writes
    MaxCrashes,  \* bound on the ends of the process
    Meta,        \* the SessionMeta line
    NoCaller

ASSUME RolloutAssumption ==
    /\ Capacity \in Nat \ {0}
    /\ MaxItems \in Nat /\ MaxFaults \in Nat /\ MaxCrashes \in Nat
    /\ Meta \notin Items /\ NoCaller \notin Callers

Barriers == {"persist", "flush", "shutdown"}

\* A command: an item to add, or a barrier of a caller.  upto (history) is the number of
\* items submitted when the command was sent, its own included.
Commands == [op : {"add"}, item : Items, caller : {NoCaller}, upto : Nat]
            \cup [op : Barriers, item : {Meta}, caller : Callers, upto : Nat]
Lines == [item : Items \cup {Meta}, readable : BOOLEAN]

VARIABLES
    chan,        \* the channel
    waiting,     \* callers that wait for an ack
    pc,          \* of the writer: "recv", "open", "meta", "items", "ack", "gone"
    cmd,         \* the command being processed
    attempt,     \* 1, or 2 when the file was reopened
    ok,          \* the result to send
    open,        \* writer.is_some()
    deferred,    \* deferred_log_file_info.is_some()
    meta,        \* the SessionMeta is still to be written
    pending,     \* pending_items
    file,        \* complete lines
    fragment,    \* the file ends in a line without newline
    submitted, confirmed,   \* history, see Transcript
    loaded,      \* history: the items the last Resume got, by place
    faults, crashes         \* what the bounds count

callerVars == <<chan, waiting>>
writerVars == <<pc, cmd, attempt, ok, open, deferred, meta, pending>>
fileVars == <<file, fragment>>
bookVars == <<loaded, faults, crashes>>
vars == <<callerVars, writerVars, fileVars, submitted, confirmed, bookVars>>

NoCommand == [op |-> "flush", item |-> Meta, caller |-> NoCaller, upto |-> 0]

\* RolloutRecorderParams::Create: nothing is opened yet.
Init ==
    /\ chan = <<>> /\ waiting = {}
    /\ pc = "recv" /\ cmd = NoCommand /\ attempt = 1 /\ ok = TRUE
    /\ open = FALSE /\ deferred = TRUE /\ meta = TRUE /\ pending = <<>>
    /\ file = <<>> /\ fragment = FALSE
    /\ submitted = <<>> /\ confirmed = 0
    /\ loaded = {} /\ faults = 0 /\ crashes = 0

-----------------------------------------------------------------------------
\* The callers.  A full channel makes them wait.

Room == pc # "gone" /\ Len(chan) < Capacity

\* Mutant: the channel has no bound.
RecordItems_Unbounded(i) ==
    /\ pc # "gone" /\ Len(submitted) < MaxItems
    /\ chan' = Append(chan, [op |-> "add", item |-> i, caller |-> NoCaller,
                             upto |-> Len(submitted) + 1])
    /\ submitted' = Append(submitted, i)
    /\ UNCHANGED <<waiting, writerVars, fileVars, confirmed, bookVars>>

RecordItems(i) ==
    /\ Room /\ Len(submitted) < MaxItems
    /\ chan' = Append(chan, [op |-> "add", item |-> i, caller |-> NoCaller,
                             upto |-> Len(submitted) + 1])
    /\ submitted' = Append(submitted, i)
    /\ UNCHANGED <<waiting, writerVars, fileVars, confirmed, bookVars>>

\* persist, flush and shutdown.
AwaitBarrier(c, op) ==
    /\ Room /\ c \notin waiting
    /\ chan' = Append(chan, [op |-> op, item |-> Meta, caller |-> c,
                             upto |-> Len(submitted)])
    /\ waiting' = waiting \cup {c}
    /\ UNCHANGED <<writerVars, fileVars, submitted, confirmed, bookVars>>

-----------------------------------------------------------------------------
\* The writer.

IsDeferred == ~open /\ deferred

\* The locals of the loop end with the command.
NextCommand == cmd' = NoCommand /\ attempt' = 1 /\ ok' = TRUE

ReceiveItem ==
    /\ pc = "recv" /\ chan # <<>> /\ Head(chan).op = "add"
    /\ chan' = Tail(chan)
    /\ pending' = Append(pending, Head(chan).item)
    /\ IF IsDeferred THEN UNCHANGED <<pc, cmd>> ELSE pc' = "open" /\ cmd' = Head(chan)
    /\ UNCHANGED <<waiting, attempt, ok, open, deferred, meta, fileVars, submitted,
                   confirmed, bookVars>>

ReceiveBarrier ==
    /\ pc = "recv" /\ chan # <<>> /\ Head(chan).op # "add"
    /\ chan' = Tail(chan)
    /\ cmd' = Head(chan)
    /\ pc' = IF cmd'.op # "persist" /\ IsDeferred /\ pending = <<>> THEN "ack" ELSE "open"
    /\ UNCHANGED <<waiting, attempt, ok, open, deferred, meta, pending, fileVars, submitted,
                   confirmed, bookVars>>

\* write_pending_with_recovery: drop the handle; try once more, then report.
Recover ==
    /\ open' = FALSE
    /\ IF attempt = 1
       THEN pc' = "open" /\ attempt' = 2 /\ UNCHANGED ok
       ELSE pc' = "ack" /\ ok' = FALSE /\ UNCHANGED attempt
    /\ faults < MaxFaults /\ faults' = faults + 1
    /\ UNCHANGED <<callerVars, cmd, deferred, meta, pending, file, submitted, confirmed,
                   loaded, crashes>>

EnsureWriterOpen ==
    /\ pc = "open"
    /\ pc' = "meta"
    /\ open' = TRUE
    /\ deferred' = (deferred /\ open)
    /\ UNCHANGED <<callerVars, cmd, attempt, ok, meta, pending, fileVars, submitted,
                   confirmed, bookVars>>

OpenFails ==
    /\ pc = "open" /\ ~open
    /\ Recover
    /\ UNCHANGED fragment

\* write_line succeeds: the line joins the fragment, if there is one.
WriteLine(item) ==
    /\ file' = Append(file, [item |-> item, readable |-> ~fragment])
    /\ fragment' = FALSE

\* Mutant: the SessionMeta is forgotten once the file is reopened after a failure.
WriteSessionMeta_FirstAttempt ==
    /\ pc = "meta"
    /\ pc' = "items"
    /\ meta' = FALSE
    /\ IF meta /\ attempt = 1 THEN WriteLine(Meta) ELSE UNCHANGED fileVars
    /\ UNCHANGED <<callerVars, cmd, attempt, ok, open, deferred, pending, submitted,
                   confirmed, bookVars>>

WriteSessionMeta ==
    /\ pc = "meta"
    /\ pc' = "items"
    /\ meta' = FALSE
    /\ IF meta THEN WriteLine(Meta) ELSE UNCHANGED fileVars
    /\ UNCHANGED <<callerVars, cmd, attempt, ok, open, deferred, pending, submitted,
                   confirmed, bookVars>>

\* Mutant: an item is taken off the queue before it is written.
WriteFails_DropsItem ==
    /\ pc = "items" /\ pending # <<>>
    /\ open' = FALSE
    /\ IF attempt = 1
       THEN pc' = "open" /\ attempt' = 2 /\ UNCHANGED ok
       ELSE pc' = "ack" /\ ok' = FALSE /\ UNCHANGED attempt
    /\ faults < MaxFaults /\ faults' = faults + 1
    /\ pending' = Tail(pending)
    /\ UNCHANGED <<callerVars, cmd, deferred, meta, fileVars, submitted, confirmed,
                   loaded, crashes>>

WritePendingItem ==
    /\ pc = "items" /\ pending # <<>>
    /\ WriteLine(Head(pending))
    /\ pending' = Tail(pending)
    /\ UNCHANGED <<callerVars, pc, cmd, attempt, ok, open, deferred, meta, submitted,
                   confirmed, bookVars>>

Writing == (pc = "meta" /\ meta) \/ (pc = "items" /\ pending # <<>>)

WriteFails ==
    /\ Writing
    /\ Recover
    /\ \/ UNCHANGED fragment
       \/ fragment' = TRUE

\* Every line was flushed by itself: the last flush finds nothing to write.
WriteDone ==
    /\ pc = "items" /\ pending = <<>>
    /\ pc' = "ack"
    /\ UNCHANGED <<callerVars, cmd, attempt, ok, open, deferred, meta, pending, fileVars,
                   submitted, confirmed, bookVars>>

\* Mutant: a barrier whose retry failed is reported as done.
Acknowledge_IgnoresError ==
    /\ pc = "ack"
    /\ NextCommand
    /\ IF cmd.op = "shutdown"
       THEN pc' = "gone" /\ chan' = <<>> /\ waiting' = {}
       ELSE pc' = "recv" /\ waiting' = waiting \ {cmd.caller} /\ UNCHANGED chan
    /\ confirmed' = IF cmd.op # "add" /\ cmd.upto > confirmed THEN cmd.upto ELSE confirmed
    /\ UNCHANGED <<open, deferred, meta, pending, fileVars, submitted,
                   bookVars>>

\* Mutant: the channel is kept after a shutdown.
Acknowledge_KeepsChannel ==
    /\ pc = "ack"
    /\ NextCommand
    /\ waiting' = waiting \ {cmd.caller}
    /\ pc' = IF cmd.op = "shutdown" /\ ok THEN "gone" ELSE "recv"
    /\ confirmed' = IF ok /\ cmd.op # "add" /\ cmd.upto > confirmed
                    THEN cmd.upto ELSE confirmed
    /\ UNCHANGED <<chan, open, deferred, meta, pending, fileVars,
                   submitted, bookVars>>

\* The result goes to the caller; after a shutdown that drained everything the channel
\* is dropped, with the commands behind it.
Acknowledge ==
    /\ pc = "ack"
    /\ NextCommand
    /\ IF cmd.op = "shutdown" /\ ok
       THEN pc' = "gone" /\ chan' = <<>> /\ waiting' = {}
       ELSE pc' = "recv" /\ waiting' = waiting \ {cmd.caller} /\ UNCHANGED chan
    /\ confirmed' = IF ok /\ cmd.op # "add" /\ cmd.upto > confirmed
                    THEN cmd.upto ELSE confirmed
    /\ UNCHANGED <<open, deferred, meta, pending, fileVars, submitted,
                   bookVars>>

-----------------------------------------------------------------------------
\* The process ends, possibly inside a write.
Crash ==
    /\ crashes < MaxCrashes /\ crashes' = crashes + 1
    /\ pc # "gone"
    /\ pc' = "gone" /\ chan' = <<>> /\ waiting' = {}
    /\ open' = FALSE /\ pending' = <<>>
    /\ NextCommand
    /\ \/ UNCHANGED <<fragment, faults>>
       \/ Writing /\ faults < MaxFaults /\ faults' = faults + 1
                  /\ fragment' = TRUE
    /\ UNCHANGED <<deferred, meta, file, submitted, confirmed, loaded>>

\* The items of the complete lines after the SessionMeta, readable or not.
ItemsOf(f) == [n \in 1..(Len(f) - 1) |-> f[n + 1].item]
Stored == ItemsOf(file)

\* load_rollout_items: the lines that parse; the others are counted and skipped.
LoadRolloutItems(f) == {n \in 1..Len(f) : f[n].readable}

\* get_rollout_history takes the thread id from the first SessionMeta it got.
Loadable == \E n \in LoadRolloutItems(file) : file[n].item = Meta

\* RolloutRecorderParams::Resume: the session starts from what could be read, and a
\* new recorder appends to the same file, behind the lines that could not be too.
Resume ==
    /\ pc = "gone" /\ Loadable
    /\ pc' = "recv" /\ open' = TRUE /\ deferred' = FALSE /\ meta' = FALSE
    /\ pending' = <<>>
    /\ submitted' = Stored
    /\ loaded' = {n \in 1..Len(Stored) : n + 1 \in LoadRolloutItems(file)}
    /\ UNCHANGED <<callerVars, cmd, attempt, ok, fileVars, confirmed, faults, crashes>>

-----------------------------------------------------------------------------
WriterStep ==
    \/ ReceiveItem \/ ReceiveBarrier \/ EnsureWriterOpen \/ OpenFails \/ WriteSessionMeta
    \/ WritePendingItem \/ WriteFails \/ WriteDone \/ Acknowledge

Next ==
    \/ \E i \in Items : RecordItems(i)
    \/ \E c \in Callers, op \in Barriers : AwaitBarrier(c, op)
    \/ WriterStep
    \/ Crash \/ Resume

Spec == Init /\ [][Next]_vars

\* The writer is a task of the runtime: a step it can take is taken.
FairSpec == Spec /\ WF_vars(WriterStep)

-----------------------------------------------------------------------------
\* Types; the channel stays within its capacity.
TypeOK ==
    /\ chan \in Seq(Commands) /\ Len(chan) <= Capacity
    /\ waiting \subseteq Callers
    /\ pc \in {"recv", "open", "meta", "items", "ack", "gone"}
    /\ cmd \in Commands \cup {NoCommand}
    /\ attempt \in {1, 2}
    /\ ok \in BOOLEAN /\ open \in BOOLEAN /\ deferred \in BOOLEAN /\ meta \in BOOLEAN
    /\ pending \in Seq(Items)
    /\ file \in Seq(Lines) /\ fragment \in BOOLEAN
    /\ submitted \in Seq(Items) /\ confirmed \in Nat /\ loaded \subseteq Nat
    /\ faults \in 0..MaxFaults /\ crashes \in 0..MaxCrashes

\* Of the items s, st are in the file, p are pending and the rest are in the channel c.
\* Sent(st, p, c, k): how many were submitted by the k-th command of the channel.
Sent(st, p, c, k) == IF k = 0 THEN Len(st) + Len(p) ELSE c[k].upto

InOrder(st, p, c, s) ==
    /\ \A n \in 1..Len(st) : s[n] = st[n]
    /\ \A n \in 1..Len(p) : s[Len(st) + n] = p[n]
    /\ \A k \in 1..Len(c) :
          IF c[k].op = "add"
          THEN /\ c[k].upto = Sent(st, p, c, k - 1) + 1
               /\ s[c[k].upto] = c[k].item
          ELSE c[k].upto = Sent(st, p, c, k - 1)
    /\ Sent(st, p, c, Len(c)) = Len(s)

\* While a recorder lives, every submitted item is in exactly one place, and in order:
\* first those in the file, then those in pending_items, then those in the channel, one
\* command for each and every barrier behind the items it is about.  A retry after a
\* failed write neither skips nor repeats the prefix that was written.  In the file
\* means written as a complete line; whether the line can be read is not asked here.
NothingLost == pc # "gone" => InOrder(Stored, pending, chan, submitted)

\* The writer's own SessionMeta (state.meta) is the first line and is written once,
\* whatever failed while the file was created: otherwise the items before it would
\* belong to no thread.  SessionMeta lines that the session records later are items.
HasMetaFirst(f) == \A n \in 1..Len(f) : (f[n].item = Meta) <=> n = 1
MetaFirst == HasMetaFirst(file)

\* A full channel is drained: every caller of persist, flush or shutdown gets an
\* answer, also when its command is queued behind a shutdown.
BarrierAnswered == \A c \in Callers : c \in waiting ~> c \notin waiting

\* How the file looks to a reader: the places of the items that are skipped, and the
\* SessionMeta line.
Unread == {n \in 1..Len(Stored) : ~file[n + 1].readable}
Header == IF file = <<>> THEN "none"
          ELSE IF file[1].readable THEN "readable" ELSE "unreadable"

\* The recorder keeps the promise of Transcript: failed writes, retries, reopened files,
\* barriers behind other commands, crashes and resumes neither drop, repeat nor reorder
\* an item, a barrier confirms only what was written, and a reader misses only lines
\* that follow a torn write.
T == INSTANCE Transcript WITH stored <- Stored, unread <- Unread, header <- Header,
                              torn <- fragment
ImplementsTranscript == T!Spec

\* What the comment on flush says: confirmed items are committed, so that the session
\* can be loaded again, and they are in it.
ConfirmedLoadable == confirmed > 0 => Loadable
ConfirmedReadable == \A n \in 1..confirmed : n \notin Unread

-----------------------------------------------------------------------------
\* The inductive invariant behind these properties.

\* The SessionMeta is owed until the file has a line, and items are written after it.
MetaOwed == (meta <=> file = <<>>) /\ (pc = "items" => ~meta)

\* What a barrier is about has left the channel before it, and nothing of it is pending
\* when the writer reports success.
BarrierCovered ==
    /\ pc \in {"recv", "gone"} => cmd = NoCommand
    /\ pc # "gone" => cmd.upto <= Len(Stored) + Len(pending)
    /\ pc = "ack" /\ ok => pending = <<>>
    /\ pc = "gone" => chan = <<>>

ConfirmedStored == confirmed <= Len(Stored)

\* No command is ahead of what was submitted.
Bounded(st, p, c, s) == \A k \in 0..Len(c) : Sent(st, p, c, k) <= Len(s)
SentBounded == pc # "gone" => Bounded(Stored, pending, chan, submitted)

IndInv ==
    /\ TypeOK /\ MetaFirst /\ NothingLost
    /\ MetaOwed /\ BarrierCovered /\ ConfirmedStored /\ SentBounded
=============================================================================
