----------------------------- MODULE LogBuffer -----------------------------
(***************************************************************************)
(* The log of a client or a server that runs with its screen              *)
(* (shared/src/log_buffer.rs): any thread that logs adds an entry, first   *)
(* to an unbounded channel whose reader writes the log file, then, under   *)
(* the buffer's lock, to a bounded buffer that the screen shows.  The two  *)
(* halves of add_entry are steps of their own.  An entry is the thread     *)
(* that made it and its number there; level, target and text are left out,  *)
(* and so is what the file holds.                                          *)
(***************************************************************************)
EXTENDS Integers, Sequences, FiniteSets, Functions

CONSTANTS
    Writers,     \* the threads that log
    MaxEntries,  \* bound: entries in all
    MaxSize,     \* max_size of the buffer
    FileLogging  \* --log-file is given

ASSUME WritersAssumption == IsFiniteSet(Writers)
ASSUME SizesAssumption == MaxEntries \in Nat /\ MaxSize \in Nat \ {0}
ASSUME FileAssumption == FileLogging \in BOOLEAN

VARIABLES
    writer,   \* "idle", or "adding" between the halves of add_entry
    made,     \* entries each thread has made
    channel,  \* the file's channel, oldest entry first
    filer,    \* the file's task: "opening", "running", or "gone"
    entries,  \* the buffer
    sent,     \* history: entries in the order of their first half
    pushed    \* history: entries in the order of their second half

logVars == <<writer, made, channel, filer, entries, sent, pushed>>

LogInit ==
    /\ writer = [w \in Writers |-> "idle"]
    /\ made = [w \in Writers |-> 0]
    /\ channel = <<>>
    /\ filer = IF FileLogging THEN "opening" ELSE "gone"
    /\ entries = <<>>
    /\ sent = <<>> /\ pushed = <<>>

\* format_event makes the entry and add_entry sends it; a send to a channel
\* whose reader is gone is ignored.
SendToFile(w) ==
    /\ writer[w] = "idle" /\ Len(sent) < MaxEntries
    /\ LET e == <<w, made[w] + 1>>
       IN  /\ sent' = Append(sent, e)
           /\ channel' = IF filer = "gone" THEN channel ELSE Append(channel, e)
    /\ made' = [made EXCEPT ![w] = @ + 1]
    /\ writer' = [writer EXCEPT ![w] = "adding"]
    /\ UNCHANGED <<filer, entries, pushed>>

\* Mutant: room is made one entry late.
PushBackLate(w) ==
    /\ writer[w] = "adding"
    /\ LET e == <<w, made[w]>>
           kept == IF Len(entries) > MaxSize THEN Tail(entries) ELSE entries
       IN  /\ entries' = Append(kept, e)
           /\ pushed' = Append(pushed, e)
    /\ writer' = [writer EXCEPT ![w] = "idle"]
    /\ UNCHANGED <<made, channel, filer, sent>>

\* The lock is taken, the oldest entry makes room, and the new one comes last.
PushBack(w) ==
    /\ writer[w] = "adding"
    /\ LET e == <<w, made[w]>>
           kept == IF Len(entries) >= MaxSize THEN Tail(entries) ELSE entries
       IN  /\ entries' = Append(kept, e)
           /\ pushed' = Append(pushed, e)
    /\ writer' = [writer EXCEPT ![w] = "idle"]
    /\ UNCHANGED <<made, channel, filer, sent>>

OpenFile ==
    /\ filer = "opening"
    /\ filer' = "running"
    /\ UNCHANGED <<writer, made, channel, entries, sent, pushed>>

\* The task returns and drops the channel's reader, with what is in it.
OpenFails ==
    /\ filer = "opening"
    /\ filer' = "gone" /\ channel' = <<>>
    /\ UNCHANGED <<writer, made, entries, sent, pushed>>

\* One entry is taken and written; one that cannot be written is lost alone.
WriteEntry ==
    /\ filer = "running" /\ channel # <<>>
    /\ channel' = Tail(channel)
    /\ UNCHANGED <<writer, made, filer, entries, sent, pushed>>

WriterStep(w) == SendToFile(w) \/ PushBack(w)

FilerStep == OpenFile \/ OpenFails \/ WriteEntry

LogNext == (\E w \in Writers : WriterStep(w)) \/ FilerStep

-----------------------------------------------------------------------------
(* Properties.                                                             *)

Position(s, e) == CHOOSE i \in DOMAIN s : s[i] = e

\* What was in the buffer, or had left it again, when e came there.
CameBy(e) == {pushed[i] : i \in 1..Position(pushed, e)}

\* Entries handed to the file before e that were not yet in the buffer when e
\* came there.
Overtaken(e) == {j \in 1..Position(sent, e) : sent[j] \notin CameBy(e)}

\* The buffer shows the last entries that came to it, as many as it may hold,
\* each of them handed to the file before it could be seen.  The order of file
\* and screen may differ (log_buffer.rs:111-120), but an entry overtakes at most
\* one of every other thread, and none of its own.
BufferFollowsFile ==
    /\ Len(entries) = IF Len(pushed) < MaxSize THEN Len(pushed) ELSE MaxSize
    /\ \A i \in DOMAIN entries : entries[i] = pushed[Len(pushed) - Len(entries) + i]
    /\ Range(pushed) \subseteq Range(sent)
    /\ \A e \in Range(pushed) : Cardinality(Overtaken(e)) < Cardinality(Writers)
=============================================================================
