----------------------------- MODULE MessageBus -----------------------------
(***************************************************************************)
(* The communication bus: MCP server processes that share one file of      *)
(* messages, a line each.  Sending appends a line; reading marks messages  *)
(* read and clearing removes them by rewriting the whole file, which is    *)
(* read, truncated on opening and written on closing.                      *)
(***************************************************************************)
EXTENDS Naturals, Sequences, FiniteSets, Subsequences

CONSTANTS
  Server,          \* processes, each of which handles one request at a time
  Recipient,
  Broadcast,       \* the recipient "broadcast"
  Torn,            \* a line that is not JSON
  MaxMessages,     \* bound on the messages sent
  MaxKills         \* bound on kills

VARIABLES
  queue,       \* the lines of the file
  server,      \* [Server -> record]: what each process is at
  messages,    \* messages sent so far; a message is its number
  kills,       \* kills so far
  kept,        \* history: what should be in the file
  collided     \* history: a rewrite overlapped a send or another rewrite, or was killed

busVars == <<queue, server, messages, kills, kept, collided>>

Line == [msg : 1 .. MaxMessages, to : Recipient, read : BOOLEAN]

ASSUME MessageBusAssumption ==
  /\ Broadcast \in Recipient
  /\ MaxMessages \in Nat /\ MaxKills \in Nat
  /\ Torn \notin Line

waiting == [pc |-> "wait", lines |-> <<>>]

BusTypeOK ==
  /\ queue \in Seq(Line \cup {Torn})
  /\ server \in [Server -> [pc : {"wait", "opening", "writing"}, lines : Seq(Line \cup {Torn})]]
  /\ messages \in 0 .. MaxMessages
  /\ kills \in 0 .. MaxKills
  /\ kept \in Seq(1 .. MaxMessages)
  /\ collided \in BOOLEAN

rewriting == \E s \in Server : server[s].pc # "wait"

\* send_message: one append.
SendMessage(s, to) ==
  /\ server[s].pc = "wait"
  /\ messages < MaxMessages
  /\ messages' = messages + 1
  /\ queue' = Append(queue, [msg |-> messages + 1, to |-> to, read |-> FALSE])
  /\ kept' = Append(kept, messages + 1)
  /\ collided' = (collided \/ rewriting)
  /\ UNCHANGED <<server, kills>>

\* A rewrite begins with reading the file; `lines` is what will be written.
beginRewrite(s, lines) ==
  /\ server[s].pc = "wait"
  /\ server' = [server EXCEPT ![s] = [pc |-> "opening", lines |-> lines]]
  /\ collided' = (collided \/ rewriting)
  /\ UNCHANGED <<queue, messages, kills>>

\* The messages for a recipient, read before or not, and those for all.
addressed(line, r) == line # Torn /\ line.to \in {r, Broadcast}

\* Mutant: only the lines of the reader are written back.
markedOwn(lines, r) == Subsequence(lines, {k \in DOMAIN lines : addressed(lines[k], r)})

\* read_messages with mark_read: a line that is not JSON is kept as it is.
\* Without mark_read nothing changes.
marked(lines, r) == [k \in DOMAIN lines |-> IF addressed(lines[k], r)
                                            THEN [lines[k] EXCEPT !.read = TRUE] ELSE lines[k]]

ReadMessages(s, r) ==
  /\ beginRewrite(s, marked(queue, r))
  /\ UNCHANGED kept

\* clear_messages of one recipient, "broadcast" perhaps: messages for all stay
\* unless they are the ones to be cleared.
ClearMessages(s, r) ==
  LET stays == {k \in DOMAIN queue : queue[k] = Torn \/ queue[k].to # r}
      gone == {queue[k].msg : k \in DOMAIN queue \ stays}
  IN /\ beginRewrite(s, Subsequence(queue, stays))
     /\ kept' = Subsequence(kept, {k \in DOMAIN kept : kept[k] \notin gone})

ClearAll(s) ==
  /\ server[s].pc = "wait"
  /\ queue' = <<>>
  /\ kept' = <<>>
  /\ collided' = (collided \/ rewriting)
  /\ UNCHANGED <<server, messages, kills>>

Truncate(s) ==
  /\ server[s].pc = "opening"
  /\ server' = [server EXCEPT ![s].pc = "writing"]
  /\ queue' = <<>>
  /\ UNCHANGED <<messages, kills, kept, collided>>

\* The lines go to the start of the file: lines another process has put there
\* since are overwritten, the next one perhaps in part.
Rewrite(s) ==
  LET lines == server[s].lines
      rest == SubSeq(queue, Len(lines) + 1, Len(queue))
  IN /\ server[s].pc = "writing"
     /\ \/ queue' = lines \o rest
        \/ rest # <<>> /\ lines # <<>> /\ queue' = lines \o <<Torn>> \o Tail(rest)
     /\ server' = [server EXCEPT ![s] = waiting]
     /\ UNCHANGED <<messages, kills, kept, collided>>

\* A process is killed in the middle of a rewrite and started again.
KillServer(s) ==
  /\ kills < MaxKills
  /\ server[s].pc # "wait"
  /\ kills' = kills + 1
  /\ server' = [server EXCEPT ![s] = waiting]
  /\ collided' = TRUE
  /\ UNCHANGED <<queue, messages, kept>>

------------------------------------------------------------------------------
BusInit ==
  /\ queue = <<>>
  /\ server = [s \in Server |-> waiting]
  /\ messages = 0
  /\ kills = 0
  /\ kept = <<>>
  /\ collided = FALSE

BusNext ==
  \E s \in Server :
    \/ \E r \in Recipient : SendMessage(s, r)
    \/ \E r \in Recipient : ReadMessages(s, r) \/ ClearMessages(s, r)
    \/ ClearAll(s)
    \/ Truncate(s) \/ Rewrite(s) \/ KillServer(s)

BusSpec == BusInit /\ [][BusNext]_busVars

------------------------------------------------------------------------------
(* Properties. *)

\* As long as no rewrite overlaps a send or another rewrite and none is killed,
\* the file between rewrites holds exactly the messages sent and not cleared, in
\* the order sent, however often they were read; sends may overlap each other.
SentIsKept ==
  ~collided /\ ~rewriting =>
    /\ \A k \in DOMAIN queue : queue[k] # Torn
    /\ [k \in DOMAIN queue |-> queue[k].msg] = kept
=============================================================================
