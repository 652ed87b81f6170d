---------------------------- MODULE Replication ----------------------------
(***************************************************************************)
(* A replica that follows the primary's write-ahead log: the streamer on   *)
(* the primary (wal_stream.rs), the stream, and the replica, which writes  *)
(* each batch and then its sequence number (wal_client.rs,                 *)
(* apply_replicated_batch), over lost connections and crashes of the       *)
(* replica.  The primary keeps the log the replica has still to read.      *)
(***************************************************************************)
EXTENDS Integers, Sequences

CONSTANTS
  Records,     \* how many records a batch of the primary may have
  MaxBatches,  \* bound on the primary's log
  MaxDrops     \* bound on lost connections and crashes

ASSUME BoundsType ==
  /\ Records \subseteq Nat \ {0}
  /\ MaxBatches \in Nat /\ MaxDrops \in Nat

VARIABLES
  wal,      \* the primary's batches, in the order of their sequence numbers
  up,       \* the replica is connected
  current,  \* WalStreamer::run: current_seq
  tailing,  \* it has an iterator over the log
  after,    \* the iterator yields batches that begin after this number
  stream,   \* batches sent and not received yet
  journal,  \* the replica's writes: batches, and whether each was noted in
            \* last_seq before the next
  noting,   \* the replica is between the two writes of a batch
  drops     \* lost connections and crashes so far

primaryVars == <<current, tailing, after>>
linkVars == <<up, primaryVars, stream>>
repVars == <<wal, linkVars, journal, noting, drops>>

WalBatch == [seq : Nat \ {0}, records : Nat \ {0}]
Entry == [batch : Nat \ {0}, noted : BOOLEAN]

\* The sequence number the next batch begins with
NextSeq == IF wal = <<>> THEN 1
           ELSE wal[Len(wal)].seq + wal[Len(wal)].records

\* last_applied_seq, as the batch it is the number of; 0 before the first
LastNoted(j) ==
  IF \E i \in DOMAIN j : j[i].noted
  THEN LET i == CHOOSE i \in DOMAIN j :
                  j[i].noted /\ \A k \in DOMAIN j : j[k].noted => k <= i
       IN  j[i].batch
  ELSE 0

SeqOf(b) == IF b = 0 THEN 0 ELSE wal[b].seq

-----------------------------------------------------------------------------
RepInit ==
  /\ wal = <<>>
  /\ up = FALSE
  /\ current = 0
  /\ tailing = FALSE
  /\ after = 0
  /\ stream = <<>>
  /\ journal = <<>>
  /\ noting = FALSE
  /\ drops = 0

\* A commit, a dictionary entry, an increment of counters, ...
Write ==
  /\ Len(wal) < MaxBatches
  /\ \E n \in Records : wal' = Append(wal, [seq |-> NextSeq, records |-> n])
  /\ UNCHANGED <<linkVars, journal, noting, drops>>

-----------------------------------------------------------------------------
(* The stream *)

\* Faulty: the replica gives up after the first error.
ConnectOnce ==
  /\ ~up /\ drops = 0
  /\ up' = TRUE
  /\ current' = SeqOf(LastNoted(journal))
  /\ tailing' = FALSE
  /\ after' = 0
  /\ stream' = <<>>
  /\ UNCHANGED <<wal, journal, noting, drops>>

\* The replica asks for what follows its last_applied_seq.
Connect ==
  /\ ~up
  /\ up' = TRUE
  /\ current' = SeqOf(LastNoted(journal))
  /\ tailing' = FALSE
  /\ after' = 0
  /\ stream' = <<>>
  /\ UNCHANGED <<wal, journal, noting, drops>>

\* Faulty: one number too far.
PollPast ==
  /\ up /\ ~tailing
  /\ current < NextSeq
  /\ tailing' = TRUE
  /\ after' = current + 1
  /\ UNCHANGED <<wal, up, current, stream, journal, noting, drops>>

\* get_updates_since: an error past the end of the log; else an iterator over
\* the batches that begin after the number given.
Poll ==
  /\ up /\ ~tailing
  /\ current < NextSeq
  /\ tailing' = TRUE
  /\ after' = current
  /\ UNCHANGED <<wal, up, current, stream, journal, noting, drops>>

IsNext(b) == wal[b].seq > after /\ \A c \in DOMAIN wal : wal[c].seq > after => b <= c

\* Faulty: the cursor is left where the iterator was opened.
SendNoCursor(b) ==
  /\ up /\ tailing
  /\ IsNext(b)
  /\ stream' = Append(stream, b)
  /\ after' = wal[b].seq
  /\ UNCHANGED <<wal, up, current, tailing, journal, noting, drops>>

Send(b) ==
  /\ up /\ tailing
  /\ IsNext(b)
  /\ stream' = Append(stream, b)
  /\ after' = wal[b].seq
  /\ current' = wal[b].seq + 1
  /\ UNCHANGED <<wal, up, tailing, journal, noting, drops>>

\* The iterator ends where it has read all there is.
EndOfLog ==
  /\ up /\ tailing
  /\ \A b \in DOMAIN wal : wal[b].seq <= after
  /\ tailing' = FALSE
  /\ after' = 0
  /\ UNCHANGED <<wal, up, current, stream, journal, noting, drops>>

-----------------------------------------------------------------------------
(* The replica *)

\* apply_replicated_batch: the batch as it is
Apply ==
  /\ up /\ stream # <<>> /\ ~noting
  /\ journal' = Append(journal, [batch |-> Head(stream), noted |-> FALSE])
  /\ noting' = TRUE
  /\ UNCHANGED <<wal, linkVars, drops>>

\* and then its sequence number
Note ==
  /\ up /\ noting
  /\ journal' = [journal EXCEPT ![Len(journal)].noted = TRUE]
  /\ noting' = FALSE
  /\ stream' = Tail(stream)
  /\ UNCHANGED <<wal, up, primaryVars, drops>>

Disconnected ==
  /\ drops < MaxDrops
  /\ drops' = drops + 1
  /\ up' = FALSE
  /\ current' = 0
  /\ tailing' = FALSE
  /\ after' = 0
  /\ stream' = <<>>
  /\ noting' = FALSE

\* The connection is lost or a write fails: what was sent is, too.
Drop ==
  /\ up
  /\ Disconnected
  /\ UNCHANGED <<wal, journal>>

\* What is left of the replica's writes when the last ones are lost: n
\* batches, and perhaps not the note of the last.
Left(n, noted) ==
  [i \in 1 .. n |-> [journal[i] EXCEPT !.noted = @ /\ (i < n \/ noted)]]

\* The replica's machine stops; writes are not synced.
Crash ==
  /\ Disconnected
  /\ \E n \in 0 .. Len(journal), noted \in BOOLEAN : journal' = Left(n, noted)
  /\ UNCHANGED wal

RepNext ==
  \/ Write \/ Connect \/ Poll \/ EndOfLog \/ Apply \/ Note \/ Drop \/ Crash
  \/ \E b \in DOMAIN wal : Send(b)

RepSpec == RepInit /\ [][RepNext]_repVars

Streaming == Poll \/ EndOfLog \/ \E b \in DOMAIN wal : Send(b)
Applying == Apply \/ Note

FairRepSpec ==
  RepSpec /\ WF_repVars(Connect) /\ WF_repVars(Streaming) /\ WF_repVars(Applying)

-----------------------------------------------------------------------------
(* Properties *)

RepTypeOK ==
  /\ wal \in Seq(WalBatch)
  /\ up \in BOOLEAN /\ tailing \in BOOLEAN /\ noting \in BOOLEAN
  /\ current \in Nat /\ after \in Nat /\ drops \in Nat
  /\ stream \in Seq(Nat \ {0}) /\ journal \in Seq(Entry)
  /\ \A i \in DOMAIN stream : stream[i] \in DOMAIN wal
  /\ \A i \in DOMAIN journal : journal[i].batch \in DOMAIN wal
  /\ noting => up /\ journal # <<>> /\ stream # <<>>

\* Entry h of the journal, or its start, is the last noted one before i.
NotedBefore(h, i) ==
  /\ h = 0 \/ journal[h].noted
  /\ \A k \in h + 1 .. i - 1 : ~journal[k].noted

BatchAt(h) == IF h = 0 THEN 0 ELSE journal[h].batch

\* b is the batch after p, or the one behind it when p has a single record.
Follows(p, b) ==
  \/ b = p + 1
  \/ p # 0 /\ wal[p].records = 1 /\ b = p + 2

\* Every batch follows the one noted before it, over any connections lost and
\* writes of the replica lost; one is left out only right after a batch of a
\* single record, where the streamer's cursor names the next one and
\* get_updates_since starts behind it (WalStreamer::run).
SkipsOnlyAfterSingles ==
  \A i \in DOMAIN journal : \A h \in 0 .. i - 1 :
     NotedBefore(h, i) => Follows(BatchAt(h), journal[i].batch)

\* A batch is applied again only where its sequence number was not noted, so
\* that a counter is off by what each crash between the two writes repeats
\* (apply_replicated_batch, increment_counters).
RepeatsOnlyUnnoted ==
  \A i, j \in DOMAIN journal :
     i < j /\ journal[i].batch = journal[j].batch => ~journal[i].noted

\* The log is numbered without gaps.
WalOrdered ==
  /\ \A i \in DOMAIN wal : wal[i].seq + wal[i].records <= NextSeq
  /\ \A i, j \in DOMAIN wal : i < j => wal[i].seq + wal[i].records <= wal[j].seq
  /\ \A i, j \in DOMAIN wal : j = i + 1 => wal[j].seq = wal[i].seq + wal[i].records
  /\ wal # <<>> => wal[1].seq = 1

\* The last batch the streamer has sent, or what it was asked to go on from.
SentLast == IF stream = <<>> THEN LastNoted(journal) ELSE stream[Len(stream)]

\* A cursor stands at the last batch sent or at the number after it.
Behind(cursor) ==
  \/ cursor = SeqOf(SentLast)
  \/ SentLast # 0 /\ cursor = SeqOf(SentLast) + 1

StreamFollows ==
  /\ ~up => stream = <<>>
  /\ up => Behind(current) /\ (tailing => Behind(after))
  /\ stream # <<>> => Follows(LastNoted(journal), stream[1])
  /\ \A i, j \in DOMAIN stream : j = i + 1 => Follows(stream[i], stream[j])
  /\ noting => journal[Len(journal)] = [batch |-> stream[1], noted |-> FALSE]

\* Why: what is sent follows what is noted.
RepInv ==
  /\ WalOrdered
  /\ StreamFollows
  /\ SkipsOnlyAfterSingles
  /\ \A i, j \in DOMAIN journal : i < j /\ journal[i].noted => journal[i].batch < journal[j].batch

\* A replica that can reconnect catches up with every batch, save one that
\* the stream leaves out.
ReplicaFollows ==
  \A n \in 1 .. MaxBatches :
     n \in DOMAIN wal ~>
       LET p == LastNoted(journal)
       IN  p >= n \/ (p # 0 /\ p = n - 1 /\ wal[p].records = 1)
=============================================================================
