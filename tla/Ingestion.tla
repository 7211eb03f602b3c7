----------------------------- MODULE Ingestion -----------------------------
(***************************************************************************)
(* Play-by-play ingestion of one game (ingestion_service.py) and the       *)
(* readers that catch up on it by sequence (repository.py, game_events).   *)
(*                                                                         *)
(* Each writer is a database session.  Its first event locks the game row  *)
(* (SELECT ... FOR UPDATE) until the caller commits or rolls back, so a    *)
(* statement of the session sees what is committed plus what the session   *)
(* itself has flushed.  The source may deliver its events in any order and *)
(* any number of times.                                                    *)
(***************************************************************************)
EXTENDS Integers, SequencesExt

CONSTANTS
  Feed,         \* the event revisions the source may deliver
  Writers,      \* ingesting sessions
  Readers,      \* clients that read a snapshot and then resume by sequence
  GameAtStart,  \* the game row before its first play
  MaxResults,   \* bound: events one session ingests before it ends
  NoWriter, NoShot

Scoreboard == [period : Nat, clock : Nat, score : Nat]

\* "score" stands for both scores and the status; "requested" is the sequence
\* the source gives the play; "shot" is its source_shot_id.
ASSUME FeedConstants ==
  /\ \A e \in Feed :
       /\ e.revision \in Nat /\ e.requested \in Nat
       /\ e.period \in Nat /\ e.clock \in Nat /\ e.score \in Nat
  /\ GameAtStart \in Scoreboard
  /\ MaxResults \in Nat
  /\ NoWriter \notin Writers

VARIABLES
  plays,      \* committed rows of play_by_play_events
  game,       \* committed state of the games row
  rowLock,    \* the session that holds the games row FOR UPDATE
  writer,     \* each ingesting session
  published,  \* envelopes handed to the event bus, oldest first
  reader      \* each client's copy

vars == <<plays, game, rowLock, writer, published, reader>>

Play == [event : Feed, sequence : Nat]

Board(e) == [period |-> e.period, clock |-> e.clock, score |-> e.score]

\* func.max(sequence), or 0 without a row.
MaxSequence(rows) == Max({0} \cup {row.sequence : row \in rows})

Revisions(rows, e) == {row \in rows : row.event.id = e.id}

\* The rows game_events selects: the greatest revision of each source event.
LatestPlays(rows) ==
  {row \in rows : \A other \in Revisions(rows, row.event) :
                     other.event.revision <= row.event.revision}

IdleWriter == [pc |-> "idle", staged |-> {}, game |-> GameAtStart, results |-> <<>>]

NewReader == [pc |-> "idle", game |-> GameAtStart, known |-> {}, last |-> -1]

Init ==
  /\ plays = {}
  /\ game = GameAtStart
  /\ rowLock = NoWriter
  /\ writer = [w \in Writers |-> IdleWriter]
  /\ published = <<>>
  /\ reader = [r \in Readers |-> NewReader]

(***************************************************************************)
(* ingest_event                                                            *)
(***************************************************************************)

\* Mutant of LockGame: SELECT without FOR UPDATE.
LockNothing(w) ==
  /\ writer[w].pc \in {"idle", "open"}
  /\ Len(writer[w].results) < MaxResults
  /\ rowLock' = w

\* A session's turn: it holds the games row, or gets it because nobody does.
LockGame(w) ==
  /\ writer[w].pc \in {"idle", "open"}
  /\ Len(writer[w].results) < MaxResults
  /\ rowLock \in {NoWriter, w}
  /\ rowLock' = w

\* What the session's statements see.
Seen(w) == plays \cup writer[w].staged
SeenGame(w) == IF writer[w].pc = "open" THEN writer[w].game ELSE game

Exact(rows, e) == {row \in Revisions(rows, e) : row.event.revision = e.revision}

\* UNIQUE (game_id, source_shot_id, revision) of the shots table.
ShotTaken(rows, e) ==
  /\ e.shot # NoShot
  /\ \E row \in rows : row.event.shot = e.shot /\ row.event.revision = e.revision

\* Mutant of AllocateSequence: the maximum itself is taken for free.
AllocateOffByOne(rows, e) ==
  IF Revisions(rows, e) # {} \/ e.requested < MaxSequence(rows)
  THEN MaxSequence(rows) + 1
  ELSE e.requested

\* Mutant of AllocateSequence: a late play keeps the source's sequence if it
\* is free.
AllocateInGap(rows, e) ==
  IF Revisions(rows, e) # {} \/ \E row \in rows : row.sequence = e.requested
  THEN MaxSequence(rows) + 1
  ELSE e.requested

\* A sequence that is taken is never above the maximum, so the collision
\* query of the code adds nothing to the last comparison.
AllocateSequence(rows, e) ==
  IF Revisions(rows, e) # {} \/ e.requested <= MaxSequence(rows)
  THEN MaxSequence(rows) + 1
  ELSE e.requested

\* Mutant of CurrentOrNewer: the clock compared across periods.
ClockOnly(board, e) == e.clock <= board.clock

\* _is_current_or_newer_state: the clock runs down within a period.
CurrentOrNewer(board, e) ==
  \/ e.period > board.period
  \/ e.period = board.period /\ e.clock <= board.clock

\* How a session looks after one more result.
Return(w, status, play, staged, board) ==
  writer' = [writer EXCEPT
    ![w] = [pc |-> "open", staged |-> staged, game |-> board,
            results |-> Append(@.results, [status |-> status, play |-> play])]]

\* This very revision is there already: nothing is written.
Duplicate(w, e) ==
  /\ LockGame(w)
  /\ \E row \in Exact(Seen(w), e) :
       Return(w, "duplicate", row, writer[w].staged, SeenGame(w))
  /\ UNCHANGED <<plays, game, published, reader>>

\* A later revision is there: nothing is written.
Stale(w, e) ==
  /\ LockGame(w)
  /\ Exact(Seen(w), e) = {}
  /\ \E row \in Revisions(Seen(w), e) \cap LatestPlays(Seen(w)) :
       /\ e.revision < row.event.revision
       /\ Return(w, "stale", row, writer[w].staged, SeenGame(w))
  /\ UNCHANGED <<plays, game, published, reader>>

\* Mutant of Writes: any revision that is not there yet.
WritesStale(w, e) ==
  /\ LockGame(w)
  /\ Exact(Seen(w), e) = {}

\* Neither: the play is to be written.
Writes(w, e) ==
  /\ LockGame(w)
  /\ \A row \in Revisions(Seen(w), e) : row.event.revision < e.revision

Add(w, e) ==
  LET play == [event |-> e, sequence |-> AllocateSequence(Seen(w), e)]
      status == IF Revisions(Seen(w), e) = {} THEN "added" ELSE "corrected"
      board == SeenGame(w)
  IN /\ Writes(w, e)
     /\ ~ShotTaken(Seen(w), e)
     /\ Return(w, status, play, writer[w].staged \cup {play},
               IF CurrentOrNewer(board, e) THEN Board(e) ELSE board)
     /\ UNCHANGED <<plays, game, published, reader>>

\* Mutant of ShotConflict: the session is left as it is and goes on.
ConflictIsSwallowed(w, e) ==
  /\ Writes(w, e)
  /\ ShotTaken(Seen(w), e)
  /\ UNCHANGED <<plays, game, writer, published, reader>>

\* The flush of the shot raises: the session can only be rolled back.
ShotConflict(w, e) ==
  /\ Writes(w, e)
  /\ ShotTaken(Seen(w), e)
  /\ writer' = [writer EXCEPT ![w].pc = "failed"]
  /\ UNCHANGED <<plays, game, published, reader>>

(***************************************************************************)
(* The caller's transaction, and publish_results after it                  *)
(***************************************************************************)

\* Mutant of ToPublish: without the test of the status.
ToPublishAll(result) == TRUE

\* publish_results drops the results nothing was written for.
ToPublish(result) == result.status \in {"added", "corrected"}

Commit(w) ==
  /\ writer[w].pc = "open"
  /\ plays' = plays \cup writer[w].staged
  /\ game' = writer[w].game
  /\ rowLock' = NoWriter
  /\ writer' = [writer EXCEPT ![w] =
       [IdleWriter EXCEPT !.pc = "publishing", !.results = writer[w].results]]
  /\ UNCHANGED <<published, reader>>

\* An exception, a crash, or the caller's decision.
Rollback(w) ==
  /\ writer[w].pc \in {"open", "failed"}
  /\ rowLock' = NoWriter
  /\ writer' = [writer EXCEPT ![w] = IdleWriter]
  /\ UNCHANGED <<plays, game, published, reader>>

\* One turn of the loop over the envelopes: the next result that has one.
PublishNext(w) ==
  /\ writer[w].pc = "publishing"
  /\ \E i \in DOMAIN writer[w].results :
       /\ ToPublish(writer[w].results[i])
       /\ \A j \in 1..(i - 1) : ~ToPublish(writer[w].results[j])
       /\ published' = Append(published, writer[w].results[i].play)
       /\ writer' = [writer EXCEPT ![w].results = SubSeq(@, i + 1, Len(@))]
  /\ UNCHANGED <<plays, game, rowLock, reader>>

\* Everything is published, or the process ends before it is.
EndPublishing(w) ==
  /\ writer[w].pc = "publishing"
  /\ writer' = [writer EXCEPT ![w] = IdleWriter]
  /\ UNCHANGED <<plays, game, rowLock, published, reader>>

(***************************************************************************)
(* Readers: live_snapshot, then backlogs by after_sequence                 *)
(***************************************************************************)

\* get_game: the first of two statements, each with a snapshot of its own.
ReadGame(r) ==
  /\ reader[r].pc = "idle"
  /\ reader' = [reader EXCEPT ![r] = [@ EXCEPT !.pc = "reading", !.game = game]]
  /\ UNCHANGED <<plays, game, rowLock, writer, published>>

\* Mutant of EventsAfter: the comparison is off by one.
EventsAfterNext(rows, after) == {row \in LatestPlays(rows) : row.sequence > after + 1}

\* game_events: the latest revisions after the sequence the client names.
EventsAfter(rows, after) == {row \in LatestPlays(rows) : row.sequence > after}

\* The client adds what it got to what it knows and resumes from its end.
ReadEvents(r) ==
  LET new == EventsAfter(plays, reader[r].last)
  IN /\ reader[r].pc = "reading"
     /\ reader' = [reader EXCEPT
          ![r] = [@ EXCEPT !.pc = "idle", !.known = reader[r].known \cup new,
                           !.last = Max({reader[r].last, 0} \cup {row.sequence : row \in new})]]
     /\ UNCHANGED <<plays, game, rowLock, writer, published>>

Next ==
  \/ \E w \in Writers :
       \/ \E e \in Feed : Duplicate(w, e) \/ Stale(w, e) \/ Add(w, e) \/ ShotConflict(w, e)
       \/ Commit(w)
       \/ Rollback(w)
       \/ PublishNext(w)
       \/ EndPublishing(w)
  \/ \E r \in Readers : ReadGame(r) \/ ReadEvents(r)

Spec == Init /\ [][Next]_vars

(***************************************************************************)
(* Properties                                                              *)
(***************************************************************************)

Result == [status : {"added", "corrected", "duplicate", "stale"}, play : Play]

\* A session has staged rows or holds the row lock only while it is open.
TypeOK ==
  /\ plays \subseteq Play
  /\ game \in Scoreboard
  /\ rowLock \in Writers \cup {NoWriter}
  /\ writer \in [Writers -> [pc : {"idle", "open", "failed", "publishing"},
                             staged : SUBSET Play, game : Scoreboard,
                             results : Seq(Result)]]
  /\ \A w \in Writers : writer[w].pc \in {"open", "failed"} <=> rowLock = w
  /\ published \in Seq(Play)
  /\ reader \in [Readers -> [pc : {"idle", "reading"}, game : Scoreboard,
                             known : SUBSET Play, last : Nat \cup {-1}]]

Rows == plays \cup UNION {writer[w].staged : w \in Writers}

\* The unique constraints of play_by_play_events can never fail a commit:
\* whatever the sessions do, no two rows, flushed or committed, share a
\* sequence or a revision of a source event.
UniqueRows ==
  \A p, q \in Rows :
    (\/ p.sequence = q.sequence
     \/ p.event.id = q.event.id /\ p.event.revision = q.event.revision)
    => p = q

\* A correction always comes after what it corrects, also for those who only
\* look at sequences.
CorrectionsFollow ==
  \A p, q \in Rows :
    p.event.id = q.event.id /\ p.event.revision < q.event.revision => p.sequence < q.sequence

\* A commit only ever adds rows above every row committed before it, although
\* sessions run at the same time and the source is out of order.
AppendOnly ==
  [][/\ plays \subseteq plays'
     /\ \A p \in plays, q \in plays' \ plays : p.sequence < q.sequence]_plays

\* Resuming by sequence is complete: whatever a client was given so far, every
\* current play up to its last sequence is among it.
ResumeIsComplete ==
  \A r \in Readers, p \in LatestPlays(plays) :
    p.sequence <= reader[r].last => p \in reader[r].known

NotAfter(board, other) ==
  \/ board.period < other.period
  \/ board.period = other.period /\ board.clock >= other.clock

BoardsOf(rows) == {GameAtStart} \cup {Board(p.event) : p \in rows}

\* The games row is the state after one of the committed plays, and no play
\* is later: late plays and corrections never turn the game clock back.
GameIsAtLatestPlay ==
  /\ game \in BoardsOf(plays)
  /\ \A board \in BoardsOf(plays) : NotAfter(board, game)

\* The client's plays, and the revisions they have taken the place of.
Covered(r) ==
  {q \in plays : \E p \in Revisions(reader[r].known, q.event) :
                    q.event.revision <= p.event.revision}

\* What a client is shown as the game's state is never ahead of the plays it
\* has been given with it.  (A correction that sets the clock back leaves the
\* games row where the play it corrects had put it.)
SnapshotIsCovered ==
  \A r \in Readers :
    reader[r].pc = "idle" =>
      \E board \in BoardsOf(Covered(r)) : NotAfter(reader[r].game, board)

\* Only committed plays are published, and none twice, however often the
\* source delivers it.
PublishedOnce ==
  /\ ToSet(published) \subseteq plays
  /\ \A i, j \in DOMAIN published : published[i] = published[j] => i = j

\* HANDOFF.md:97: "Prevented out-of-order source batches from rewinding the
\* authoritative game snapshot": the row shows the score of the last play, in
\* the source's own order, of those that were committed.
GameShowsLastPlay ==
  \A p \in plays :
    (\A q \in plays \ {p} :
        /\ NotAfter(Board(q.event), Board(p.event))
        /\ q.event.requested < p.event.requested)
    => game = Board(p.event)
=============================================================================
