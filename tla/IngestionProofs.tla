--------------------------- MODULE IngestionProofs ---------------------------
(* Ingestion for any feed, any number of sessions and readers, and batches of *)
(* any length.                                                                *)
EXTENDS Ingestion, TLAPS

(***************************************************************************)
(* The inductive invariant                                                 *)
(***************************************************************************)

\* A greatest sequence and, for each source event, a greatest revision exist.
\* (The rows are finitely many, but this is all that follows from it here.)
HasTop(rows) == rows = {} \/ \E p \in rows : \A q \in rows : q.sequence <= p.sequence
HasLatest(rows) == \A p \in rows : \E q \in LatestPlays(rows) : q.event.id = p.event.id

\* What a session or a reader may rely on in the rows it sees.
Sound(rows) ==
  /\ rows \subseteq Play
  /\ \A p \in rows : p.sequence >= 1
  /\ HasTop(rows)
  /\ HasLatest(rows)
  /\ \A p, q \in rows :
       /\ p.sequence = q.sequence => p = q
       /\ p.event.id = q.event.id /\ p.event.revision = q.event.revision => p = q
       /\ p.event.id = q.event.id /\ p.event.revision < q.event.revision =>
            p.sequence < q.sequence

IsLatestBoard(board, rows) ==
  /\ board \in BoardsOf(rows)
  /\ \A other \in BoardsOf(rows) : NotAfter(other, board)

\* Rows are staged under the row lock only, above what is committed.
StagedIsAbove ==
  \A w \in Writers :
    /\ writer[w].pc \notin {"open", "failed"} => writer[w].staged = {}
    /\ \A p \in plays, q \in writer[w].staged : p.sequence < q.sequence

SessionsAreSound ==
  \A w \in Writers :
    /\ Sound(Seen(w))
    /\ writer[w].pc = "open" => IsLatestBoard(writer[w].game, Seen(w))

\* Where the play of a result that is to be published may be.
Unpublished(w) ==
  CASE writer[w].pc = "open" -> writer[w].staged
    [] writer[w].pc = "publishing" -> plays \ ToSet(published)
    [] OTHER -> Play

\* The results to publish name different rows of a set.
Distinct(results, rows) ==
  \A i \in DOMAIN results :
    ToPublish(results[i]) =>
      /\ results[i].play \in rows
      /\ \A j \in DOMAIN results :
           ToPublish(results[j]) /\ results[i].play = results[j].play => i = j

ResultsAreDistinct ==
  \A w \in Writers :
    /\ writer[w].pc = "idle" => writer[w].results = <<>>
    /\ Distinct(writer[w].results, Unpublished(w))

\* Sessions that publish at the same time publish different rows.
ResultsAreDisjoint ==
  \A v, w \in Writers :
    v # w /\ writer[v].pc = "publishing" /\ writer[w].pc = "publishing" =>
      \A i \in DOMAIN writer[v].results, j \in DOMAIN writer[w].results :
        ToPublish(writer[v].results[i]) /\ ToPublish(writer[w].results[j]) =>
          writer[v].results[i].play # writer[w].results[j].play

\* A reader has rows and a game state that were committed, and resumes from a
\* committed row, or from the start.
ReadersAreBehind ==
  \A r \in Readers :
    /\ reader[r].known \subseteq plays
    /\ reader[r].last > 0 => \E p \in plays : p.sequence = reader[r].last
    /\ reader[r].game \in BoardsOf(plays)

IInv ==
  /\ TypeOK
  /\ Sound(plays) /\ IsLatestBoard(game, plays)
  /\ StagedIsAbove /\ SessionsAreSound
  /\ ResultsAreDistinct /\ ResultsAreDisjoint /\ PublishedOnce
  /\ ReadersAreBehind /\ ResumeIsComplete /\ SnapshotIsCovered

(***************************************************************************)
(* Lemmas about the operators                                              *)
(***************************************************************************)

\* The greatest member is Max.
LEMMA MaxIs ==
  ASSUME NEW S \in SUBSET Int, NEW m \in S, \A x \in S : x <= m
  PROVE  Max(S) = m
<1>1. \E x \in S : \A y \in S : x >= y
  OBVIOUS
<1>2. Max(S) \in S /\ \A x \in S : Max(S) >= x
  BY <1>1, Zenon DEF Max
<1>3. Max(S) \in Int /\ m \in Int /\ Max(S) <= m /\ Max(S) >= m
  BY <1>2
<1> HIDE DEF Max
<1> QED BY <1>3

\* The feed's fields have their types.
LEMMA FeedFields ==
  ASSUME NEW e \in Feed
  PROVE  /\ e.revision \in Nat /\ e.requested \in Nat
         /\ e.period \in Nat /\ e.clock \in Nat /\ e.score \in Nat
         /\ Board(e) \in Scoreboard
BY FeedConstants DEF Board, Scoreboard

\* func.max of the sequences is one of them, or 0.
LEMMA MaxSequenceIsTop ==
  ASSUME NEW rows, Sound(rows)
  PROVE  /\ MaxSequence(rows) \in Nat
         /\ \A p \in rows : p.sequence <= MaxSequence(rows)
<1>1. \A p \in rows : p.sequence \in Nat /\ p.sequence >= 1
  BY DEF Sound, Play
<1>2. CASE rows = {}
  <2>1. {0} \cup {row.sequence : row \in rows} = {0}
    BY <1>2
  <2> QED BY <1>2, <2>1, MaxIs DEF MaxSequence
<1>3. CASE rows # {}
  <2>1. PICK p \in rows : \A q \in rows : q.sequence <= p.sequence
    BY <1>3 DEF Sound, HasTop
  <2> DEFINE S == {0} \cup {row.sequence : row \in rows}
  <2>2. S \in SUBSET Int /\ p.sequence \in S /\ \A x \in S : x <= p.sequence
    BY <1>1, <2>1
  <2>3. Max(S) = p.sequence
    BY <2>2, MaxIs
  <2> QED BY <1>1, <2>1, <2>3 DEF MaxSequence
<1> QED BY <1>2, <1>3

\* A sequence that is allocated is above every one there is.
LEMMA AllocatedIsAbove ==
  ASSUME NEW rows, Sound(rows), NEW e \in Feed
  PROVE  /\ AllocateSequence(rows, e) \in Nat
         /\ AllocateSequence(rows, e) >= 1
         /\ \A p \in rows : p.sequence < AllocateSequence(rows, e)
<1>1. \A p \in rows : p.sequence \in Nat
  BY DEF Sound, Play
<1> QED BY <1>1, MaxSequenceIsTop, FeedFields DEF AllocateSequence

\* A new greatest revision above every row keeps the rows sound.
LEMMA SoundAdd ==
  ASSUME NEW rows, Sound(rows), NEW e \in Feed, NEW n \in Nat, n >= 1,
         \A p \in rows : p.sequence < n,
         \A p \in Revisions(rows, e) : p.event.revision < e.revision
  PROVE  Sound(rows \cup {[event |-> e, sequence |-> n]})
<1> DEFINE play == [event |-> e, sequence |-> n]
           all == rows \cup {play}
<1>1. \A p \in all : /\ p \in Play /\ p.event \in Feed /\ p.event.revision \in Nat
                     /\ p.sequence \in Nat /\ p.sequence >= 1
  BY FeedFields DEF Sound, Play
<1>2. \A p \in rows : p.event.id = e.id => p.event.revision < e.revision
  BY DEF Revisions
<1>3. HasTop(all)
  <2>1. \A q \in all : q.sequence <= play.sequence
    BY <1>1
  <2> QED BY <2>1 DEF HasTop
<1>4. HasLatest(all)
  <2>1. play \in LatestPlays(all)
    BY <1>1, <1>2 DEF LatestPlays, Revisions
  <2>2. ASSUME NEW p \in rows, p.event.id # e.id
        PROVE  \E q \in LatestPlays(all) : q.event.id = p.event.id
    <3>1. PICK q \in LatestPlays(rows) : q.event.id = p.event.id
      BY DEF Sound, HasLatest
    <3>2. q \in LatestPlays(all)
      BY <2>2, <3>1 DEF LatestPlays, Revisions
    <3> QED BY <3>1, <3>2
  <2> QED BY <2>1, <2>2 DEF HasLatest
<1>5. ASSUME NEW p \in all, NEW q \in all
      PROVE  /\ p.sequence = q.sequence => p = q
             /\ p.event.id = q.event.id /\ p.event.revision = q.event.revision => p = q
             /\ p.event.id = q.event.id /\ p.event.revision < q.event.revision =>
                  p.sequence < q.sequence
  BY <1>1, <1>2 DEF Sound
<1> QED BY <1>1, <1>3, <1>4, <1>5 DEF Sound

\* _is_current_or_newer_state keeps the board of the latest play.
LEMMA BoardAdd ==
  ASSUME NEW rows, rows \subseteq Play, NEW board, IsLatestBoard(board, rows),
         NEW e \in Feed, NEW n
  PROVE  /\ IsLatestBoard(IF CurrentOrNewer(board, e) THEN Board(e) ELSE board,
                          rows \cup {[event |-> e, sequence |-> n]})
         /\ board \in Scoreboard
<1> DEFINE play == [event |-> e, sequence |-> n]
<1>1. BoardsOf(rows) \subseteq Scoreboard
  <2>1. \A p \in rows : Board(p.event) \in Scoreboard
    BY FeedFields DEF Play
  <2> QED BY <2>1, FeedConstants DEF BoardsOf
<1>2. BoardsOf(rows \cup {play}) = BoardsOf(rows) \cup {Board(e)}
  <2>1. play.event = e
    OBVIOUS
  <2> HIDE DEF play
  <2> QED BY <2>1, Zenon DEF BoardsOf
<1>3. board \in Scoreboard /\ Board(e) \in Scoreboard
  BY <1>1, FeedFields DEF IsLatestBoard
<1>4. CurrentOrNewer(board, e) <=> NotAfter(board, Board(e))
  BY <1>3, FeedFields DEF CurrentOrNewer, NotAfter, Board, Scoreboard
<1>5. \A a, b, c \in Scoreboard :
        /\ NotAfter(a, a)
        /\ NotAfter(a, b) \/ NotAfter(b, a)
        /\ NotAfter(a, b) /\ NotAfter(b, c) => NotAfter(a, c)
  BY DEF NotAfter, Scoreboard
<1>6. CASE NotAfter(board, Board(e))
  BY <1>1, <1>2, <1>3, <1>4, <1>5, <1>6 DEF IsLatestBoard
<1>7. CASE ~NotAfter(board, Board(e))
  BY <1>1, <1>2, <1>3, <1>4, <1>5, <1>7 DEF IsLatestBoard
<1> QED BY <1>3, <1>6, <1>7

(***************************************************************************)
(* Initial states                                                          *)
(***************************************************************************)

\* There are no rows and no results yet.
LEMMA InitIInv == Init => IInv
<1> SUFFICES ASSUME Init PROVE IInv
  OBVIOUS
<1> USE DEF Init
<1>1. /\ TypeOK
      /\ StagedIsAbove
      /\ published = <<>> /\ ToSet(published) = {}
  BY FeedConstants DEF IdleWriter, NewReader, TypeOK, StagedIsAbove, ToSet
<1>2. Sound({})
  BY DEF Sound, HasTop, HasLatest
<1>3. BoardsOf({}) = {GameAtStart} /\ NotAfter(GameAtStart, GameAtStart)
  BY FeedConstants DEF BoardsOf, NotAfter, Scoreboard
<1>4. IsLatestBoard(game, plays) /\ SessionsAreSound
  BY <1>2, <1>3 DEF IsLatestBoard, SessionsAreSound, Seen, IdleWriter
<1>5. ResultsAreDistinct /\ ResultsAreDisjoint /\ PublishedOnce
  BY <1>1 DEF ResultsAreDistinct, Distinct, ResultsAreDisjoint, PublishedOnce, IdleWriter
<1>6. ReadersAreBehind /\ ResumeIsComplete
  BY <1>3 DEF ReadersAreBehind, ResumeIsComplete, NewReader, LatestPlays
<1>7. SnapshotIsCovered
  BY <1>3 DEF SnapshotIsCovered, NewReader, Covered, BoardsOf
<1> QED BY <1>1, <1>2, <1>4, <1>5, <1>6, <1>7 DEF IInv

(***************************************************************************)
(* Sessions                                                                *)
(***************************************************************************)

Session ==
  [pc : {"idle", "open", "failed", "publishing"}, staged : SUBSET Play, game : Scoreboard,
   results : Seq(Result)]

\* A step of one session, of which nobody else sees anything, keeps the
\* invariant if what it leaves is sound.
LEMMA SessionChange ==
  ASSUME IInv, NEW w \in Writers, NEW W \in Session,
         writer' = [writer EXCEPT ![w] = W],
         rowLock' \in Writers \cup {NoWriter},
         \A v \in Writers : rowLock' = v <=> IF v = w THEN W.pc \in {"open", "failed"}
                                             ELSE rowLock = v,
         UNCHANGED <<plays, game, published, reader>>,
         W.pc # "publishing",
         W.pc = "idle" => W.staged = {} /\ W.results = <<>>,
         \A p \in plays, q \in W.staged : p.sequence < q.sequence,
         Sound(plays \cup W.staged),
         W.pc = "open" => IsLatestBoard(W.game, plays \cup W.staged),
         Distinct(W.results, IF W.pc = "open" THEN W.staged ELSE Play)
  PROVE  IInv'
<1>1. /\ DOMAIN writer = Writers
      /\ writer'[w] = W
      /\ \A v \in Writers : v # w => writer'[v] = writer[v]
  BY DEF IInv, TypeOK
<1>2. TypeOK'
  <2>1. writer' \in [Writers -> Session]
    BY DEF IInv, TypeOK, Session
  <2>2. \A v \in Writers : writer'[v].pc \in {"open", "failed"} <=> rowLock' = v
    BY <1>1, FeedConstants DEF IInv, TypeOK
  <2> QED BY <2>1, <2>2 DEF IInv, TypeOK, Session
<1>3. StagedIsAbove'
  BY <1>1 DEF IInv, StagedIsAbove, Session
<1>4. SessionsAreSound'
  BY <1>1 DEF IInv, SessionsAreSound, Seen
<1>5. ResultsAreDistinct'
  <2>1. ASSUME NEW v \in Writers, v # w
        PROVE  Unpublished(v)' = Unpublished(v) /\ writer'[v] = writer[v]
    BY <1>1, <2>1 DEF Unpublished
  <2>2. Unpublished(w)' = IF W.pc = "open" THEN W.staged ELSE Play
    BY <1>1 DEF Unpublished
  <2> QED BY <1>1, <2>1, <2>2 DEF IInv, ResultsAreDistinct
<1>6. ResultsAreDisjoint'
  BY <1>1 DEF IInv, ResultsAreDisjoint
<1>7. /\ Sound(plays)' /\ IsLatestBoard(game, plays)'
      /\ PublishedOnce' /\ ReadersAreBehind' /\ ResumeIsComplete'
  BY DEF IInv, Sound, HasTop, HasLatest, LatestPlays, IsLatestBoard, PublishedOnce, ReadersAreBehind,
         ResumeIsComplete
<1>8. SnapshotIsCovered'
  BY DEF IInv, SnapshotIsCovered, Covered
<1> QED BY <1>2, <1>3, <1>4, <1>5, <1>6, <1>7, <1>8 DEF IInv

\* What a session has when it gets its turn.
LEMMA Turn ==
  ASSUME IInv, NEW w \in Writers, LockGame(w)
  PROVE  /\ Sound(Seen(w)) /\ IsLatestBoard(SeenGame(w), Seen(w))
         /\ SeenGame(w) \in Scoreboard
         /\ Distinct(writer[w].results, writer[w].staged)
         /\ writer[w] \in Session
         /\ rowLock \in {NoWriter, w} /\ rowLock' = w
         /\ \A p \in plays, q \in writer[w].staged : p.sequence < q.sequence
<1>1. writer[w] \in Session /\ game \in Scoreboard
  BY DEF IInv, TypeOK, Session
<1>2. CASE writer[w].pc = "open"
  BY <1>1, <1>2 DEF IInv, LockGame, SessionsAreSound, SeenGame, ResultsAreDistinct, Unpublished,
                    Session, StagedIsAbove
<1>3. CASE writer[w].pc = "idle"
  <2>1. writer[w].staged = {} /\ writer[w].results = <<>>
    BY <1>3 DEF IInv, StagedIsAbove, ResultsAreDistinct
  <2>2. Seen(w) = plays /\ SeenGame(w) = game
    BY <1>3, <2>1 DEF Seen, SeenGame
  <2>3. Distinct(writer[w].results, writer[w].staged)
    BY <2>1 DEF Distinct
  <2> QED BY <1>1, <2>1, <2>2, <2>3 DEF IInv, LockGame
<1> QED BY <1>2, <1>3 DEF LockGame

\* A result for a new row, or one that is not published, can be added.
LEMMA DistinctAppend ==
  ASSUME NEW results \in Seq(Result), NEW r \in Result, NEW rows, NEW more,
         Distinct(results, rows), rows \subseteq more, ToPublish(r) => r.play \in more \ rows
  PROVE  Distinct(Append(results, r), more)
<1> DEFINE n == Len(results)
           all == Append(results, r)
<1>1. /\ n \in Nat /\ DOMAIN results = 1..n /\ DOMAIN all = 1..(n + 1)
      /\ \A i \in 1..n : all[i] = results[i]
      /\ all[n + 1] = r
  OBVIOUS
<1> HIDE DEF n, all
<1>2. SUFFICES ASSUME NEW i \in 1..(n + 1), ToPublish(all[i])
               PROVE  /\ all[i].play \in more
                      /\ \A j \in 1..(n + 1) :
                           ToPublish(all[j]) /\ all[i].play = all[j].play => i = j
  BY <1>1 DEF Distinct, all
<1>3. \A k \in 1..n : ToPublish(all[k]) => all[k].play \in rows
  BY <1>1 DEF Distinct
<1>4. CASE i = n + 1
  <2>1. ToPublish(r) /\ all[i] = r
    BY <1>1, <1>2, <1>4
  <2>2. ASSUME NEW j \in 1..n, ToPublish(all[j]) PROVE all[j].play # r.play
    BY <1>3, <2>1, <2>2
  <2> QED BY <1>1, <1>4, <2>1, <2>2
<1>5. CASE i \in 1..n
  <2>1. ASSUME NEW j \in 1..n, ToPublish(all[j]), all[i].play = all[j].play PROVE i = j
    BY <1>1, <1>2, <1>5, <2>1 DEF Distinct
  <2>2. ToPublish(all[n + 1]) => all[n + 1].play # all[i].play
    BY <1>1, <1>2, <1>3, <1>5
  <2>3. all[i].play \in more
    BY <1>2, <1>3, <1>5
  <2> QED BY <1>1, <2>1, <2>2, <2>3
<1> QED BY <1>1, <1>4, <1>5

\* One more result; a new row is staged if its status says so.
LEMMA ReturnIInv ==
  ASSUME IInv, NEW w \in Writers, LockGame(w),
         NEW status \in {"added", "corrected", "duplicate", "stale"}, NEW play \in Play,
         NEW staged \in SUBSET Play, NEW board \in Scoreboard,
         Return(w, status, play, staged, board),
         writer[w].staged \subseteq staged,
         status \in {"added", "corrected"} => play \in staged \ writer[w].staged,
         \A p \in plays, q \in staged : p.sequence < q.sequence,
         Sound(plays \cup staged), IsLatestBoard(board, plays \cup staged),
         UNCHANGED <<plays, game, published, reader>>
  PROVE  IInv'
<1> DEFINE result == [status |-> status, play |-> play]
           results == Append(writer[w].results, result)
           W == [pc |-> "open", staged |-> staged, game |-> board, results |-> results]
<1>1. writer' = [writer EXCEPT ![w] = W]
  BY DEF Return
<1>2. writer[w].results \in Seq(Result) /\ result \in Result
  BY Turn DEF Session, Result
<1>3. W \in Session
  BY <1>2 DEF Session
<1>4. Distinct(results, staged)
  <2>1. Distinct(writer[w].results, writer[w].staged)
    BY Turn
  <2>2. ToPublish(result) => result.play \in staged \ writer[w].staged
    BY DEF ToPublish
  <2> QED BY <1>2, <2>1, <2>2, DistinctAppend
<1> HIDE DEF W
<1>5. W.pc = "open" /\ W.staged = staged /\ W.game = board /\ W.results = results
  BY DEF W
<1>6. /\ rowLock \in {NoWriter, w} /\ rowLock' \in {NoWriter, w}
      /\ rowLock' = w <=> W.pc \in {"open", "failed"}
      /\ \A v \in Writers : rowLock' = v <=> IF v = w THEN W.pc \in {"open", "failed"}
                                             ELSE rowLock = v
      /\ W.pc # "publishing" /\ W.pc # "idle"
      /\ \A p \in plays, q \in W.staged : p.sequence < q.sequence
      /\ Sound(plays \cup W.staged) /\ IsLatestBoard(W.game, plays \cup W.staged)
      /\ Distinct(W.results, IF W.pc = "open" THEN W.staged ELSE Play)
  BY <1>4, <1>5, Turn, FeedConstants
<1> QED BY <1>1, <1>3, <1>6, SessionChange

\* This revision is there: nothing new to publish.
LEMMA DuplicateIInv ==
  ASSUME IInv, NEW w \in Writers, NEW e \in Feed, Duplicate(w, e)
  PROVE  IInv'
<1>1. PICK row \in Exact(Seen(w), e) :
        Return(w, "duplicate", row, writer[w].staged, SeenGame(w))
  BY DEF Duplicate
<1>2. row \in Play
  BY Turn DEF Duplicate, Exact, Revisions, Sound
<1>3. writer[w].staged \in SUBSET Play
  BY Turn DEF Duplicate, Session
<1> QED BY <1>1, <1>2, <1>3, Turn, ReturnIInv DEF Duplicate, Seen

\* A later revision is there: nothing new to publish.
LEMMA StaleIInv ==
  ASSUME IInv, NEW w \in Writers, NEW e \in Feed, Stale(w, e)
  PROVE  IInv'
<1>1. PICK row \in Revisions(Seen(w), e) :
        Return(w, "stale", row, writer[w].staged, SeenGame(w))
  BY DEF Stale
<1>2. row \in Play
  BY Turn DEF Stale, Revisions, Sound
<1>3. writer[w].staged \in SUBSET Play
  BY Turn DEF Stale, Session
<1> QED BY <1>1, <1>2, <1>3, Turn, ReturnIInv DEF Stale, Seen

\* The new row is above all the session sees, under the lock.
LEMMA AddIInv ==
  ASSUME IInv, NEW w \in Writers, NEW e \in Feed, Add(w, e)
  PROVE  IInv'
<1> DEFINE n == AllocateSequence(Seen(w), e)
           play == [event |-> e, sequence |-> n]
           status == IF Revisions(Seen(w), e) = {} THEN "added" ELSE "corrected"
           staged == writer[w].staged \cup {play}
           board == IF CurrentOrNewer(SeenGame(w), e) THEN Board(e) ELSE SeenGame(w)
<1>1. /\ LockGame(w)
      /\ \A row \in Revisions(Seen(w), e) : row.event.revision < e.revision
      /\ Return(w, status, play, staged, board)
      /\ UNCHANGED <<plays, game, published, reader>>
  BY DEF Add, Writes
<1>2. Sound(Seen(w)) /\ IsLatestBoard(SeenGame(w), Seen(w)) /\ SeenGame(w) \in Scoreboard
      /\ writer[w].staged \in SUBSET Play
      /\ \A p \in plays, q \in writer[w].staged : p.sequence < q.sequence
  BY <1>1, Turn DEF Session
<1>3. n \in Nat /\ n >= 1 /\ \A p \in Seen(w) : p.sequence < n
  BY <1>2, AllocatedIsAbove
<1> HIDE DEF n
<1>4. Sound(Seen(w) \cup {play})
  BY <1>1, <1>2, <1>3, SoundAdd
<1>5. IsLatestBoard(board, Seen(w) \cup {play})
  BY <1>2, BoardAdd DEF Sound
<1>6. plays \cup staged = Seen(w) \cup {play}
  BY DEF Seen
<1>7. board \in Scoreboard /\ play \in Play /\ staged \in SUBSET Play
  BY <1>2, <1>3, FeedFields DEF Play
<1>8. play.sequence = n /\ play \notin writer[w].staged
  BY <1>3 DEF Seen
<1>9. \A p \in plays, q \in staged : p.sequence < q.sequence
  BY <1>2, <1>3, <1>8 DEF Seen
<1> HIDE DEF play, board
<1> QED BY <1>1, <1>4, <1>5, <1>6, <1>7, <1>8, <1>9, ReturnIInv

\* The session fails with its rows still staged, and keeps the lock.
LEMMA ShotConflictIInv ==
  ASSUME IInv, NEW w \in Writers, NEW e \in Feed, ShotConflict(w, e)
  PROVE  IInv'
<1> DEFINE W == [writer[w] EXCEPT !.pc = "failed"]
<1>1. /\ LockGame(w) /\ writer' = [writer EXCEPT ![w] = W]
      /\ UNCHANGED <<plays, game, published, reader>>
  BY DEF ShotConflict, Writes
<1>2. /\ W \in Session /\ W.pc = "failed"
      /\ W.staged = writer[w].staged /\ W.results = writer[w].results
  BY <1>1, Turn DEF Session
<1> HIDE DEF W
<1>3. writer[w].staged \subseteq Play
  BY <1>1, Turn DEF Session
<1>4. Distinct(W.results, Play)
  BY <1>1, <1>2, <1>3, Turn DEF Distinct
<1>5. /\ rowLock \in {NoWriter, w} /\ rowLock' \in {NoWriter, w}
      /\ rowLock' = w <=> W.pc \in {"open", "failed"}
      /\ \A v \in Writers : rowLock' = v <=> IF v = w THEN W.pc \in {"open", "failed"}
                                             ELSE rowLock = v
      /\ W.pc # "publishing" /\ W.pc # "idle" /\ W.pc # "open"
      /\ \A p \in plays, q \in W.staged : p.sequence < q.sequence
      /\ Sound(plays \cup W.staged)
      /\ Distinct(W.results, IF W.pc = "open" THEN W.staged ELSE Play)
  BY <1>1, <1>2, <1>4, Turn, FeedConstants DEF Seen
<1> QED BY <1>1, <1>2, <1>5, SessionChange

\* A rollback or the end of a batch.
LEMMA RollbackIInv ==
  ASSUME IInv, NEW w \in Writers, Rollback(w)
  PROVE  IInv'
<1>1. IdleWriter \in Session /\ IdleWriter.pc = "idle"
      /\ IdleWriter.staged = {} /\ IdleWriter.results = <<>>
  BY FeedConstants DEF IdleWriter, Session
<1>2. /\ rowLock = w /\ rowLock' = NoWriter
      /\ \A v \in Writers : rowLock' = v <=> IF v = w THEN FALSE ELSE rowLock = v
      /\ Sound(plays \cup IdleWriter.staged)
      /\ Distinct(IdleWriter.results, Play)
  BY <1>1, FeedConstants DEF IInv, TypeOK, Rollback, Distinct
<1> QED BY <1>1, <1>2, SessionChange DEF Rollback

\* What is not published by then is never published.
LEMMA EndPublishingIInv ==
  ASSUME IInv, NEW w \in Writers, EndPublishing(w)
  PROVE  IInv'
<1>1. IdleWriter \in Session /\ IdleWriter.pc = "idle"
      /\ IdleWriter.staged = {} /\ IdleWriter.results = <<>>
  BY FeedConstants DEF IdleWriter, Session
<1>2. /\ rowLock' = rowLock /\ rowLock \in Writers \cup {NoWriter}
      /\ \A v \in Writers : rowLock' = v <=> IF v = w THEN FALSE ELSE rowLock = v
      /\ Sound(plays \cup IdleWriter.staged)
      /\ Distinct(IdleWriter.results, Play)
  BY <1>1, FeedConstants DEF IInv, TypeOK, EndPublishing, Distinct
<1> QED BY <1>1, <1>2, SessionChange DEF EndPublishing

\* Readers notice nothing but more rows, above those they resume from.
LEMMA ReadersKeepUp ==
  ASSUME IInv, NEW w \in Writers, plays' = plays \cup writer[w].staged, Sound(plays)',
         reader' = reader
  PROVE  ReadersAreBehind' /\ ResumeIsComplete' /\ SnapshotIsCovered'
<1>1. plays \subseteq plays'
  OBVIOUS
<1>2. ReadersAreBehind'
  BY <1>1 DEF IInv, ReadersAreBehind, BoardsOf
<1>3. ResumeIsComplete'
  <2> SUFFICES ASSUME NEW r \in Readers, NEW p \in LatestPlays(plays'),
                      p.sequence <= reader[r].last
               PROVE  p \in reader[r].known
    BY DEF ResumeIsComplete
  <2>1. p \in plays'
    BY DEF LatestPlays
  <2>2. p.sequence \in Nat /\ p.sequence >= 1 /\ reader[r].last \in Nat \cup {-1}
    BY <2>1 DEF Sound, Play, IInv, TypeOK
  <2>3. PICK q \in plays : q.sequence = reader[r].last
    BY <2>2 DEF IInv, ReadersAreBehind
  <2>4. p \in plays
    BY <2>1, <2>2, <2>3 DEF IInv, StagedIsAbove
  <2>5. p \in LatestPlays(plays)
    BY <2>4 DEF LatestPlays, Revisions
  <2> QED BY <2>5 DEF IInv, ResumeIsComplete
<1>4. SnapshotIsCovered'
  <2>1. \A r \in Readers : Covered(r) \subseteq Covered(r)'
    BY DEF Covered
  <2>2. \A r \in Readers : BoardsOf(Covered(r)) \subseteq BoardsOf(Covered(r))'
    BY <2>1 DEF BoardsOf
  <2> QED BY <2>2 DEF IInv, SnapshotIsCovered
<1> QED BY <1>2, <1>3, <1>4

\* Only the session with the lock has staged rows; they become plays.
LEMMA CommitIInv ==
  ASSUME IInv, NEW w \in Writers, Commit(w)
  PROVE  IInv'
<1> DEFINE W == [IdleWriter EXCEPT !.pc = "publishing", !.results = writer[w].results]
<1>1. /\ writer[w].pc = "open" /\ writer' = [writer EXCEPT ![w] = W]
      /\ plays' = Seen(w) /\ game' = writer[w].game /\ rowLock' = NoWriter
      /\ published' = published /\ reader' = reader
  BY DEF Commit, Seen
<1>2. W \in Session /\ W.pc = "publishing" /\ W.staged = {} /\ W.results = writer[w].results
  BY FeedConstants DEF IInv, TypeOK, IdleWriter, Session
<1> HIDE DEF W
<1>3. /\ DOMAIN writer = Writers
      /\ writer'[w] = W
      /\ \A v \in Writers : v # w => writer'[v] = writer[v]
  BY <1>1 DEF IInv, TypeOK
<1>4. \A v \in Writers : v # w => writer[v].pc \in {"idle", "publishing"} /\ writer[v].staged = {}
  BY <1>1 DEF IInv, TypeOK, StagedIsAbove
<1>5. Sound(plays)' /\ IsLatestBoard(game, plays)'
  <2>1. Sound(Seen(w)) /\ IsLatestBoard(writer[w].game, Seen(w))
    BY <1>1 DEF IInv, SessionsAreSound
  <2>2. Sound(plays')
    BY <1>1, <2>1
  <2>3. IsLatestBoard(game', plays')
    BY <1>1, <2>1
  <2> QED BY <2>2, <2>3 DEF Sound, HasTop, HasLatest, LatestPlays, Revisions, IsLatestBoard, BoardsOf
<1>6. TypeOK'
  <2>1. writer' \in [Writers -> Session]
    BY <1>1, <1>2 DEF IInv, TypeOK, Session
  <2>2. plays' \subseteq Play /\ game' \in Scoreboard
    BY <1>1 DEF IInv, TypeOK, Seen
  <2>3. \A v \in Writers : writer'[v].pc \in {"open", "failed"} <=> rowLock' = v
    BY <1>1, <1>2, <1>3, <1>4, FeedConstants
  <2> QED BY <1>1, <2>1, <2>2, <2>3 DEF IInv, TypeOK, Session
<1>7. \A v \in Writers : writer'[v].staged = {} /\ writer'[v].pc # "open"
  BY <1>2, <1>3, <1>4
<1>8. StagedIsAbove'
  BY <1>7 DEF StagedIsAbove
<1>9. SessionsAreSound'
  <2>1. \A v \in Writers : Seen(v)' = plays'
    BY <1>7 DEF Seen
  <2> QED BY <1>5, <1>7, <2>1 DEF SessionsAreSound
<1>10. writer[w].staged \cap plays = {} /\ ToSet(published) \subseteq plays
  <2>1. \A p \in plays : p.sequence \in Nat
    BY DEF IInv, Sound, Play
  <2> QED BY <2>1 DEF IInv, StagedIsAbove, PublishedOnce
<1>11. ResultsAreDistinct'
  <2>1. ASSUME NEW v \in Writers, v # w
        PROVE  /\ writer'[v].pc = "idle" => writer'[v].results = <<>>
               /\ Distinct(writer'[v].results, Unpublished(v)')
    <3>1. Unpublished(v) \subseteq Unpublished(v)'
      BY <1>1, <1>3, <1>4, <2>1 DEF Unpublished, Seen
    <3> QED BY <1>3, <2>1, <3>1 DEF IInv, ResultsAreDistinct, Distinct
  <2>2. Unpublished(w)' = plays' \ ToSet(published)
    BY <1>1, <1>2, <1>3 DEF Unpublished
  <2>3. writer[w].staged \subseteq Unpublished(w)'
    BY <1>1, <1>10, <2>2 DEF Seen
  <2>4. Distinct(writer[w].results, writer[w].staged)
    BY <1>1 DEF IInv, ResultsAreDistinct, Unpublished
  <2>5. Distinct(W.results, Unpublished(w)')
    BY <1>2, <2>3, <2>4 DEF Distinct
  <2> QED BY <1>2, <1>3, <2>1, <2>5 DEF ResultsAreDistinct
<1>12. ResultsAreDisjoint'
  <2>1. ASSUME NEW v \in Writers, v # w, writer[v].pc = "publishing",
               NEW i \in DOMAIN writer[v].results, NEW j \in DOMAIN writer[w].results,
               ToPublish(writer[v].results[i]), ToPublish(writer[w].results[j])
        PROVE  writer[v].results[i].play # writer[w].results[j].play
    <3>1. writer[v].results[i].play \in plays
      BY <2>1 DEF IInv, ResultsAreDistinct, Distinct, Unpublished
    <3>2. writer[w].results[j].play \in writer[w].staged
      BY <1>1, <2>1 DEF IInv, ResultsAreDistinct, Distinct, Unpublished
    <3> QED BY <1>10, <3>1, <3>2
  <2> QED BY <1>2, <1>3, <2>1 DEF IInv, ResultsAreDisjoint
<1>13. PublishedOnce'
  BY <1>1 DEF IInv, PublishedOnce, Seen
<1>14. ReadersAreBehind' /\ ResumeIsComplete' /\ SnapshotIsCovered'
  BY <1>1, <1>5, ReadersKeepUp DEF Seen
<1> QED BY <1>5, <1>6, <1>8, <1>9, <1>11, <1>12, <1>13, <1>14 DEF IInv

\* What is left after the result that is published names the rows it named,
\* and none of them is the one that is published.
LEMMA DistinctTail ==
  ASSUME NEW results \in Seq(Result), NEW i \in DOMAIN results, ToPublish(results[i]),
         NEW rows, Distinct(results, rows)
  PROVE  LET tail == SubSeq(results, i + 1, Len(results))
         IN  /\ tail \in Seq(Result)
             /\ Distinct(tail, rows \ {results[i].play})
             /\ \A k \in DOMAIN tail : \E j \in DOMAIN results : tail[k] = results[j]
<1> DEFINE tail == SubSeq(results, i + 1, Len(results))
<1>1. /\ Len(results) \in Nat /\ DOMAIN results = 1..Len(results)
      /\ i \in 1..Len(results)
  OBVIOUS
<1>2. /\ tail \in Seq(Result)
      /\ DOMAIN tail = 1..(Len(results) - i)
      /\ \A k \in DOMAIN tail : tail[k] = results[k + i]
  BY <1>1
<1>3. \A k \in DOMAIN tail : k + i \in DOMAIN results /\ k + i # i
  BY <1>1, <1>2
<1> HIDE DEF tail
<1>4. ASSUME NEW k \in DOMAIN tail, ToPublish(tail[k])
      PROVE  /\ tail[k].play \in rows \ {results[i].play}
             /\ \A j \in DOMAIN tail :
                  ToPublish(tail[j]) /\ tail[k].play = tail[j].play => k = j
  <2>1. /\ tail[k] = results[k + i] /\ k + i \in DOMAIN results /\ k + i # i
        /\ ToPublish(results[k + i])
    BY <1>2, <1>3, <1>4
  <2>2. tail[k].play \in rows \ {results[i].play}
    BY <2>1 DEF Distinct
  <2>3. ASSUME NEW j \in DOMAIN tail, ToPublish(tail[j]), tail[k].play = tail[j].play
        PROVE  k = j
    <3>1. tail[j] = results[j + i] /\ j + i \in DOMAIN results
      BY <1>2, <1>3
    <3>2. k + i = j + i
      BY <2>1, <2>3, <3>1 DEF Distinct
    <3>3. k \in Int /\ j \in Int /\ i \in Int
      BY <1>1, <1>2
    <3> QED BY <3>2, <3>3
  <2> QED BY <2>2, <2>3
<1>5. Distinct(tail, rows \ {results[i].play})
  BY <1>4 DEF Distinct
<1>6. \A k \in DOMAIN tail : \E j \in DOMAIN results : tail[k] = results[j]
  BY <1>2, <1>3
<1> QED BY <1>2, <1>5, <1>6 DEF tail

\* No other session, and no later result, names the row that is published.
LEMMA PublishNextIInv ==
  ASSUME IInv, NEW w \in Writers, PublishNext(w)
  PROVE  IInv'
<1>1. PICK i \in DOMAIN writer[w].results :
        /\ ToPublish(writer[w].results[i])
        /\ published' = Append(published, writer[w].results[i].play)
        /\ writer' = [writer EXCEPT
             ![w].results = SubSeq(writer[w].results, i + 1, Len(writer[w].results))]
  BY DEF PublishNext
<1> DEFINE play == writer[w].results[i].play
           tail == SubSeq(writer[w].results, i + 1, Len(writer[w].results))
           W == [writer[w] EXCEPT !.results = tail]
<1>2. /\ writer[w].pc = "publishing" /\ writer[w] \in Session
      /\ UNCHANGED <<plays, game, rowLock, reader>>
  BY DEF PublishNext, IInv, TypeOK, Session
<1>3. Distinct(writer[w].results, plays \ ToSet(published))
  BY <1>2 DEF IInv, ResultsAreDistinct, Unpublished
<1>4. /\ tail \in Seq(Result)
      /\ Distinct(tail, (plays \ ToSet(published)) \ {play})
      /\ \A k \in DOMAIN tail : \E j \in DOMAIN writer[w].results : tail[k] = writer[w].results[j]
  <2>1. writer[w].results \in Seq(Result)
    BY <1>2 DEF Session
  <2> QED BY <1>1, <1>3, <2>1, DistinctTail
<1>5. play \in plays \ ToSet(published)
  BY <1>1, <1>3 DEF Distinct
<1>6. /\ W \in Session /\ W.pc = "publishing" /\ W.results = tail
      /\ W.staged = writer[w].staged /\ W.game = writer[w].game
      /\ writer' = [writer EXCEPT ![w] = W]
  BY <1>1, <1>2, <1>4 DEF Session
<1> HIDE DEF W, tail, play
<1>7. /\ DOMAIN writer = Writers
      /\ writer'[w] = W
      /\ \A v \in Writers : v # w => writer'[v] = writer[v]
  BY <1>6 DEF IInv, TypeOK
<1>8. published' = Append(published, play) /\ published \in Seq(Play) /\ play \in Play
  BY <1>1, <1>5 DEF play, IInv, TypeOK
<1>9. ToSet(published') = ToSet(published) \cup {play}
  BY <1>8 DEF ToSet
<1>10. TypeOK'
  <2>1. writer' \in [Writers -> Session]
    BY <1>6 DEF IInv, TypeOK, Session
  <2>2. \A v \in Writers : writer'[v].pc = writer[v].pc
    BY <1>2, <1>6, <1>7
  <2> QED BY <1>2, <1>8, <2>1, <2>2 DEF IInv, TypeOK, Session
<1>11. StagedIsAbove' /\ SessionsAreSound'
  <2>1. \A v \in Writers : /\ writer'[v].pc = writer[v].pc /\ writer'[v].staged = writer[v].staged
                           /\ writer'[v].game = writer[v].game
    BY <1>2, <1>6, <1>7 DEF Session
  <2>2. \A v \in Writers : Seen(v)' = Seen(v)
    BY <1>2, <2>1 DEF Seen
  <2> QED BY <1>2, <2>1, <2>2 DEF IInv, StagedIsAbove, SessionsAreSound
<1>12. ResultsAreDistinct'
  <2>1. ASSUME NEW v \in Writers, v # w, writer[v].pc = "publishing"
        PROVE  Distinct(writer[v].results, (plays \ ToSet(published)) \ {play})
    <3>1. Distinct(writer[v].results, plays \ ToSet(published))
      BY <2>1 DEF IInv, ResultsAreDistinct, Unpublished
    <3>2. \A k \in DOMAIN writer[v].results :
            ToPublish(writer[v].results[k]) => writer[v].results[k].play # play
      BY <1>1, <1>2, <2>1 DEF IInv, ResultsAreDisjoint, play
    <3> QED BY <3>1, <3>2 DEF Distinct
  <2>2. ASSUME NEW v \in Writers, writer[v].pc # "publishing"
        PROVE  Unpublished(v)' = Unpublished(v) /\ writer'[v] = writer[v]
    BY <1>2, <1>7, <2>2 DEF Unpublished
  <2>3. ASSUME NEW v \in Writers, writer[v].pc = "publishing"
        PROVE  Unpublished(v)' = (plays \ ToSet(published)) \ {play} /\ writer'[v].pc = "publishing"
    BY <1>2, <1>6, <1>7, <1>9, <2>3 DEF Unpublished
  <2>4. ASSUME NEW v \in Writers, writer[v].pc = "publishing"
        PROVE  Distinct(writer'[v].results, Unpublished(v)')
    BY <1>4, <1>6, <1>7, <2>1, <2>3, <2>4
  <2> QED BY <2>2, <2>3, <2>4 DEF IInv, ResultsAreDistinct
<1>13. ResultsAreDisjoint'
  <2>1. ASSUME NEW v \in Writers, NEW k \in DOMAIN writer'[v].results
        PROVE  \E j \in DOMAIN writer[v].results : writer'[v].results[k] = writer[v].results[j]
    BY <1>4, <1>6, <1>7, <2>1
  <2>2. \A v \in Writers : writer'[v].pc = writer[v].pc
    BY <1>2, <1>6, <1>7
  <2> SUFFICES ASSUME NEW u \in Writers, NEW v \in Writers, u # v,
                      writer'[u].pc = "publishing", writer'[v].pc = "publishing",
                      NEW k \in DOMAIN writer'[u].results, NEW l \in DOMAIN writer'[v].results,
                      ToPublish(writer'[u].results[k]), ToPublish(writer'[v].results[l])
               PROVE  writer'[u].results[k].play # writer'[v].results[l].play
    BY DEF ResultsAreDisjoint, ToPublish
  <2>3. PICK i1 \in DOMAIN writer[u].results : writer'[u].results[k] = writer[u].results[i1]
    BY <2>1
  <2>4. PICK i2 \in DOMAIN writer[v].results : writer'[v].results[l] = writer[v].results[i2]
    BY <2>1
  <2> QED BY <2>2, <2>3, <2>4 DEF IInv, ResultsAreDisjoint
<1>14. PublishedOnce'
  <2>1. /\ DOMAIN published = 1..Len(published) /\ Len(published) \in Nat
        /\ DOMAIN published' = 1..(Len(published) + 1)
        /\ \A k \in 1..Len(published) : published'[k] = published[k]
        /\ published'[Len(published) + 1] = play
    BY <1>8
  <2>2. \A k \in 1..Len(published) : published[k] # play
    BY <1>5, <2>1 DEF ToSet
  <2>3. \A k, l \in 1..Len(published) : published[k] = published[l] => k = l
    BY <2>1 DEF IInv, PublishedOnce
  <2>4. ASSUME NEW k \in 1..(Len(published) + 1), NEW l \in 1..(Len(published) + 1),
               published'[k] = published'[l]
        PROVE  k = l
    BY <2>1, <2>2, <2>3, <2>4
  <2> QED BY <1>2, <1>5, <1>9, <2>1, <2>4 DEF IInv, PublishedOnce
<1>15. /\ Sound(plays)' /\ IsLatestBoard(game, plays)'
       /\ ReadersAreBehind' /\ ResumeIsComplete'
  BY <1>2 DEF IInv, Sound, HasTop, HasLatest, LatestPlays, IsLatestBoard, ReadersAreBehind,
              ResumeIsComplete
<1>16. SnapshotIsCovered'
  BY <1>2 DEF IInv, SnapshotIsCovered, Covered
<1> QED BY <1>10, <1>11, <1>12, <1>13, <1>14, <1>15, <1>16 DEF IInv

(***************************************************************************)
(* Readers                                                                 *)
(***************************************************************************)

\* A step of readers only disturbs nothing that is said of sessions and rows.
LEMMA ReaderChange ==
  ASSUME IInv, UNCHANGED <<plays, game, rowLock, writer, published>>,
         reader' \in [Readers -> [pc : {"idle", "reading"}, game : Scoreboard,
                                  known : SUBSET Play, last : Nat \cup {-1}]],
         ReadersAreBehind', ResumeIsComplete', SnapshotIsCovered'
  PROVE  IInv'
<1>1. TypeOK'
  BY DEF IInv, TypeOK
<1>2. \A w \in Writers : Seen(w)' = Seen(w) /\ Unpublished(w)' = Unpublished(w)
  BY DEF Seen, Unpublished
<1>3. StagedIsAbove' /\ SessionsAreSound' /\ ResultsAreDistinct' /\ ResultsAreDisjoint'
  BY <1>2 DEF IInv, StagedIsAbove, SessionsAreSound, ResultsAreDistinct, ResultsAreDisjoint
<1>4. Sound(plays)' /\ IsLatestBoard(game, plays)' /\ PublishedOnce'
  BY DEF IInv, Sound, HasTop, HasLatest, LatestPlays, IsLatestBoard, PublishedOnce
<1> QED BY <1>1, <1>3, <1>4 DEF IInv

\* The game a reader gets is the board of a committed play.
LEMMA ReadGameIInv ==
  ASSUME IInv, NEW r \in Readers, ReadGame(r)
  PROVE  IInv'
<1>1. /\ \A s \in Readers : /\ reader'[s].known = reader[s].known
                            /\ reader'[s].last = reader[s].last
                            /\ s # r => reader'[s] = reader[s]
      /\ reader'[r].pc = "reading" /\ reader'[r].game = game
      /\ reader' \in [Readers -> [pc : {"idle", "reading"}, game : Scoreboard,
                                  known : SUBSET Play, last : Nat \cup {-1}]]
  BY DEF ReadGame, IInv, TypeOK
<1>2. UNCHANGED <<plays, game, rowLock, writer, published>>
  BY DEF ReadGame
<1>3. game \in BoardsOf(plays)
  BY DEF IInv, IsLatestBoard
<1>4. ReadersAreBehind' /\ ResumeIsComplete'
  BY <1>1, <1>2, <1>3 DEF IInv, ReadersAreBehind, ResumeIsComplete
<1>5. SnapshotIsCovered'
  BY <1>1, <1>2 DEF IInv, SnapshotIsCovered, Covered
<1> QED BY <1>1, <1>2, <1>4, <1>5, ReaderChange

LastAfter(r, new) == Max({reader[r].last, 0} \cup {row.sequence : row \in new})

\* What the client resumes from next: the greatest sequence of the plays it
\* gets, the one it had, and 0.
LEMMA LastIsTop ==
  ASSUME IInv, NEW r \in Readers, NEW new, new = EventsAfter(plays, reader[r].last),
         NEW last, last = LastAfter(r, new)
  PROVE  /\ last \in Nat
         /\ last >= reader[r].last
         /\ \A p \in LatestPlays(plays) : p.sequence <= reader[r].last \/ p \in new
         /\ \A p \in new : p.sequence <= last
         /\ last > 0 => \E p \in plays : p.sequence = last
<1> DEFINE S == {reader[r].last, 0} \cup {row.sequence : row \in new}
<1>0. last = Max(S)
  BY DEF LastAfter
<1>1. /\ reader[r].last \in Nat \cup {-1}
      /\ new \subseteq plays
      /\ \A p \in plays : p.sequence \in Nat /\ p.sequence >= 1
  BY DEF IInv, TypeOK, EventsAfter, LatestPlays, Sound, Play
<1>2. \A p \in new : p.sequence > reader[r].last
  BY DEF EventsAfter
<1>3. \A p \in LatestPlays(plays) : p.sequence <= reader[r].last \/ p \in new
  <2>1. \A p \in LatestPlays(plays) : p \in plays
    BY DEF LatestPlays
  <2> QED BY <1>1, <2>1 DEF EventsAfter
<1>4. CASE new = {}
  <2>1. S = {reader[r].last, 0}
    BY <1>4
  <2> HIDE DEF S
  <2>2. CASE reader[r].last > 0
    <3>1. S \in SUBSET Int /\ reader[r].last \in S /\ \A x \in S : x <= reader[r].last
      BY <1>1, <2>1, <2>2
    <3>2. last = reader[r].last
      BY <1>0, <3>1, MaxIs
    <3>3. \E p \in plays : p.sequence = reader[r].last
      BY <2>2 DEF IInv, ReadersAreBehind
    <3>4. last \in Nat /\ last >= reader[r].last
      BY <1>1, <2>2, <3>2
    <3> QED BY <1>3, <1>4, <3>2, <3>3, <3>4
  <2>3. CASE ~(reader[r].last > 0)
    <3>1. S \in SUBSET Int /\ 0 \in S /\ \A x \in S : x <= 0
      BY <1>1, <2>1, <2>3
    <3>2. last = 0
      BY <1>0, <3>1, MaxIs
    <3> QED BY <1>1, <1>3, <1>4, <2>3, <3>2
  <2> QED BY <2>2, <2>3
<1>5. CASE new # {}
  <2>1. PICK p \in plays : \A q \in plays : q.sequence <= p.sequence
    BY <1>1, <1>5 DEF IInv, Sound, HasTop
  <2>2. p \in LatestPlays(plays)
    \* A later revision of it would be above it.
    <3>1. ASSUME NEW q \in Revisions(plays, p.event)
          PROVE  q.event.revision <= p.event.revision
      <4>1. /\ q \in plays /\ q.event.id = p.event.id
            /\ q.event.revision \in Nat /\ p.event.revision \in Nat
        BY FeedFields DEF Revisions, IInv, Sound, Play
      <4>2. ~(p.sequence < q.sequence)
        BY <1>1, <2>1, <4>1
      <4> QED BY <4>1, <4>2 DEF IInv, Sound
    <3> QED BY <3>1 DEF LatestPlays
  <2>3. p \in new
    <3>1. PICK q \in new : TRUE
      BY <1>5
    <3>2. p.sequence > reader[r].last
      BY <1>1, <1>2, <2>1, <3>1
    <3> QED BY <2>2, <3>2 DEF EventsAfter
  <2>4. S \in SUBSET Int /\ p.sequence \in S
    BY <1>1, <2>3
  <2>5. \A x \in S : x <= p.sequence
    BY <1>1, <1>2, <2>1, <2>3
  <2>6. last = p.sequence
    BY <1>0, <2>4, <2>5, MaxIs
  <2> HIDE DEF S
  <2>7. p.sequence \in Nat /\ p.sequence > reader[r].last
    BY <1>1, <1>2, <2>3
  <2>8. \A q \in new : q.sequence <= last
    BY <1>1, <2>1, <2>6
  <2>9. last \in Nat /\ last >= reader[r].last
    BY <1>1, <2>6, <2>7
  <2>10. \E q \in plays : q.sequence = last
    BY <2>6
  <2> QED BY <1>3, <2>8, <2>9, <2>10
<1> QED BY <1>4, <1>5

\* The reader gets every current play it did not have.
LEMMA ReadEventsIInv ==
  ASSUME IInv, NEW r \in Readers, ReadEvents(r)
  PROVE  IInv'
<1> DEFINE new == EventsAfter(plays, reader[r].last)
           last == LastAfter(r, new)
<1>1. /\ last \in Nat /\ last >= reader[r].last
      /\ \A p \in LatestPlays(plays) : p.sequence <= reader[r].last \/ p \in new
      /\ last > 0 => \E p \in plays : p.sequence = last
  <2> HIDE DEF new, last
  <2>1. new = EventsAfter(plays, reader[r].last)
    BY DEF new
  <2>2. last = LastAfter(r, new)
    BY DEF last
  <2> QED BY <2>1, <2>2, LastIsTop
<1>2. new \subseteq plays /\ LatestPlays(plays) \subseteq plays
  BY DEF EventsAfter, LatestPlays
<1>3. reader' = [reader EXCEPT
        ![r] = [@ EXCEPT !.pc = "idle", !.known = reader[r].known \cup new, !.last = last]]
  BY DEF ReadEvents, LastAfter
<1> HIDE DEF new, last
<1>4. UNCHANGED <<plays, game, rowLock, writer, published>>
  BY DEF ReadEvents
<1>5. reader \in [Readers -> [pc : {"idle", "reading"}, game : Scoreboard,
                              known : SUBSET Play, last : Nat \cup {-1}]]
  BY DEF IInv, TypeOK
<1>6. /\ \A s \in Readers : /\ reader'[s].game = reader[s].game
                            /\ s # r => reader'[s] = reader[s]
      /\ reader'[r].known = reader[r].known \cup new /\ reader'[r].last = last
  BY <1>3, <1>5
<1>7. reader' \in [Readers -> [pc : {"idle", "reading"}, game : Scoreboard,
                               known : SUBSET Play, last : Nat \cup {-1}]]
  BY <1>1, <1>2, <1>3, <1>5 DEF IInv, TypeOK
<1>8. ReadersAreBehind'
  BY <1>1, <1>2, <1>4, <1>6 DEF IInv, ReadersAreBehind
<1>9. LatestPlays(plays) \subseteq reader'[r].known
  BY <1>1, <1>6 DEF IInv, ResumeIsComplete
<1>10. ResumeIsComplete'
  BY <1>4, <1>6, <1>9 DEF IInv, ResumeIsComplete
<1>11. SnapshotIsCovered'
  <2>1. ASSUME NEW q \in plays PROVE q \in Covered(r)'
    <3>1. PICK p \in LatestPlays(plays) : p.event.id = q.event.id
      BY DEF IInv, Sound, HasLatest
    <3>2. q.event.revision <= p.event.revision
      BY <3>1 DEF LatestPlays, Revisions
    <3>3. p \in Revisions(reader'[r].known, q.event)
      BY <1>9, <3>1 DEF Revisions
    <3> QED BY <1>4, <3>2, <3>3 DEF Covered
  <2>2. BoardsOf(plays) \subseteq BoardsOf(Covered(r)')
    BY <2>1 DEF BoardsOf
  <2>3. reader[r].game \in BoardsOf(plays)
    BY DEF IInv, ReadersAreBehind
  <2>4. \A board \in Scoreboard : NotAfter(board, board)
    BY DEF NotAfter, Scoreboard
  <2>5. \E board \in BoardsOf(Covered(r)') : NotAfter(reader'[r].game, board)
    BY <1>5, <1>6, <2>2, <2>3, <2>4
  <2>6. \A s \in Readers : s # r => Covered(s)' = Covered(s)
    BY <1>4, <1>6 DEF Covered
  <2> QED BY <1>6, <2>5, <2>6 DEF IInv, SnapshotIsCovered, BoardsOf
<1> QED BY <1>4, <1>7, <1>8, <1>10, <1>11, ReaderChange

(***************************************************************************)
(* The theorems                                                            *)
(***************************************************************************)

\* Every step keeps the invariant.
LEMMA NextIInv == IInv /\ [Next]_vars => IInv'
<1> SUFFICES ASSUME IInv, [Next]_vars PROVE IInv'
  OBVIOUS
<1>1. ASSUME NEW w \in Writers, NEW e \in Feed,
             Duplicate(w, e) \/ Stale(w, e) \/ Add(w, e) \/ ShotConflict(w, e)
      PROVE  IInv'
  BY <1>1, DuplicateIInv, StaleIInv, AddIInv, ShotConflictIInv
<1>2. ASSUME NEW w \in Writers, Commit(w) PROVE IInv'
  BY <1>2, CommitIInv
<1>3. ASSUME NEW w \in Writers, Rollback(w) PROVE IInv'
  BY <1>3, RollbackIInv
<1>4. ASSUME NEW w \in Writers, PublishNext(w) PROVE IInv'
  BY <1>4, PublishNextIInv
<1>5. ASSUME NEW w \in Writers, EndPublishing(w) PROVE IInv'
  BY <1>5, EndPublishingIInv
<1>6. ASSUME NEW r \in Readers, ReadGame(r) PROVE IInv'
  BY <1>6, ReadGameIInv
<1>7. ASSUME NEW r \in Readers, ReadEvents(r) PROVE IInv'
  BY <1>7, ReadEventsIInv
<1>8. CASE UNCHANGED vars
  <2>1. ReadersAreBehind' /\ ResumeIsComplete' /\ SnapshotIsCovered'
    BY <1>8 DEF vars, IInv, ReadersAreBehind, ResumeIsComplete, SnapshotIsCovered, Covered
  <2> QED BY <1>8, <2>1, ReaderChange DEF vars, IInv, TypeOK
<1> QED BY <1>1, <1>2, <1>3, <1>4, <1>5, <1>6, <1>7, <1>8 DEF Next

\* The inductive invariant holds.
LEMMA Invariance == Spec => []IInv
BY InitIInv, NextIInv, PTL DEF Spec

\* Only one session has rows that are not committed.
LEMMA RowsOfOneSession ==
  ASSUME IInv
  PROVE  \/ Rows = plays
         \/ \E w \in Writers : Rows = Seen(w)
<1>1. CASE \A w \in Writers : writer[w].staged = {}
  <2>1. UNION {writer[w].staged : w \in Writers} = {}
    BY <1>1
  <2> QED BY <2>1 DEF Rows
<1>2. ASSUME NEW w \in Writers, writer[w].staged # {}
      PROVE  Rows = Seen(w)
  <2>1. rowLock = w
    BY <1>2 DEF IInv, StagedIsAbove, TypeOK
  <2>2. \A v \in Writers : v # w => writer[v].staged = {}
    BY <2>1 DEF IInv, StagedIsAbove, TypeOK
  <2>3. UNION {writer[v].staged : v \in Writers} = writer[w].staged
    BY <2>2
  <2> QED BY <2>3 DEF Rows, Seen
<1> QED BY <1>1, <1>2

\* Sequences and revisions are those of the rows one session sees.
LEMMA RowsAreSound == IInv => Sound(Rows)
<1> SUFFICES ASSUME IInv PROVE Sound(Rows)
  OBVIOUS
<1>1. Sound(plays) /\ \A w \in Writers : Sound(Seen(w))
  BY DEF IInv, SessionsAreSound
<1> QED BY <1>1, RowsOfOneSession

\* Type correctness; a session has the row lock exactly while it is open.
THEOREM TypeCorrect == Spec => []TypeOK
<1>1. IInv => TypeOK
  BY DEF IInv
<1> QED BY <1>1, Invariance, PTL

\* AllocateSequence under the row lock: no commit can violate the unique
\* constraints of play_by_play_events, whatever the source delivers.
THEOREM UniqueRowsHolds == Spec => []UniqueRows
<1>1. IInv => UniqueRows
  BY RowsAreSound DEF Sound, UniqueRows
<1> QED BY <1>1, Invariance, PTL

\* A correction has a greater sequence than everything it corrects.
THEOREM CorrectionsFollowHolds == Spec => []CorrectionsFollow
<1>1. IInv => CorrectionsFollow
  BY RowsAreSound DEF Sound, CorrectionsFollow
<1> QED BY <1>1, Invariance, PTL

\* Rows are committed in the order of their sequences.
THEOREM AppendOnlyHolds == Spec => AppendOnly
<1> DEFINE A == /\ plays \subseteq plays'
                /\ \A p \in plays, q \in plays' \ plays : p.sequence < q.sequence
<1>1. IInv /\ [Next]_vars => [A]_plays
  <2> SUFFICES ASSUME IInv, Next PROVE [A]_plays
    BY DEF vars
  <2>1. ASSUME NEW w \in Writers, Commit(w) PROVE A
    BY <2>1 DEF IInv, StagedIsAbove, Commit
  <2>2. (\E w \in Writers : Commit(w)) \/ plays' = plays
    BY DEF Next, Duplicate, Stale, Add, ShotConflict, Rollback, PublishNext, EndPublishing, ReadGame,
           ReadEvents
  <2> QED BY <2>1, <2>2
<1> QED BY <1>1, Invariance, PTL DEF Spec, AppendOnly

\* game_events after a client's last sequence misses no current play.
THEOREM ResumeIsCompleteHolds == Spec => []ResumeIsComplete
<1>1. IInv => ResumeIsComplete
  BY DEF IInv
<1> QED BY <1>1, Invariance, PTL

\* _is_current_or_newer_state: the games row is at the latest committed play.
THEOREM GameIsAtLatestPlayHolds == Spec => []GameIsAtLatestPlay
<1>1. IInv => GameIsAtLatestPlay
  BY DEF IInv, IsLatestBoard, GameIsAtLatestPlay
<1> QED BY <1>1, Invariance, PTL

\* live_snapshot reads the games row first and the plays second: the plays
\* the client has are never behind the game it is shown.
THEOREM SnapshotIsCoveredHolds == Spec => []SnapshotIsCovered
<1>1. IInv => SnapshotIsCovered
  BY DEF IInv
<1> QED BY <1>1, Invariance, PTL

\* Sessions publish only what they have committed, and nothing a second time.
THEOREM PublishedOnceHolds == Spec => []PublishedOnce
<1>1. IInv => PublishedOnce
  BY DEF IInv
<1> QED BY <1>1, Invariance, PTL

=============================================================================
