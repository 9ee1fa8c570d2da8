-------------------------- MODULE ComposeWordsProofs --------------------------
(***************************************************************************)
(* WordsInv of ComposeDrafts is inductive beside Core, and with it: no     *)
(* close clears words the server does not hold, no save replaces a draft   *)
(* that holds newer words, and ComposeDrafts implements DraftsFolder.  The *)
(* first part says what a step may do to the saves, the next ones take     *)
(* WordsGrow, RefsTrue, GateKept and ClosesCover in turn, then the         *)
(* actions; the last is the refinement.                                    *)
(***************************************************************************)
EXTENDS ComposeDraftsProofs

(***************************************************************************)
(* The saves.                                                              *)
(***************************************************************************)

\* A save that starts in the session of the pane takes its words and the draft
\* it is bound to; one that outlived its session takes the draft its queue
\* saved last.
Restarts(u) ==
    /\ save[u].stage = "waiting"
    /\ \/ /\ save[u].session = session /\ session' = session /\ words' = words
          /\ save'[u].words \in {save[u].words, words} /\ save'[u].prior = prior'
       \/ /\ save'[u].words = save[u].words
          /\ save'[u].prior \in Made
          /\ save'[save'[u].prior].stage \in {"stored", "saved", "lost"}
          /\ save[save'[u].prior].session = save[u].session /\ save'[u].prior < u

\* What a step does to a save, unless it queues it.
Steady(u) ==
    /\ save'[u].session = save[u].session /\ save'[u].form = save[u].form
    /\ save'[u].kind = save[u].kind
    /\ \/ Restarts(u)
       \/ save'[u].words = save[u].words /\ save'[u].prior = save[u].prior
    /\ Written(u) => save'[u].stage \in {"stored", "saved", "lost"}
    /\ save[u].stage = "saved" => save'[u].stage = "saved"
    /\ save'[u].stage \in {"waiting", "sent", "stored"} =>
          save[u].stage \in {"waiting", "sent", "stored"}
    /\ save'[u].stage = "saved" => save[u].stage \in {"stored", "saved"}

Rested == saves' = saves /\ \A u \in Made : Steady(u)

\* With the queue at rest no save moves.
LEMMA QueueRests ==
    ASSUME UNCHANGED queue
    PROVE  Rested
  BY DEF queue, Rested, Steady, Written

LEMMA StoresRests ==
    ASSUME Core, NEW t, Stores(t)
    PROVE  Rested
<1>1. t \in Made /\ saves' = saves
  BY DEF Stores
<1>2. PICK st \in {"stored", "lost"} :
          /\ save' = [save EXCEPT ![t].stage = st]
          /\ st = "stored" => save[t].stage = "sent"
          /\ st = "lost" => save[t].stage = "late"
  BY DEF Stores
<1>3. save \in [Saves -> SaveRecords \cup {NoSave}] /\ Made \subseteq Saves
  BY Types, SaveFacts DEF QueueType
<1>4. ASSUME NEW u \in Made PROVE Steady(u)
  <2>1. save[u] \in SaveRecords
    BY Types DEF QueueType
  <2>2. CASE u # t
    BY <1>2, <1>3, <2>2 DEF Steady, Written
  <2>3. CASE u = t
    <3>1. save'[u] = [save[u] EXCEPT !.stage = st]
      BY <1>2, <1>3, <2>3
    <3>2. /\ save'[u].session = save[u].session /\ save'[u].form = save[u].form
          /\ save'[u].kind = save[u].kind /\ save'[u].words = save[u].words
          /\ save'[u].prior = save[u].prior /\ save'[u].stage = st
      BY <2>1, <3>1 DEF SaveRecords
    <3> QED BY <1>2, <2>3, <3>2 DEF Steady, Written
  <2> QED BY <2>2, <2>3
<1> QED BY <1>1, <1>4 DEF Rested

\* A save settles in the pane of the next state.
LEMMA SettleRests ==
    ASSUME Core, NEW t \in Made, NEW st, SettlesAs(t, st),
           Settle(t, st, session', words', prior'),
           session' \in Nat, words' \in Nat, prior' \in Saves \cup {None},
           saves' = saves, drafts' = drafts,
           \/ session' = session /\ words' = words
           \/ session' = session + 1
    PROVE  Rested
<1> DEFINE s == save[t].session
<1>1. Settles(t, st)
  BY Types, SettleGives
<1>2. /\ save[t].stage # "waiting" /\ save[t].stage \in {"sent", "stored"}
      /\ st \in {"saved", "lost", "failed", "late"}
      /\ st = "saved" => save[t].stage = "stored"
      /\ save[t].stage = "stored" => st \in {"saved", "lost"}
  BY DEF SettlesAs
<1>3. \A u \in Made : u \in Saves /\ save[u] \in SaveRecords /\ u \in Nat /\ u # None
  BY Types, SaveFacts DEF QueueType
<1>4. \A u \in Made : save'[u] = IF u = t THEN [save[t] EXCEPT !.stage = st]
                ELSE IF u \in Waits(s) THEN Started(u, t, st, session', words', prior')
                ELSE save[u]
  BY <1>3 DEF Settle
<1>5. Steady(t)
  <2>1. save'[t] = [save[t] EXCEPT !.stage = st] /\ save[t] \in SaveRecords
    BY <1>3, <1>4
  <2>2. /\ save'[t].session = save[t].session /\ save'[t].form = save[t].form
        /\ save'[t].kind = save[t].kind /\ save'[t].words = save[t].words
        /\ save'[t].prior = save[t].prior /\ save'[t].stage = st
    BY <2>1 DEF SaveRecords
  <2> QED BY <1>2, <2>2 DEF Steady, Written
<1>6. ASSUME NEW u \in Made, u # t, u \notin Waits(s)
      PROVE  Steady(u)
  <2>1. save'[u] = save[u]
    BY <1>4, <1>6
  <2> QED BY <2>1 DEF Steady, Written
<1>7. ASSUME NEW u \in Made, u # t, u \in Waits(s)
      PROVE  Steady(u)
  <2>1. save[u].session = s /\ save[u].stage = "waiting" /\ save[u] \in SaveRecords
    BY <1>3, <1>7 DEF Waits
  <2>2. save'[u] = Started(u, t, st, session', words', prior')
    BY <1>4, <1>7
  <2>3. ~Written(u) /\ save[u].stage # "saved"
    BY <2>1 DEF Written
  <2> DEFINE latest == IF st = "saved" THEN t ELSE LatestSaved(s)
  <2>4. CASE s = session'
    <3> DEFINE w == IF save[u].kind = "leaving" THEN save[u].words ELSE words'
    <3>1. save'[u] = [save[u] EXCEPT !.stage = "sent", !.prior = prior', !.words = w]
      BY <2>1, <2>2, <2>4 DEF Started
    <3>2. w \in {save[u].words, words'}
      OBVIOUS
    <3> HIDE DEF w
    <3>3. /\ save'[u].session = save[u].session /\ save'[u].form = save[u].form
          /\ save'[u].kind = save[u].kind /\ save'[u].words = w
          /\ save'[u].prior = prior' /\ save'[u].stage = "sent"
      BY <2>1, <3>1 DEF SaveRecords
    <3>4. session' = session /\ words' = words
      <4>1. s <= session /\ s \in Nat /\ session \in Nat
        BY Types, SaveFacts DEF DraftInv, SaveAges
      <4> QED BY <2>4, <4>1
    <3>5. save[u].session = session /\ save'[u].words \in {save[u].words, words}
      BY <2>1, <2>4, <3>2, <3>3, <3>4
    <3>6. Restarts(u)
      BY <2>1, <3>3, <3>4, <3>5 DEF Restarts
    <3> QED BY <2>1, <2>3, <3>3, <3>6 DEF Steady
  <2>5. CASE s # session' /\ save[u].kind = "leaving"
    <3>1. save'[u] = [save[u] EXCEPT !.stage = "sent",
                           !.prior = IF latest = None THEN save[u].prior ELSE latest]
      BY <2>1, <2>2, <2>5 DEF Started
    <3> HIDE DEF latest
    <3>2. /\ save'[u].session = save[u].session /\ save'[u].form = save[u].form
          /\ save'[u].kind = save[u].kind /\ save'[u].words = save[u].words
          /\ save'[u].prior = (IF latest = None THEN save[u].prior ELSE latest)
          /\ save'[u].stage = "sent"
      BY <2>1, <3>1 DEF SaveRecords
    <3>3. CASE latest = None
      BY <2>1, <2>3, <3>2, <3>3 DEF Steady
    <3>4. CASE latest # None
      <4>1. latest \in Made /\ save[latest].session = s /\ save'[latest].stage = "saved"
            /\ save[latest].stage # "waiting"
        <5>1. CASE st = "saved"
          BY <1>1, <1>2, <5>1 DEF latest, Settles
        <5>2. CASE st # "saved"
          <6>1. latest \in SavedIn(s)
            BY <3>4, <5>2, LatestIs, Types DEF latest
          <6>2. latest \in Made /\ save[latest].session = s /\ save[latest].stage = "saved"
            BY <6>1 DEF SavedIn
          <6>3. latest # t /\ latest \notin Waits(s)
            BY <1>2, <6>2 DEF Waits
          <6> QED BY <1>4, <6>2, <6>3
        <5> QED BY <5>1, <5>2
      <4>2. latest < u
        <5>1. latest # u
          BY <2>1, <4>1
        <5>2. ~(u < latest)
          BY <2>1, <4>1, Types DEF OneRuns
        <5> QED BY <1>3, <4>1, <5>1, <5>2
      <4>3. save'[u].prior = latest
        BY <3>2, <3>4
      <4>4. Restarts(u)
        BY <2>1, <3>2, <4>1, <4>2, <4>3 DEF Restarts
      <4> QED BY <2>1, <2>3, <3>2, <4>4 DEF Steady
    <3> QED BY <3>3, <3>4
  <2>6. CASE s # session' /\ save[u].kind # "leaving"
    <3>1. save'[u] = [save[u] EXCEPT !.stage = "dropped"]
      BY <2>1, <2>2, <2>6 DEF Started
    <3>2. /\ save'[u].session = save[u].session /\ save'[u].form = save[u].form
          /\ save'[u].kind = save[u].kind /\ save'[u].words = save[u].words
          /\ save'[u].prior = save[u].prior /\ save'[u].stage = "dropped"
      BY <2>1, <3>1 DEF SaveRecords
    <3> QED BY <2>3, <3>2 DEF Steady
  <2> QED BY <2>4, <2>5, <2>6
<1> QED BY <1>5, <1>6, <1>7 DEF Rested

\* A save queued: the last of its session, with the words of the pane.
Adds(kind, t) ==
    /\ Made' = Made \cup {t} /\ t \in Nat
    /\ save'[t].session = session /\ save'[t].form = form /\ save'[t].kind = kind
    /\ save'[t].words = words /\ save'[t].prior = prior
    /\ save'[t].stage \in {"waiting", "sent"}
    /\ t \in Made => save[t].session = session /\ save[t].stage = "waiting"
    /\ \A u \in Made : u # t => save'[u] = save[u]
    /\ \A u \in Made : save[u].session = session =>
          u <= t /\ (u # t => save[u].stage # "waiting")

LEMMA QueueAdds ==
    ASSUME Core, NEW kind, Queue(kind)
    PROVE  Adds(kind, NextPromise(session))
<1>1. PICK t : t = NextPromise(session)
  OBVIOUS
<1>2. Queued(kind, t)
  BY <1>1, Types, QueueGives
<1>3. /\ saves \in Nat /\ t \in Nat /\ t \in Saves
      /\ save \in [Saves -> SaveRecords \cup {NoSave}] /\ Made \subseteq Saves
      /\ \A u \in Made : u \in Nat /\ u <= saves
  BY <1>2, Types, SaveFacts DEF QueueType, Queued
<1>4. PICK r : r = [session |-> session, form |-> form, kind |-> kind, words |-> words,
                    prior |-> prior,
                    stage |-> IF Pending(session) = {} THEN "sent" ELSE "waiting"]
  OBVIOUS
<1>5. /\ r.session = session /\ r.form = form /\ r.kind = kind /\ r.words = words
      /\ r.prior = prior /\ r.stage \in {"waiting", "sent"}
  BY <1>4
<1>6. save' = [save EXCEPT ![t] = r]
  BY <1>2, <1>4 DEF Queued
<1>7. save'[t] = r /\ \A u \in Made : u # t => save'[u] = save[u]
  BY <1>3, <1>6
<1>8. Made' = Made \cup {t} /\ (t \in Made => save[t].session = session /\ save[t].stage = "waiting")
  BY <1>2, <1>3 DEF Queued, Made
<1>9. ASSUME NEW u \in Made, save[u].session = session
      PROVE  u <= t /\ (u # t => save[u].stage # "waiting")
  <2>1. CASE /\ t = saves + 1
             /\ \A v \in Made : save[v].session = session => save[v].stage # "waiting"
    BY <1>3, <1>9, <2>1
  <2>2. CASE t \in Made /\ save[t].session = session /\ save[t].stage = "waiting"
    <3>1. ~(t < u)
      BY <1>9, <2>2, Types DEF OneRuns
    <3>2. u < t => save[u].stage # "waiting"
      BY <1>9, <2>2, Types DEF OneRuns
    <3> QED BY <1>3, <3>1, <3>2
  <2> QED BY <1>2, <2>1, <2>2 DEF Queued
<1>10. Adds(kind, t)
  BY <1>3, <1>5, <1>7, <1>8, <1>9 DEF Adds
<1> QED BY <1>1, <1>10

(***************************************************************************)
(* WordsGrow.                                                              *)
(***************************************************************************)

\* The pane stays in its session: its words are those of before or newer, and
\* the draft it is bound to is that of before or one of the session's saves.
PaneStays ==
    /\ session' = session /\ form' = form
    /\ words' \in Nat /\ words <= words'
    /\ \/ prior' = prior
       \/ Written(prior') /\ save[prior'].session = session

\* The pane moves to a new session, whose words are those of the draft it is
\* bound to, or none.
PaneMoves ==
    /\ session' = session + 1 /\ words' \in Nat
    /\ prior' # None => Written(prior') /\ words' = save[prior'].words
    /\ prior' = None => words' = 0

\* Along the saves of a session the words only grow, and the saves of the
\* session of the pane hold none it did not.
LEMMA WordsFacts ==
    ASSUME Core, WordsGrow
    PROVE  /\ \A t \in Made :
                /\ save[t].words \in Nat /\ save[t].session \in Nat /\ t \in Nat
                /\ save[t].session <= session /\ save[t].prior \in Saves \cup {None}
                /\ save[t].prior # None => save[save[t].prior].words \in Nat
           /\ prior # None => save[prior].words \in Nat
           /\ None \notin Made
<1>1. \A t \in Made : t \in Nat /\ t # None /\ save[t].words \in Nat
          /\ save[t].session \in Nat /\ save[t].prior \in Saves \cup {None}
  BY Types, SaveFacts
<1>2. \A t \in Made : save[t].session <= session
  BY Types DEF DraftInv, SaveAges
<1> QED BY <1>1, <1>2 DEF WordsGrow, Written

\* A step that queues no save.
LEMMA GrowsRested ==
    ASSUME Core, WordsGrow, Rested, PaneStays \/ PaneMoves,
           edits' \in Nat, edits <= edits', words' <= edits'
    PROVE  WordsGrow'
<1>1. Made' = Made
  BY DEF Rested, Made
<1>2. /\ \A t \in Made :
           /\ save[t].words \in Nat /\ save[t].session \in Nat /\ t \in Nat
           /\ save[t].session <= session /\ save[t].words <= edits
           /\ save[t].session = session => save[t].form = form /\ save[t].words <= words
           /\ save'[t].session = save[t].session /\ save'[t].form = save[t].form
           /\ save'[t].words \in Nat
      /\ session \in Nat /\ words \in Nat /\ edits \in Nat
  BY WordsFacts, Types DEF Rested, Steady, Restarts, WordsGrow
<1>3. \A t \in Made : Written(t) =>
         save'[t].words = save[t].words /\ save'[t].stage \in {"stored", "saved", "lost"}
  BY DEF Rested, Steady, Restarts, Written
<1>4. \A t \in Made :
         \/ save'[t].words = save[t].words
         \/ /\ save'[t].words = words /\ save[t].session = session
            /\ session' = session /\ words' = words /\ save[t].stage = "waiting"
  BY DEF Rested, Steady, Restarts
<1>5. ASSUME NEW t \in Made, NEW u \in Made, save[t].session = save[u].session, t < u
      PROVE  save'[t].words <= save'[u].words
  <2>1. save[t].words <= save[u].words
    BY <1>5 DEF WordsGrow
  <2>2. save[t].stage # "waiting"
    BY <1>5, Types DEF OneRuns
  <2>3. save'[t].words = save[t].words
    BY <1>4, <2>2
  <2>4. save[u].session = session => save[t].words <= words
    BY <1>2, <1>5
  <2> QED BY <1>2, <1>4, <2>1, <2>3, <2>4
<1>6. \A t \in Made : save'[t].words <= edits'
  BY <1>2, <1>4 DEF WordsGrow
<1>7. ASSUME NEW t \in Made, save[t].session = session'
      PROVE  save[t].form = form' /\ save'[t].words <= words'
  <2>1. PaneStays
    BY <1>2, <1>7 DEF PaneMoves
  <2>2. words <= words' /\ words' \in Nat /\ session' = session /\ form' = form
    BY <2>1 DEF PaneStays
  <2> QED BY <1>2, <1>4, <1>7, <2>2
<1>8. prior' # None => Written(prior') /\ save[prior'].words <= words'
  <2>1. CASE PaneMoves
    BY <2>1 DEF PaneMoves
  <2>2. CASE PaneStays /\ prior' = prior
    <3>1. prior # None => Written(prior) /\ save[prior].words <= words
      BY DEF WordsGrow
    <3>2. prior # None => save[prior].words \in Nat
      BY WordsFacts
    <3> QED BY <1>2, <2>2, <3>1, <3>2 DEF PaneStays
  <2>3. CASE PaneStays /\ Written(prior') /\ save[prior'].session = session
    <3>1. prior' \in Made
      BY <2>3 DEF Written
    <3> QED BY <1>2, <2>3, <3>1 DEF PaneStays
  <2> QED BY <2>1, <2>2, <2>3 DEF PaneStays
<1>9. prior' # None => Written(prior)' /\ (save[prior].words <= words)'
  <2> SUFFICES ASSUME prior' # None
               PROVE  /\ prior' \in Made' /\ save'[prior'].words <= words'
                      /\ save'[prior'].stage \in {"stored", "saved", "lost"}
    BY DEF Written
  <2>1. prior' \in Made
    BY <1>8 DEF Written
  <2> QED BY <1>1, <1>3, <1>8, <2>1
<1>10. ASSUME NEW t \in Made, save'[t].prior # None
       PROVE  /\ save'[t].prior \in Made
              /\ save'[save'[t].prior].stage \in {"stored", "saved", "lost"}
              /\ save'[save'[t].prior].words <= save'[t].words
  <2>1. PICK p : p = save'[t].prior
    OBVIOUS
  <2>2. CASE Restarts(t) /\ save'[t].words \in {save[t].words, words} /\ p = prior'
             /\ save[t].session = session /\ session' = session /\ words' = words
    <3>1. Written(p) /\ save[p].words <= words'
      BY <1>8, <1>10, <2>1, <2>2
    <3>2. p \in Made /\ save[p].stage # "waiting" /\ save[t].stage = "waiting"
      BY <2>2, <3>1 DEF Written, Restarts
    <3>3. save'[p].words = save[p].words
      BY <1>3, <3>1, <3>2
    <3>4. CASE save[p].session = session
      <4>1. p < t
        <5>1. ~(t < p) /\ t # p
          BY <2>2, <3>2, <3>4, Types DEF OneRuns
        <5> QED BY <1>2, <3>2, <5>1
      <4>2. save[p].words <= save[t].words /\ save[t].words <= words
        BY <1>2, <2>2, <3>2, <3>4, <4>1 DEF WordsGrow
      <4> QED BY <1>2, <1>3, <2>1, <2>2, <3>1, <3>2, <3>3, <4>2
    <3>5. CASE save[p].session # session
      <4>1. p = prior
        BY <1>2, <2>2, <3>5 DEF PaneStays, PaneMoves
      <4>2. prior # None /\ save[prior].words <= save[t].words
        BY <1>10, <2>1, <2>2, <3>5, <4>1 DEF WordsGrow
      <4> QED BY <1>2, <1>3, <2>1, <2>2, <3>1, <3>2, <3>3, <4>1, <4>2
    <3> QED BY <3>4, <3>5
  <2>3. CASE /\ save'[t].words = save[t].words /\ p \in Made
             /\ save'[p].stage \in {"stored", "saved", "lost"}
             /\ save[p].session = save[t].session /\ p < t
    <3>1. save[p].words <= save[t].words
      BY <2>3 DEF WordsGrow
    <3>2. save[p].stage # "waiting"
      BY <2>3, Types DEF OneRuns
    <3>3. save'[p].words = save[p].words
      BY <1>4, <2>3, <3>2
    <3> QED BY <2>1, <2>3, <3>1, <3>3
  <2>4. CASE save'[t].words = save[t].words /\ p = save[t].prior
    <3>1. Written(p) /\ save[p].words <= save[t].words
      BY <1>10, <2>1, <2>4 DEF WordsGrow
    <3>2. p \in Made
      BY <3>1 DEF Written
    <3> QED BY <1>3, <2>1, <2>4, <3>1, <3>2
  <2> QED BY <2>1, <2>2, <2>3, <2>4 DEF Rested, Steady, Restarts
<1>11. ASSUME NEW t \in Made, save[t].session = session', prior' # None
       PROVE  save'[prior'].session = session' \/ save'[prior'].words <= save'[t].words
  <2>1. prior' \in Made /\ Written(prior')
    BY <1>8, <1>11 DEF Written
  <2>2. PaneStays
    BY <1>2, <1>11 DEF PaneMoves
  <2>3. CASE save[prior'].session = session
    BY <1>2, <2>1, <2>2, <2>3 DEF PaneStays
  <2>4. CASE save[prior'].session # session
    <3>1. prior' = prior /\ session' = session
      BY <2>2, <2>4 DEF PaneStays
    <3>2. save[prior].words <= save[t].words
      BY <1>11, <2>4, <3>1 DEF WordsGrow
    <3>3. save[prior].words <= words /\ save[prior].words \in Nat
      BY <1>11, <3>1, WordsFacts DEF WordsGrow
    <3> QED BY <1>2, <1>3, <1>4, <2>1, <3>1, <3>2, <3>3
  <2> QED BY <2>3, <2>4
<1>12. \A t \in Made' :
          save'[t].prior # None =>
             Written(save[t].prior)' /\ save'[save'[t].prior].words <= save'[t].words
  BY <1>1, <1>10 DEF Written
<1>13. \A t \in Made' : save'[t].session = session' =>
          /\ save'[t].form = form' /\ save'[t].words <= words'
          /\ \/ prior' = None \/ save'[prior'].session = session'
             \/ save'[prior'].words <= save'[t].words
  BY <1>1, <1>2, <1>7, <1>11
<1>14. \A t \in Made' :
          /\ save'[t].words <= edits'
          /\ \A u \in Made' : save'[t].session = save'[u].session /\ t < u =>
                save'[t].words <= save'[u].words
  BY <1>1, <1>2, <1>5, <1>6
<1> QED BY <1>9, <1>12, <1>13, <1>14 DEF WordsGrow

\* A step that queues a save.
LEMMA GrowsQueued ==
    ASSUME Core, WordsGrow, NEW kind, NEW t, Adds(kind, t),
           UNCHANGED <<session, form, words, prior, edits>>
    PROVE  WordsGrow'
<1>1. /\ \A u \in Made :
           /\ save[u].words \in Nat /\ u \in Nat /\ save[u].words <= edits
           /\ save[u].session = session => save[u].form = form /\ save[u].words <= words
           /\ save[u].session = session => u <= t
      /\ session \in Nat /\ words \in Nat /\ edits \in Nat /\ words <= edits /\ t \in Nat
  BY WordsFacts, Types DEF WordsGrow, Adds
<1>2. \A u \in Made : Written(u) =>
         /\ u # t /\ save'[u] = save[u] /\ u \in Made'
         /\ save'[u].stage \in {"stored", "saved", "lost"}
  BY DEF Adds, Written
<1>3. \A u \in Made : u # t => save'[u] = save[u]
  BY DEF Adds
<1>4. /\ Made' = Made \cup {t}
      /\ save'[t].session = session /\ save'[t].form = form /\ save'[t].words = words
      /\ save'[t].prior = prior
  BY DEF Adds
<1>5. /\ prior # None => Written(prior) /\ save[prior].words <= words /\ prior \in Made
      /\ words <= edits
  BY DEF WordsGrow, Written
<1>6. prior' # None => Written(prior)' /\ save'[prior'].words <= words'
  BY <1>2, <1>5 DEF Written
<1>7. ASSUME NEW u \in Made'
      PROVE  /\ save'[u].words <= edits
             /\ save'[u].session = session =>
                  /\ save'[u].form = form /\ save'[u].words <= words
                  /\ \/ prior = None \/ save'[prior].session = session
                     \/ save'[prior].words <= save'[u].words
  <2>1. CASE u = t
    BY <1>1, <1>2, <1>4, <1>5, <2>1
  <2>2. CASE u # t
    <3>1. u \in Made /\ save'[u] = save[u]
      BY <1>3, <1>4, <2>2
    <3>2. save[u].session = session => \/ prior = None \/ save[prior].session = session
                                       \/ save[prior].words <= save[u].words
      BY <3>1 DEF WordsGrow
    <3> QED BY <1>1, <1>2, <1>5, <3>1, <3>2
  <2> QED BY <2>1, <2>2
<1>8. ASSUME NEW u \in Made', save'[u].prior # None
      PROVE  Written(save[u].prior)' /\ save'[save'[u].prior].words <= save'[u].words
  <2>1. PICK p : p = save'[u].prior
    OBVIOUS
  <2>2. Written(p) /\ p \in Made /\ save[p].words <= save'[u].words
    <3>1. CASE u = t
      BY <1>4, <1>5, <1>8, <2>1, <3>1
    <3>2. CASE u # t
      <4>1. u \in Made /\ save'[u] = save[u]
        BY <1>3, <1>4, <3>2
      <4> QED BY <1>8, <2>1, <4>1 DEF WordsGrow, Written
    <3> QED BY <3>1, <3>2
  <2> QED BY <1>2, <2>1, <2>2 DEF Written
<1>9. ASSUME NEW u \in Made', NEW v \in Made',
             save'[u].session = save'[v].session, u < v
      PROVE  save'[u].words <= save'[v].words
  <2>1. CASE v = t
    BY <1>1, <1>3, <1>4, <1>9, <2>1
  <2>2. CASE u = t
    BY <1>1, <1>3, <1>4, <1>9, <2>2
  <2>3. CASE u # t /\ v # t
    BY <1>3, <1>4, <1>9, <2>3 DEF WordsGrow
  <2> QED BY <2>1, <2>2, <2>3
<1> QED BY <1>5, <1>6, <1>7, <1>8, <1>9 DEF WordsGrow

(***************************************************************************)
(* RefsTrue.                                                               *)
(***************************************************************************)

\* What a save that landed, or the newest one, holds of the words of the pane
\* outlives a step that leaves the words and queues nothing.
LEMMA FileKept ==
    ASSUME Core, Rested, session' = session, words' = words
    PROVE  /\ OnFile => OnFile'
           /\ \A t \in Made : Newest(t) /\ save[t].words = words =>
                 Newest(t)' /\ save'[t].words = words
<1>1. Made' = Made
  BY DEF Rested, Made
<1>2. \A t \in Made :
         /\ save'[t].session = save[t].session
         /\ save[t].stage = "saved" => save'[t].stage = "saved"
         /\ \/ save'[t].words = save[t].words
            \/ save'[t].words = words /\ save[t].stage = "waiting"
  BY DEF Rested, Steady, Restarts
<1>3. OnFile => OnFile'
  BY <1>1, <1>2 DEF OnFile
<1>4. \A t \in Made : Newest(t) /\ save[t].words = words =>
         Newest(t)' /\ save'[t].words = words
  BY <1>1, <1>2 DEF Newest
<1> QED BY <1>3, <1>4

\* The words stay, and no save is queued.
LEMMA RefsRested ==
    ASSUME Core, RefsTrue, WordsGrow, Rested,
           session' = session, words' = words, queuedAs' = queuedAs, edits' = edits,
           \/ saved' = saved /\ prior' = prior
           \/ /\ prior' \in Made /\ saved' = save[prior'].words
              /\ save'[prior'].stage = "saved" /\ save[prior'].stage = "stored",
           dialog' => dialog \/ saved' # words' \/ prior' = None
    PROVE  RefsTrue'
<1>1. saved' # None => saved' <= edits'
  BY DEF RefsTrue, WordsGrow
<1>2. queuedAs' # None => queuedAs' <= edits'
  BY DEF RefsTrue
<1>3. ASSUME saved' = words', words' # 0
      PROVE  prior' # None /\ (dialog' => OnFile')
  <2>1. CASE saved' = saved /\ prior' = prior
    BY <1>3, <2>1, FileKept DEF RefsTrue
  <2>2. CASE /\ prior' \in Made /\ saved' = save[prior'].words
             /\ save'[prior'].stage = "saved" /\ save[prior'].stage = "stored"
    <3>1. prior' # None /\ Made' = Made
      BY <2>2, WordsFacts DEF Rested, Made
    <3>2. save'[prior'].words = save[prior'].words
      BY <2>2 DEF Rested, Steady, Restarts
    <3> QED BY <1>3, <2>2, <3>1, <3>2 DEF OnFile
  <2> QED BY <2>1, <2>2
<1>4. ASSUME queuedAs' = words', words' # 0
      PROVE  (\E t \in Made : Newest(t) /\ save[t].words = words)'
  <2>1. PICK t \in Made : Newest(t) /\ save[t].words = words
    BY <1>4 DEF RefsTrue
  <2>2. Newest(t)' /\ save'[t].words = words
    BY <2>1, FileKept
  <2> QED BY <2>2 DEF Newest
<1> QED BY <1>1, <1>2, <1>3, <1>4 DEF RefsTrue

\* The form is cleared, by whomever.
LEMMA RefsCleared ==
    ASSUME RefsTrue, words' = 0, edits' = edits, queuedAs' = queuedAs,
           saved' \in {saved, None}
    PROVE  RefsTrue'
  BY DEF RefsTrue

LEMMA RefsOpened ==
    ASSUME Core, WordsGrow, NEW d \in drafts \cup {None}, Opens(d)
    PROVE  RefsTrue'
<1>1. /\ prior' = d /\ edits' = edits /\ queuedAs' = None /\ dialog' = FALSE
      /\ words' = IF d = None THEN 0 ELSE save[d].words
      /\ saved' = IF d = None THEN None ELSE save[d].words
  BY DEF Opens, past
<1>2. d # None => save[d].words <= edits /\ save[d].words \in Nat
  BY Types, WordsFacts DEF WordsGrow
<1>3. words' \in Nat /\ None \notin Nat
  BY <1>1, <1>2, Bounds
<1> QED BY <1>1, <1>2, <1>3 DEF RefsTrue

LEMMA RefsEdited ==
    ASSUME Core, RefsTrue, Edits
    PROVE  RefsTrue'
<1>1. /\ words' = edits + 1 /\ edits' = edits + 1 /\ saved' = saved
      /\ queuedAs' = queuedAs
  BY DEF Edits
<1>2. edits \in Nat /\ saved \in Nat \cup {None} /\ queuedAs \in Nat \cup {None}
      /\ None \notin Nat
  BY Types, Bounds
<1>3. (saved # None => saved <= edits) /\ (queuedAs # None => queuedAs <= edits)
  BY DEF RefsTrue
<1>4. /\ saved' # words' /\ queuedAs' # words'
      /\ saved' # None => saved' <= edits'
      /\ queuedAs' # None => queuedAs' <= edits'
  BY <1>1, <1>2, <1>3
<1> QED BY <1>4 DEF RefsTrue

LEMMA RefsQueued ==
    ASSUME Core, RefsTrue, WordsGrow, NEW kind, NEW t, Adds(kind, t),
           queuedAs' = words, dialog' => dialog,
           UNCHANGED <<session, words, prior, saved, edits>>
    PROVE  RefsTrue'
<1>1. queuedAs' <= edits' /\ (saved' # None => saved' <= edits')
  BY DEF RefsTrue, WordsGrow
<1>2. OnFile => OnFile'
  BY DEF OnFile, Adds
<1>3. saved' = words' /\ words' # 0 => prior' # None /\ (dialog' => OnFile')
  BY <1>2 DEF RefsTrue
<1>4. t \in Made' /\ Newest(t)' /\ save'[t].words = words'
  <2>1. t \in Made' /\ save'[t].session = session' /\ save'[t].words = words'
    BY DEF Adds
  <2>2. \A u \in Made' : save'[u].session = session' => u <= t
    BY DEF Adds
  <2> QED BY <2>1, <2>2 DEF Newest
<1> QED BY <1>1, <1>3, <1>4 DEF RefsTrue

(***************************************************************************)
(* GateKept.                                                               *)
(***************************************************************************)

\* Nobody turns back to a close.
LEMMA DisturbedKept ==
    ASSUME Core, adrift \subseteq adrift', \A o \in Begun : op'[o].form = op[o].form
    PROVE  \A f : Disturbed(f) => Disturbed(f)'
<1>1. adrift \subseteq Begun
  BY Types
<1> QED BY <1>1 DEF Disturbed

\* The gate stays, and no operation begins.
LEMMA GateRests ==
    ASSUME Core, GateKept, form' = form, gate' = gate, ops' = ops,
           adrift \subseteq adrift',
           \A o \in Begun :
              /\ op'[o].kind = op[o].kind /\ op'[o].form = op[o].form
              /\ op'[o].stage \in Active => op[o].stage \in Active
              /\ GateOf(op[o].kind) = "save-close" =>
                    op'[o].stage \notin {"requested", "accepted"}
    PROVE  GateKept'
<1>1. Begun' = Begun
  BY DEF Begun
<1>2. \A f : Disturbed(f) => Disturbed(f)'
  BY DisturbedKept
<1>3. ASSUME NEW o \in Begun, op'[o].stage \in Active, ~Disturbed(op[o].form)'
      PROVE  /\ op'[o].form = form' => gate' = GateOf(op'[o].kind)
             /\ \A q \in Begun : op'[q].stage \in Active /\ op'[q].form = op'[o].form
                  => q = o
  <2>1. PICK f : f = op[o].form
    OBVIOUS
  <2>2. op'[o].form = f
    BY <2>1
  <2>3. ~Disturbed(f)'
    BY <1>3, <2>2 DEF Disturbed
  <2>4. ~Disturbed(op[o].form) /\ op[o].stage \in Active
    BY <1>2, <1>3, <2>1, <2>3
  <2> QED BY <2>4 DEF GateKept
<1>4. \A o \in Begun' : GateOf(op'[o].kind) = "save-close" =>
         op'[o].stage \notin {"requested", "accepted"}
  BY <1>1
<1> QED BY <1>1, <1>3, <1>4 DEF GateKept, Active

\* An operation at work in the form of the pane holds the gate, unless a close
\* was turned away from.
LEMMA FreeGate ==
    ASSUME GateKept, gate = None, NEW o \in Begun, op[o].stage \in Active,
           ~Disturbed(op[o].form)
    PROVE  op[o].form # form
<1>1. GateOf(op[o].kind) # None
  BY Bounds DEF GateOf
<1> QED BY <1>1 DEF GateKept

\* An operation begins.
LEMMA GateClaimed ==
    ASSUME Core, GateKept, gate = None, NEW r, r.form = form,
           r.stage \in {"saving", "draining"}, ops' = ops + 1, ops < MaxOps,
           op' = [op EXCEPT ![ops + 1] = r], gate' = GateOf(r.kind),
           form' = form, adrift' = adrift
    PROVE  GateKept'
<1>1. /\ ops \in Nat /\ ops + 1 \in Ops /\ ops + 1 \notin Begun
      /\ Begun' = Begun \cup {ops + 1} /\ Begun \subseteq Ops
      /\ op \in [Ops -> OpRecords \cup {NoOp}]
  BY Types, Bounds, OpFacts DEF Begun, Ops, OpType
<1>2. op'[ops + 1] = r /\ \A o \in Begun : op'[o] = op[o]
  BY <1>1
<1>3. \A f : Disturbed(f) => Disturbed(f)'
  BY <1>2, DisturbedKept
<1>4. ASSUME NEW o \in Begun', op'[o].stage \in Active, ~Disturbed(op[o].form)'
      PROVE  /\ op'[o].form = form' => gate' = GateOf(op'[o].kind)
             /\ \A q \in Begun' : op'[q].stage \in Active /\ op'[q].form = op'[o].form
                  => q = o
  <2>1. PICK f : f = op'[o].form
    OBVIOUS
  <2>2. ~Disturbed(f)
    BY <1>3, <1>4, <2>1 DEF Disturbed
  <2>3. \A q \in Begun : op[q].stage \in Active /\ op[q].form = f => f # form
    BY <2>2, FreeGate
  <2>4. CASE o = ops + 1
    <3>1. f = form
      BY <1>2, <2>1, <2>4
    <3> QED BY <1>1, <1>2, <2>1, <2>3, <2>4, <3>1
  <2>5. CASE o \in Begun
    <3>1. op[o].stage \in Active /\ op[o].form = f /\ f # form
      BY <1>2, <1>4, <2>1, <2>3, <2>5
    <3>2. \A q \in Begun : op[q].stage \in Active /\ op[q].form = f => q = o
      BY <2>2, <2>5, <3>1 DEF GateKept
    <3> QED BY <1>1, <1>2, <2>1, <2>5, <3>1, <3>2
  <2> QED BY <1>1, <2>4, <2>5
<1>5. \A o \in Begun' : GateOf(op'[o].kind) = "save-close" =>
         op'[o].stage \notin {"requested", "accepted"}
  BY <1>1, <1>2 DEF GateKept
<1> QED BY <1>4, <1>5 DEF GateKept, Active

\* An operation ends.
LEMMA GateReleased ==
    ASSUME Core, GateKept, NEW o \in Begun, op[o].stage \in Active, Release(o),
           NEW x \in {"done", "finished"}, op' = [op EXCEPT ![o].stage = x],
           ops' = ops, form' = form, adrift' = adrift
    PROVE  GateKept'
<1>1. /\ op \in [Ops -> OpRecords \cup {NoOp}] /\ Begun \subseteq Ops
      /\ op[o] \in OpRecords /\ Begun' = Begun
  BY Types, OpFacts DEF OpType, Begun
<1>2. \A q \in Begun : q # o => op'[q] = op[q]
  BY <1>1
<1>3. op'[o].stage = x /\ op'[o].form = op[o].form /\ op'[o].kind = op[o].kind
  BY <1>1 DEF OpRecords
<1>4. \A f : Disturbed(f) => Disturbed(f)'
  BY <1>2, <1>3, DisturbedKept
<1>5. op'[o].stage \notin Active /\ op'[o].stage \notin {"requested", "accepted"}
  BY <1>3 DEF Active
<1>6. ASSUME NEW q \in Begun, op'[q].stage \in Active, ~Disturbed(op[q].form)'
      PROVE  /\ op'[q].form = form' => gate' = GateOf(op'[q].kind)
             /\ \A p \in Begun : op'[p].stage \in Active /\ op'[p].form = op'[q].form
                  => p = q
  <2>1. q # o /\ op'[q] = op[q]
    BY <1>2, <1>5, <1>6
  <2>2. PICK f : f = op[q].form
    OBVIOUS
  <2>3. ~Disturbed(f)
    BY <1>4, <1>6, <2>1, <2>2 DEF Disturbed
  <2>4. /\ f = form => gate = GateOf(op[q].kind)
        /\ \A p \in Begun : op[p].stage \in Active /\ op[p].form = f => p = q
    BY <1>6, <2>1, <2>2, <2>3 DEF GateKept
  <2>5. op[o].form # f
    BY <2>1, <2>4
  <2>6. f = form => gate' = gate
    BY <2>5 DEF Release
  <2> QED BY <1>2, <1>5, <2>1, <2>2, <2>4, <2>6
<1>7. \A q \in Begun' : GateOf(op'[q].kind) = "save-close" =>
         op'[q].stage \notin {"requested", "accepted"}
  BY <1>1, <1>2, <1>5 DEF GateKept
<1> QED BY <1>1, <1>6, <1>7 DEF GateKept, Active

\* A composer opens, with a gate of its own.
LEMMA GateOpened ==
    ASSUME Core, GateKept, NEW d, Opens(d)
    PROVE  GateKept'
<1>1. form' = form + 1 /\ op' = op /\ ops' = ops /\ adrift' = adrift
  BY DEF Opens, work, past
<1>2. \A o \in Begun : op[o].form # form'
  BY <1>1, Types, OpFacts DEF OpInv, OpAges
<1> QED BY <1>1, <1>2 DEF GateKept, Disturbed, Begun

\* Keep Editing opens the gate, and turns away from what held it.
LEMMA GateDropped ==
    ASSUME Core, GateKept, KeepsEditing
    PROVE  GateKept'
<1>1. /\ mounted /\ dialog /\ form' = form /\ op' = op /\ ops' = ops
      /\ adrift' = adrift \cup Closing /\ gate' = None
  BY DEF KeepsEditing, work
<1>2. \A f : Disturbed(f) => Disturbed(f)'
  BY <1>1, DisturbedKept
<1>3. ASSUME NEW o \in Begun, op[o].stage \in Active, ~Disturbed(op[o].form)'
      PROVE  /\ op[o].form # form
             /\ \A q \in Begun : op[q].stage \in Active /\ op[q].form = op[o].form => q = o
  <2>1. ~Disturbed(op[o].form)
    BY <1>1, <1>3 DEF Disturbed
  <2>2. ASSUME op[o].form = form PROVE FALSE
    <3>1. gate = GateOf(op[o].kind) /\ gate # None
      BY <1>3, <2>1, <2>2, Bounds DEF GateKept, GateOf
    <3>2. GateOf(op[o].kind) = "save-close"
      BY <1>1, <3>1, Types DEF GateInv
    <3>3. op[o].stage \in {"saving", "draining"}
      BY <1>3, <3>2 DEF GateKept, Active
    <3>4. o \in adrift'
      BY <1>1, <2>2, <3>2, <3>3 DEF Closing
    <3> QED BY <1>1, <1>3, <3>4 DEF Disturbed
  <2> QED BY <1>3, <2>1, <2>2 DEF GateKept
<1>4. Begun' = Begun
  BY <1>1 DEF Begun
<1> QED BY <1>1, <1>3, <1>4 DEF GateKept, Active

(***************************************************************************)
(* ClosesCover.                                                            *)
(***************************************************************************)

\* What ClosesCover says of a close at work.
Fine(o) == /\ Owned(o) => Covers(o)
           /\ op[o].kind = "dialog" => DialogHolds(o)

\* A close that is at work after a step and that the step left alone was fine
\* before it.
LEMMA FineBefore ==
    ASSUME Core, ClosesCover, adrift \subseteq adrift',
           \A q \in Begun : op'[q].form = op[q].form,
           NEW o \in Begun, op'[o] = op[o], AtWork(o)', ~Disturbed(op[o].form)'
    PROVE  Fine(o) /\ AtWork(o) /\ ~Disturbed(op[o].form)
<1>1. AtWork(o)
  BY DEF AtWork
<1>2. PICK f : f = op[o].form
  OBVIOUS
<1>3. ~Disturbed(f)'
  BY <1>2 DEF Disturbed
<1>4. ~Disturbed(f)
  BY <1>3, DisturbedKept
<1> QED BY <1>1, <1>2, <1>4 DEF ClosesCover, Fine

\* The cover of a close outlives a step that leaves the words and the session.
LEMMA CoversKept ==
    ASSUME Core, Rested, session' = session, words' = words,
           NEW o \in Begun, op'[o] = op[o], Covers(o)
    PROVE  Covers(o)'
<1>1. Made' = Made
  BY DEF Rested, Made
<1>2. PICK r : r = op[o]
  OBVIOUS
<1>3. CASE /\ r.stage = "saving" /\ r.save \in Made /\ save[r.save].kind = "leaving"
           /\ save[r.save].session = session /\ save[r.save].words = words
  <2>1. /\ save'[r.save].kind = "leaving" /\ save'[r.save].session = session
        /\ save'[r.save].words = words
    BY <1>3 DEF Rested, Steady, Restarts
  <2> QED BY <1>1, <1>2, <1>3, <2>1 DEF Covers
<1>4. CASE r.stage = "draining" /\ words = 0
  BY <1>2, <1>4 DEF Covers
<1>5. CASE r.stage = "draining" /\ OnFile
  BY <1>2, <1>5, FileKept DEF Covers
<1>6. CASE r.stage = "draining" /\ Replaced(o)
  <2>1. Replaced(o)'
    BY <1>1, <1>6 DEF Replaced, Rested, Steady
  <2> QED BY <1>2, <1>6, <2>1 DEF Covers
<1>7. CASE r.stage = "draining" /\ Newest(r.save) /\ save[r.save].words = words
  <2>1. r.save \in Made
    BY <1>7 DEF Newest
  <2>2. PICK t \in Made : t = r.save
    BY <2>1
  <2>3. Newest(t)' /\ save'[t].words = words
    BY <1>7, <2>2, FileKept
  <2>4. Newest(op[o].save)' /\ save'[op'[o].save].words = words'
    BY <1>2, <2>2, <2>3 DEF Newest
  <2> QED BY <1>2, <1>7, <2>4 DEF Covers
<1> QED BY <1>2, <1>3, <1>4, <1>5, <1>6, <1>7 DEF Covers

\* A save that has failed stays so.
Failed(t) == t \in Made /\ Settled(t) /\ ~Landed(t)

LEMMA FailedKept ==
    ASSUME Core, NEW t, Failed(t), Rested \/ \E kind, u : Adds(kind, u)
    PROVE  Failed(t)'
<1>1. /\ t \in Made /\ t # None
      /\ save[t].stage \notin {"waiting", "sent", "stored", "saved"}
  BY Types, SaveFacts DEF Failed, Settled, Landed
<1>2. t \in Made' /\ save'[t].stage \notin {"waiting", "sent", "stored", "saved"}
  <2>1. CASE Rested
    BY <1>1, <2>1 DEF Rested, Steady, Made
  <2>2. CASE \E kind, u : Adds(kind, u)
    BY <1>1, <2>2 DEF Adds
  <2> QED BY <2>1, <2>2
<1> QED BY <1>1, <1>2 DEF Failed, Settled, Landed

\* An operation of an earlier session stays one.
LEMMA EarlierStays ==
    ASSUME Core, session' \in Nat, session <= session', NEW o \in Begun, op'[o] = op[o]
    PROVE  /\ ~Owned(o) => ~Owned(o)'
           /\ session' # session => ~Owned(o)'
           /\ Owned(o) => op[o].form = form
<1>1. op[o].session \in Nat /\ op[o].session <= session /\ session \in Nat
      /\ (op[o].session = session => op[o].form = form)
  BY Types, OpFacts DEF OpInv, OpAges
<1> QED BY <1>1 DEF Owned

\* A close whose form is not that of the pane, or has left it.
LEMMA FineApart ==
    ASSUME Core, NEW o \in Begun, op'[o] = op[o], Fine(o), AtWork(o),
           op[o].form # form \/ (~mounted /\ session' # session),
           session' \in Nat, session <= session',
           Rested \/ \E kind, u : Adds(kind, u)
    PROVE  Fine(o)'
<1>1. ~Owned(o)' /\ (op[o].form # form => ~Owned(o))
  BY EarlierStays
<1>2. ASSUME op[o].kind = "dialog"
      PROVE  op[o].stage = "draining" \/ Failed(op[o].save)
  BY <1>1, <1>2 DEF Fine, DialogHolds, Failed, AtWork
<1>3. ASSUME op[o].kind = "dialog"
      PROVE  DialogHolds(o)'
  <2>1. CASE op[o].stage = "draining"
    BY <1>1, <2>1 DEF DialogHolds
  <2>2. CASE Failed(op[o].save)
    <3>1. PICK t : t = op[o].save
      OBVIOUS
    <3>2. Failed(t)'
      BY <2>2, <3>1, FailedKept
    <3>3. op'[o].save = t
      BY <3>1
    <3>4. op'[o].save \in Made' /\ Settled(op[o].save)' /\ ~Landed(op[o].save)'
      BY <3>2, <3>3 DEF Failed, Settled, Landed
    <3> QED BY <1>1, <3>4 DEF DialogHolds
  <2> QED BY <1>2, <1>3, <2>1, <2>2
<1> QED BY <1>1, <1>3 DEF Fine

\* A step that leaves the pane of the close.
LEMMA FineRests ==
    ASSUME Core, Rested, UNCHANGED <<session, form, words>>,
           NEW o \in Begun, op'[o] = op[o], Fine(o), AtWork(o),
           op[o].form = form => UNCHANGED <<mounted, dialog>>
    PROVE  Fine(o)'
<1>1. session \in Nat /\ session' \in Nat /\ session <= session'
  BY Types
<1>2. CASE op[o].form # form
  BY <1>1, <1>2, FineApart
<1>3. CASE op[o].form = form
  <2>1. Owned(o)' => Covers(o)'
    <3>1. Owned(o)' => Owned(o)
      BY DEF Owned
    <3> QED BY <3>1, CoversKept DEF Fine
  <2>2. ASSUME op[o].kind = "dialog" PROVE DialogHolds(o)'
    <3>1. CASE /\ Owned(o) /\ mounted /\ dialog
               /\ op[o].stage = "saving" => \A t \in Pending(session) :
                      save[t].kind = "timed" \/ t = op[o].save
      <4>1. /\ Pending(session)' \subseteq Pending(session)
            /\ \A t \in Pending(session) : save'[t].kind = save[t].kind
        BY DEF Pending, Waits, Runs, Rested, Steady, Made
      <4>2. Owned(o)' /\ mounted' /\ dialog'
        BY <1>3, <3>1 DEF Owned
      <4> QED BY <3>1, <4>1, <4>2 DEF DialogHolds
    <3>2. CASE ~Owned(o) /\ op[o].stage = "draining"
      BY <1>1, <3>2, EarlierStays DEF DialogHolds
    <3>3. CASE ~Owned(o) /\ Failed(op[o].save)
      <4>1. PICK t : t = op[o].save
        OBVIOUS
      <4>2. Failed(t)'
        BY <3>3, <4>1, FailedKept
      <4>3. op'[o].save = t
        BY <4>1
      <4>4. op'[o].save \in Made' /\ Settled(op[o].save)' /\ ~Landed(op[o].save)'
        BY <4>2, <4>3 DEF Failed, Settled, Landed
      <4> QED BY <1>1, <3>3, <4>4, EarlierStays DEF DialogHolds
    <3>4. CASE /\ ~Owned(o) /\ op[o].form = form /\ mounted /\ dialog
               /\ words = 0 /\ \A t \in Made : save[t].session # session
      <4>1. \A t \in Made' : save'[t].session # session'
        BY <3>4 DEF Rested, Steady, Made
      <4> QED BY <1>1, <1>3, <3>4, <4>1, EarlierStays DEF DialogHolds
    <3> QED BY <2>2, <3>1, <3>2, <3>3, <3>4 DEF Fine, DialogHolds, Failed
  <2> QED BY <2>1, <2>2 DEF Fine
<1> QED BY <1>2, <1>3

\* The session ends under a close: its form is cleared by a close of another
\* form, or because a save of the session found its draft gone.
LEMMA FineCleared ==
    ASSUME Core, Rested, NEW f, ClearForm(f),
           NEW o \in Begun, op'[o] = op[o], Fine(o), AtWork(o),
           \/ f # form
           \/ \E t \in Runs(session) : save[t].kind # "timed" /\ Failed(t)'
    PROVE  Fine(o)'
<1>1. /\ session' \in Nat /\ session <= session' /\ session' # session
      /\ session' = session + 1 /\ session \in Nat /\ form' = form /\ words' = 0
      /\ f # form => mounted' = mounted /\ dialog' = dialog
  BY Cleared, Types DEF ClearForm
<1>2. ~Owned(o)'
  BY <1>1, EarlierStays
<1>3. ASSUME op[o].kind = "dialog", op[o].stage # "draining", ~Failed(op[o].save)'
      PROVE  op'[o].form = form' /\ mounted' /\ dialog'
  <2>1. op[o].stage = "saving"
    BY <1>3 DEF AtWork
  <2>2. ~Failed(op[o].save)
    <3>1. PICK t : t = op[o].save
      OBVIOUS
    <3>2. ~Failed(t)'
      BY <1>3, <3>1 DEF Failed, Settled, Landed
    <3> QED BY <3>1, <3>2, FailedKept
  <2>3. CASE /\ Owned(o) /\ mounted /\ dialog
             /\ \A t \in Pending(session) : save[t].kind = "timed" \/ t = op[o].save
    <3>1. f # form
      <4> SUFFICES ASSUME NEW t \in Runs(session), save[t].kind # "timed", Failed(t)'
                   PROVE  FALSE
        OBVIOUS
      <4>1. t = op[o].save
        BY <2>3 DEF Pending
      <4> QED BY <1>3, <4>1 DEF Failed, Settled, Landed
    <3> QED BY <1>1, <2>3, <3>1, EarlierStays
  <2>4. CASE /\ ~Owned(o) /\ op[o].form = form /\ mounted /\ dialog
             /\ \A t \in Made : save[t].session # session
    <3>1. Runs(session) = {}
      BY <2>4 DEF Runs
    <3> QED BY <1>1, <2>4, <3>1
  <2> QED BY <1>3, <2>1, <2>2, <2>3, <2>4 DEF Fine, DialogHolds, Failed
<1>4. \A t \in Made' : save'[t].session # session'
  BY <1>1, SaveFacts, Types DEF Rested, Steady, Made, DraftInv, SaveAges
<1>5. ASSUME op[o].kind = "dialog" PROVE DialogHolds(o)'
  <2>1. CASE op[o].stage = "draining"
    BY <1>2, <2>1 DEF DialogHolds
  <2>2. CASE Failed(op[o].save)'
    <3>1. op'[o].save \in Made' /\ Settled(op[o].save)' /\ ~Landed(op[o].save)'
      BY <2>2 DEF Failed
    <3> QED BY <1>2, <3>1 DEF DialogHolds
  <2>3. CASE op[o].stage # "draining" /\ ~Failed(op[o].save)'
    BY <1>1, <1>2, <1>3, <1>4, <1>5, <2>3 DEF DialogHolds
  <2> QED BY <2>1, <2>2, <2>3
<1> QED BY <1>2, <1>5 DEF Fine

\* ClosesCover, one close at a time.
LEMMA CoverIs ==
    ASSUME \A o \in Begun' : AtWork(o)' /\ ~Disturbed(op[o].form)' => Fine(o)'
    PROVE  ClosesCover'
  BY DEF ClosesCover, Fine

\* The gate is open: no close that was not turned away from is at work in the
\* form of the pane, and those of other forms do not mind what happens here.
LEMMA CoverFree ==
    ASSUME Core, GateKept, ClosesCover, gate = None, adrift' = adrift,
           \A o \in Begun : op'[o] = op[o],
           session' \in Nat, session <= session',
           Rested \/ \E kind, u : Adds(kind, u)
    PROVE  \A o \in Begun : AtWork(o)' /\ ~Disturbed(op[o].form)' => Fine(o)'
<1> SUFFICES ASSUME NEW o \in Begun, AtWork(o)', ~Disturbed(op[o].form)'
             PROVE  Fine(o)'
  OBVIOUS
<1>1. op'[o] = op[o] /\ \A q \in Begun : op'[q].form = op[q].form
  OBVIOUS
<1>2. Fine(o) /\ AtWork(o) /\ ~Disturbed(op[o].form)
  BY <1>1, FineBefore
<1>3. op[o].form # form
  BY <1>2, FreeGate DEF AtWork, Active
<1> QED BY <1>1, <1>2, <1>3, FineApart

\* Neither the pane nor the close moves.
LEMMA CoverRests ==
    ASSUME Core, ClosesCover, Rested, UNCHANGED <<session, form, words, mounted, dialog>>,
           adrift' = adrift, \A q \in Begun : op'[q].form = op[q].form,
           NEW o \in Begun, op'[o] = op[o], AtWork(o)', ~Disturbed(op[o].form)'
    PROVE  Fine(o)'
<1>1. Fine(o) /\ AtWork(o)
  BY FineBefore
<1> QED BY <1>1, FineRests

\* What the form knows of a save of its words is true: a close that waits for
\* the last save queued waits for one that holds them, unless its session was
\* ended under it.
LEMMA TailCovers ==
    ASSUME Core, WordsGrow, RefsTrue, saved = words \/ (Saving /\ queuedAs = words),
           Dirty \/ dialog, words # 0, ~OnFile,
           \A t \in Made : save[t].form = form => save[t].session = session
    PROVE  Newest(Tail(session)) /\ save[Tail(session)].words = words
<1>1. Saving /\ queuedAs = words
  BY DEF RefsTrue, Dirty
<1>2. PICK t \in Made : Newest(t) /\ save[t].words = words
  BY <1>1 DEF RefsTrue
<1>3. PICK u \in Made : save[u].form = form /\ ~Settled(u)
  BY <1>1 DEF Saving
<1>4. u \in Pending(session)
  BY <1>3 DEF Settled, Pending, Waits, Runs
<1>5. PICK p : p = Tail(session)
  OBVIOUS
<1>6. p \in Pending(session) /\ \A v \in Pending(session) : v <= p
  <2>1. Pending(session) \subseteq 1 .. saves /\ saves \in Nat
    BY Types DEF Pending, Waits, Runs, Made
  <2> QED BY <1>4, <1>5, <2>1, LastOf DEF Tail
<1>7. /\ p \in Made /\ save[p].session = session
      /\ save[p].stage \in {"waiting", "sent", "stored"}
      /\ p \in Nat /\ t \in Nat /\ t \in Made /\ save[t].session = session
  BY <1>2, <1>6, Types, SaveFacts DEF Pending, Waits, Runs, Newest
<1>8. p = t
  <2>1. p <= t
    BY <1>2, <1>7 DEF Newest
  <2>2. ASSUME p < t PROVE FALSE
    <3>1. save[t].stage = "waiting"
      BY <1>7, <2>2, Types DEF OneRuns
    <3>2. t \in Pending(session)
      BY <1>7, <3>1 DEF Pending, Waits
    <3> QED BY <1>6, <1>7, <2>2, <3>2
  <2> QED BY <1>7, <2>1, <2>2
<1> QED BY <1>2, <1>5, <1>8

(***************************************************************************)
(* The actions.                                                            *)
(***************************************************************************)

LEMMA WordsNext ==
    ASSUME WordsGrow', RefsTrue', GateKept', ClosesCover'
    PROVE  WordsInv'
  BY DEF WordsInv

\* A composer opens.
LEMMA OpensWords ==
    ASSUME Core, WordsInv, NEW d \in drafts \cup {None}, Opens(d)
    PROVE  WordsInv'
<1> USE DEF WordsInv
<1>1. /\ ~mounted /\ session' = session + 1 /\ prior' = d
      /\ words' = IF d = None THEN 0 ELSE save[d].words
      /\ UNCHANGED queue /\ op' = op /\ ops' = ops /\ edits' = edits /\ adrift' = adrift
  BY DEF Opens, work, past
<1>2. Rested
  BY <1>1, QueueRests
<1>3. d # None => Written(d) /\ save[d].words \in Nat /\ save[d].words <= edits
  BY Types, WordsFacts DEF DraftInv, Folder, Written, WordsGrow
<1>4. WordsGrow'
  <2>1. PaneMoves
    BY <1>1, <1>3 DEF PaneMoves
  <2>2. edits \in Nat /\ 0 <= edits
    BY Types
  <2> QED BY <1>1, <1>2, <1>3, <2>1, <2>2, GrowsRested
<1>5. RefsTrue'
  BY RefsOpened
<1>6. GateKept'
  BY GateOpened
<1>7. ClosesCover'
  <2>1. session' \in Nat /\ session <= session' /\ session' # session
    BY <1>1, Types
  <2>2. ASSUME NEW o \in Begun, AtWork(o)', ~Disturbed(op[o].form)'
        PROVE  Fine(o)'
    <3>1. Fine(o) /\ AtWork(o)
      BY <1>1, <2>2, FineBefore
    <3> QED BY <1>1, <1>2, <2>1, <3>1, FineApart
  <2> QED BY <1>1, <2>2, CoverIs DEF Begun
<1> QED BY <1>4, <1>5, <1>6, <1>7, WordsNext

LEMMA EditsWords ==
    ASSUME Core, WordsInv, Edits
    PROVE  WordsInv'
<1> USE DEF WordsInv
<1>1. /\ gate = None /\ words' = edits + 1 /\ edits' = edits + 1 /\ adrift' = adrift
      /\ UNCHANGED queue /\ op' = op /\ ops' = ops /\ gate' = gate
      /\ UNCHANGED <<session, form, prior>>
  BY DEF Edits, work
<1>2. Rested
  BY <1>1, QueueRests
<1>3. session \in Nat /\ edits \in Nat /\ words \in Nat /\ words <= edits
  BY Types DEF WordsGrow
<1>4. WordsGrow'
  <2>1. PaneStays
    BY <1>1, <1>3 DEF PaneStays
  <2> QED BY <1>1, <1>2, <1>3, <2>1, GrowsRested
<1>5. RefsTrue'
  BY RefsEdited
<1>6. GateKept'
  BY <1>1, GateRests DEF GateKept
<1>7. ClosesCover'
  <2>1. \A o \in Begun : AtWork(o)' /\ ~Disturbed(op[o].form)' => Fine(o)'
    BY <1>1, <1>2, <1>3, CoverFree
  <2> QED BY <1>1, <2>1, CoverIs DEF Begun
<1> QED BY <1>4, <1>5, <1>6, <1>7, WordsNext

\* Save, or the idle clock.
LEMMA PlainSaveWords ==
    ASSUME Core, WordsInv, NEW kind \in SaveKinds, Queue(kind), gate = None,
           UNCHANGED <<session, form, mounted, words, prior, saved, gate, dialog,
                       work, drafts, past>>
    PROVE  WordsInv'
<1> USE DEF WordsInv
<1>1. PICK t : t = NextPromise(session)
  OBVIOUS
<1>2. Adds(kind, t)
  BY <1>1, QueueAdds
<1>3. /\ op' = op /\ ops' = ops /\ edits' = edits /\ adrift' = adrift
      /\ queuedAs' = words
  BY DEF work, past, Queue
<1>4. WordsGrow'
  BY <1>2, <1>3, GrowsQueued
<1>5. RefsTrue'
  BY <1>2, <1>3, RefsQueued
<1>6. GateKept'
  BY <1>3, GateRests DEF GateKept
<1>7. ClosesCover'
  <2>1. session' \in Nat /\ session <= session'
    BY Types
  <2>2. \A o \in Begun : AtWork(o)' /\ ~Disturbed(op[o].form)' => Fine(o)'
    BY <1>2, <1>3, <2>1, CoverFree
  <2> QED BY <1>3, <2>2, CoverIs DEF Begun
<1> QED BY <1>4, <1>5, <1>6, <1>7, WordsNext

\* The pane is cleared, or shows the dialog, with the gate open.
LEMMA FreePaneWords ==
    ASSUME Core, WordsInv, gate = None, UNCHANGED <<gate, queue, work, drafts, past>>,
           \/ ClearForm(form)
           \/ /\ UNCHANGED <<session, form, mounted, words, prior, saved, queuedAs>>
              /\ dialog' => dialog \/ Dirty \/ prior = None
    PROVE  WordsInv'
<1> USE DEF WordsInv
<1>1. /\ op' = op /\ ops' = ops /\ edits' = edits /\ adrift' = adrift /\ form' = form
      /\ Rested
  BY QueueRests, Cleared DEF work, past
<1>2. /\ session \in Nat /\ edits \in Nat /\ words \in Nat /\ words <= edits
      /\ 0 <= edits
  BY Types DEF WordsGrow
<1>3. session' \in Nat /\ session <= session'
  BY <1>2, Cleared
<1>4. WordsGrow'
  <2>1. CASE ClearForm(form)
    <3>1. PaneMoves /\ words' <= edits'
      BY <1>1, <1>2, <2>1, Cleared DEF PaneMoves
    <3> QED BY <1>1, <1>2, <3>1, GrowsRested
  <2>2. CASE UNCHANGED <<session, form, mounted, words, prior, saved, queuedAs>>
    <3>1. PaneStays /\ words' <= edits'
      BY <1>1, <1>2, <2>2 DEF PaneStays
    <3> QED BY <1>1, <1>2, <3>1, GrowsRested
  <2> QED BY <2>1, <2>2
<1>5. RefsTrue'
  <2>1. CASE ClearForm(form)
    BY <1>1, <2>1, Cleared, RefsCleared DEF ClearForm
  <2>2. CASE /\ UNCHANGED <<session, form, mounted, words, prior, saved, queuedAs>>
             /\ dialog' => dialog \/ Dirty \/ prior = None
    BY <1>1, <2>2, RefsRested DEF Dirty
  <2> QED BY <2>1, <2>2
<1>6. GateKept'
  BY <1>1, GateRests DEF GateKept
<1>7. ClosesCover'
  <2>1. \A o \in Begun : AtWork(o)' /\ ~Disturbed(op[o].form)' => Fine(o)'
    BY <1>1, <1>3, CoverFree
  <2> QED BY <1>1, <2>1, CoverIs DEF Begun
<1> QED BY <1>4, <1>5, <1>6, <1>7, WordsNext

\* A discard or a send begins.
LEMMA TakingWords ==
    ASSUME Core, WordsInv, NEW kind \in {"send", "discard"},
           Claim(kind, "draining", Tail(session)),
           UNCHANGED <<session, form, mounted, words, prior, saved, queuedAs, queue,
                       drafts, past>>,
           dialog' => dialog
    PROVE  WordsInv'
<1> USE DEF WordsInv
<1>1. PICK r : r = Claimed(kind, "draining", Tail(session))
  OBVIOUS
<1>2. r.form = form /\ r.kind = kind /\ r.stage = "draining"
  BY <1>1 DEF Claimed
<1>3. /\ gate = None /\ ops < MaxOps /\ ops' = ops + 1
      /\ op' = [op EXCEPT ![ops + 1] = r] /\ gate' = GateOf(r.kind)
  BY <1>1, <1>2 DEF Claim, Claimed
<1>4. /\ edits' = edits /\ adrift' = adrift /\ Rested
      /\ session \in Nat /\ edits \in Nat /\ words \in Nat /\ words <= edits
  BY QueueRests, Types DEF past, WordsGrow
<1>5. WordsGrow'
  BY <1>4, GrowsRested DEF PaneStays
<1>6. RefsTrue'
  BY <1>4, RefsRested
<1>7. GateKept'
  BY <1>2, <1>3, <1>4, GateClaimed
<1>8. ClosesCover'
  <2>1. /\ ops + 1 \in Ops /\ Begun' = Begun \cup {ops + 1} /\ ops + 1 \notin Begun
        /\ Begun \subseteq Ops /\ op \in [Ops -> OpRecords \cup {NoOp}]
    BY <1>3, Types, Bounds, OpFacts DEF Begun, Ops, OpType
  <2>2. op'[ops + 1] = r /\ \A o \in Begun : op'[o] = op[o]
    BY <1>3, <2>1
  <2>3. \A o \in Begun : AtWork(o)' /\ ~Disturbed(op[o].form)' => Fine(o)'
    BY <1>3, <1>4, <2>2, CoverFree
  <2>4. PICK n : n = ops + 1
    OBVIOUS
  <2>5. ~AtWork(n)'
    <3>1. GateOf(r.kind) # "save-close"
      BY <1>2 DEF GateOf
    <3>2. op'[n] = r
      BY <2>2, <2>4
    <3> QED BY <3>1, <3>2 DEF AtWork
  <2> QED BY <2>1, <2>3, <2>4, <2>5, CoverIs
<1> QED BY <1>5, <1>6, <1>7, <1>8, WordsNext

\* A close begins.
LEMMA CloseWords ==
    ASSUME Core, WordsInv, NEW kind \in {"close", "dialog", "leave"}, SaveAndClose(kind),
           UNCHANGED <<session, form, words, prior, saved, drafts, past>>,
           dialog' => dialog, Dirty \/ dialog,
           kind = "dialog" => mounted' /\ dialog' /\ ButtonFree
    PROVE  WordsInv'
<1> USE DEF WordsInv
<1>1. PICK stage, p :
         /\ Claim(kind, stage, p)
         /\ \/ /\ stage = "draining" /\ p = Tail(session) /\ UNCHANGED <<queue, queuedAs>>
               /\ saved = words \/ (Saving /\ queuedAs = words)
            \/ stage = "saving" /\ p = NextPromise(session) /\ Queue("leaving")
  BY DEF SaveAndClose
<1>2. PICK r : r = Claimed(kind, stage, p)
  OBVIOUS
<1>3. /\ r.form = form /\ r.session = session /\ r.kind = kind /\ r.stage = stage
      /\ r.save = p /\ stage \in {"saving", "draining"}
  BY <1>1, <1>2 DEF Claimed
<1>4. /\ gate = None /\ ops < MaxOps /\ ops' = ops + 1
      /\ op' = [op EXCEPT ![ops + 1] = r] /\ gate' = GateOf(r.kind)
  BY <1>1, <1>2, <1>3 DEF Claim, Claimed
<1>5. /\ edits' = edits /\ adrift' = adrift
      /\ session \in Nat /\ edits \in Nat /\ words \in Nat /\ words <= edits
  BY Types DEF past, WordsGrow
<1>6. \/ stage = "draining" /\ UNCHANGED <<queue, queuedAs>> /\ Rested
      \/ stage = "saving" /\ queuedAs' = words /\ Adds("leaving", p)
  BY <1>1, QueueRests, QueueAdds DEF Queue
<1>7. WordsGrow'
  <2>1. CASE Rested
    BY <1>5, <2>1, GrowsRested DEF PaneStays
  <2>2. CASE Adds("leaving", p)
    BY <1>5, <2>2, GrowsQueued
  <2> QED BY <1>6, <2>1, <2>2
<1>8. RefsTrue'
  <2>1. CASE Rested /\ queuedAs' = queuedAs
    BY <1>5, <2>1, RefsRested
  <2>2. CASE Adds("leaving", p) /\ queuedAs' = words
    BY <1>5, <2>2, RefsQueued
  <2> QED BY <1>6, <2>1, <2>2
<1>9. GateKept'
  BY <1>3, <1>4, <1>5, GateClaimed
<1>10. /\ ops + 1 \in Ops /\ Begun' = Begun \cup {ops + 1}
       /\ Begun \subseteq Ops /\ op \in [Ops -> OpRecords \cup {NoOp}]
       /\ ops + 1 \notin Begun
  BY <1>4, Types, Bounds, OpFacts DEF Begun, Ops, OpType
<1>11. op'[ops + 1] = r /\ \A o \in Begun : op'[o] = op[o]
  BY <1>4, <1>10
<1>12. \A o \in Begun : AtWork(o)' /\ ~Disturbed(op[o].form)' => Fine(o)'
  BY <1>4, <1>5, <1>6, <1>11, CoverFree
<1>13. PICK n : n = ops + 1 /\ op'[n] = r
  BY <1>11
<1>14. Covers(n)'
  <2>1. CASE stage = "draining" /\ UNCHANGED queue
    <3>1. save' = save /\ Made' = Made
      BY <2>1 DEF queue, Made
    <3>2. CASE words = 0
      BY <1>3, <1>13, <2>1, <3>2 DEF Covers
    <3>3. CASE OnFile
      BY <1>3, <1>13, <2>1, <3>1, <3>3 DEF Covers, OnFile
    <3>4. CASE \E t \in Made : save[t].form = form /\ save[t].session # session
      <4>1. Replaced(n)'
        BY <1>3, <1>13, <3>1, <3>4 DEF Replaced
      <4> QED BY <1>3, <1>13, <2>1, <4>1 DEF Covers
    <3>5. CASE Newest(Tail(session)) /\ save[Tail(session)].words = words
      <4>1. Newest(p) /\ save[p].words = words
        BY <1>1, <2>1, <3>5
      <4>2. Newest(p)' /\ save'[p].words = words'
        BY <3>1, <4>1 DEF Newest
      <4>3. Newest(op[n].save)' /\ save'[op'[n].save].words = words'
        BY <1>3, <1>13, <4>2 DEF Newest
      <4> QED BY <1>3, <1>13, <2>1, <4>3 DEF Covers
    <3>6. saved = words \/ (Saving /\ queuedAs = words)
      BY <1>1, <2>1
    <3> QED BY <3>2, <3>3, <3>4, <3>5, <3>6, TailCovers
  <2>2. CASE stage = "saving" /\ Adds("leaving", p)
    BY <1>3, <1>13, <2>2 DEF Covers, Adds
  <2> QED BY <1>6, <2>1, <2>2
<1>15. ASSUME kind = "dialog" PROVE DialogHolds(n)'
  <2>1. Owned(n)' /\ mounted' /\ dialog'
    BY <1>3, <1>13, <1>15 DEF Owned
  <2>2. ASSUME stage = "saving", NEW t \in Pending(session)', t # p
        PROVE  save'[t].kind = "timed"
    <3>1. Adds("leaving", p)
      BY <1>6, <2>2
    <3>2. t \in Made /\ save'[t] = save[t] /\ save[t].session = session
          /\ save[t].stage \in {"waiting", "sent", "stored"}
      BY <2>2, <3>1 DEF Adds, Pending, Waits, Runs
    <3>3. save[t].stage # "waiting"
      BY <2>2, <3>1, <3>2 DEF Adds
    <3>4. save[t].form = form /\ save[t].stage \in {"sent", "stored"}
      BY <3>2, <3>3 DEF WordsGrow
    <3> QED BY <1>15, <3>2, <3>4 DEF ButtonFree
  <2>3. op'[n].stage = stage /\ op'[n].save = p
    BY <1>3, <1>13
  <2> QED BY <2>1, <2>2, <2>3 DEF DialogHolds
<1>16. Fine(n)'
  <2>1. op'[n].kind = kind
    BY <1>3, <1>13
  <2> QED BY <1>14, <1>15, <2>1 DEF Fine
<1>17. ClosesCover'
  BY <1>10, <1>12, <1>13, <1>16, CoverIs
<1> QED BY <1>7, <1>8, <1>9, <1>17, WordsNext

LEMMA ClosesWords ==
    ASSUME Core, WordsInv, Closes
    PROVE  WordsInv'
<1>1. mounted /\ ~dialog /\ gate = None /\ UNCHANGED <<drafts, past>>
  BY DEF Closes
<1>2. CASE /\ Dirty /\ SaveAndClose("close") /\ UNCHANGED dialog
           /\ UNCHANGED <<session, form, mounted, words, prior, saved>>
  BY <1>1, <1>2, CloseWords
<1>3. CASE /\ Discard /\ UNCHANGED dialog
           /\ UNCHANGED <<session, form, mounted, words, prior, saved>>
  BY <1>1, <1>3, TakingWords DEF Discard
<1>4. CASE /\ Dirty /\ UNCHANGED <<gate, queue, queuedAs, work>>
           /\ UNCHANGED <<session, form, mounted, words, prior, saved>>
  BY <1>1, <1>4, FreePaneWords
<1>5. CASE ClearForm(form) /\ UNCHANGED <<gate, queue, work>>
  BY <1>1, <1>5, FreePaneWords
<1> QED BY <1>1, <1>2, <1>3, <1>4, <1>5 DEF Closes

LEMMA DeletesWords ==
    ASSUME Core, WordsInv, Deletes
    PROVE  WordsInv'
<1>1. /\ gate = None
      /\ UNCHANGED <<session, form, mounted, words, prior, saved, drafts, past>>
  BY DEF Deletes
<1>2. CASE prior = None /\ UNCHANGED <<gate, queue, queuedAs, work>>
  BY <1>1, <1>2, FreePaneWords
<1>3. CASE dialog' = FALSE /\ Discard
  BY <1>1, <1>3, TakingWords DEF Discard
<1> QED BY <1>1, <1>2, <1>3 DEF Deletes

LEMMA DialogSavesWords ==
    ASSUME Core, WordsInv, DialogSaves
    PROVE  WordsInv'
  BY CloseWords DEF DialogSaves

LEMMA SendsWords ==
    ASSUME Core, WordsInv, Sends
    PROVE  WordsInv'
  BY TakingWords DEF Sends, pane

\* The user turns away from the closes of the form: what is left of them is in
\* other forms.
LEMMA TurnedAway ==
    ASSUME Core, ClosesCover, Rested, session' = session,
           adrift' = adrift \cup Closing, op' = op, ops' = ops
    PROVE  ClosesCover'
<1> SUFFICES ASSUME NEW o \in Begun, AtWork(o)', ~Disturbed(op[o].form)'
             PROVE  Fine(o)'
  BY CoverIs DEF Begun
<1>1. Fine(o) /\ AtWork(o)
  BY FineBefore
<1>2. op[o].form # form
  <2>1. o \notin adrift'
    BY DEF Disturbed
  <2> QED BY <1>1, <2>1 DEF Closing, AtWork
<1>3. session \in Nat
  BY Types
<1> QED BY <1>1, <1>2, <1>3, FineApart

LEMMA KeepsEditingWords ==
    ASSUME Core, WordsInv, KeepsEditing
    PROVE  WordsInv'
<1> USE DEF WordsInv
<1>1. /\ dialog' = FALSE /\ adrift' = adrift \cup Closing /\ edits' = edits
      /\ op' = op /\ ops' = ops /\ Rested
      /\ UNCHANGED <<session, form, words, prior, saved, queuedAs>>
  BY QueueRests DEF KeepsEditing, work
<1>2. session \in Nat /\ edits \in Nat /\ words \in Nat /\ words <= edits
  BY Types DEF WordsGrow
<1>3. WordsGrow'
  BY <1>1, <1>2, GrowsRested DEF PaneStays
<1>4. RefsTrue'
  BY <1>1, RefsRested
<1>5. GateKept'
  BY GateDropped
<1>6. ClosesCover'
  BY <1>1, TurnedAway
<1> QED BY <1>3, <1>4, <1>5, <1>6, WordsNext

LEMMA LeavesWords ==
    ASSUME Core, WordsInv, Leaves
    PROVE  WordsInv'
<1>1. mounted /\ UNCHANGED <<drafts, edits>>
  BY DEF Leaves
<1>2. CASE /\ dialog' = FALSE /\ adrift' = adrift \cup Closing
           /\ UNCHANGED <<session, form, words, prior, saved, queuedAs, gate, queue,
                          work>>
  <2> USE DEF WordsInv
  <2>1. op' = op /\ ops' = ops /\ Rested
    BY <1>2, QueueRests DEF work
  <2>2. session \in Nat /\ edits \in Nat /\ words \in Nat /\ words <= edits
    BY Types DEF WordsGrow
  <2>3. WordsGrow'
    BY <1>1, <1>2, <2>1, <2>2, GrowsRested DEF PaneStays
  <2>4. RefsTrue'
    BY <1>1, <1>2, <2>1, RefsRested
  <2>5. GateKept'
    BY <1>2, <2>1, GateRests DEF GateKept
  <2>6. ClosesCover'
    BY <1>2, <2>1, TurnedAway
  <2> QED BY <2>3, <2>4, <2>5, <2>6, WordsNext
<1>3. CASE gate = None /\ ClearForm(form) /\ UNCHANGED <<gate, queue, work, adrift>>
  BY <1>1, <1>3, FreePaneWords DEF past
<1>4. CASE /\ Dirty /\ SaveAndClose("close") /\ UNCHANGED <<mounted, dialog>>
           /\ UNCHANGED <<session, form, words, prior, saved, adrift>>
  BY <1>1, <1>4, CloseWords DEF past
<1>5. CASE /\ Dirty /\ SaveAndClose("leave") /\ dialog' = FALSE
           /\ UNCHANGED <<session, form, words, prior, saved, adrift>>
  BY <1>1, <1>5, CloseWords DEF past
<1>6. CASE /\ gate = None /\ Dirty
           /\ UNCHANGED <<mounted, gate, queue, queuedAs, work>>
           /\ UNCHANGED <<session, form, words, prior, saved, adrift>>
  BY <1>1, <1>6, FreePaneWords DEF past
<1> QED BY <1>2, <1>3, <1>4, <1>5, <1>6 DEF Leaves

\* The pane stays as it is.
LEMMA PaneRests ==
    ASSUME Core, WordsInv, Rested, UNCHANGED <<pane, past>>
    PROVE  WordsGrow' /\ RefsTrue'
<1> USE DEF WordsInv
<1>1. edits' = edits /\ edits \in Nat /\ words \in Nat /\ words <= edits
  BY Types DEF past, WordsGrow
<1>2. WordsGrow'
  BY <1>1, GrowsRested DEF PaneStays, pane
<1>3. RefsTrue'
  BY <1>1, RefsRested DEF pane
<1> QED BY <1>2, <1>3

LEMMA StoresWords ==
    ASSUME Core, WordsInv, NEW t, Stores(t)
    PROVE  WordsInv'
<1> USE DEF WordsInv
<1>1. UNCHANGED <<pane, gate, work, past>>
  BY DEF Stores
<1>2. Rested
  BY StoresRests
<1>3. op' = op /\ ops' = ops /\ adrift' = adrift /\ form' = form /\ gate' = gate
  BY <1>1 DEF work, past, pane
<1>4. WordsGrow' /\ RefsTrue'
  BY <1>1, <1>2, PaneRests
<1>5. GateKept'
  BY <1>3, GateRests DEF GateKept
<1>6. ClosesCover'
  <2>1. UNCHANGED <<session, form, words, mounted, dialog>>
    BY <1>1 DEF pane
  <2>2. \A o \in Begun : AtWork(o)' /\ ~Disturbed(op[o].form)' => Fine(o)'
    BY <1>2, <1>3, <2>1, CoverRests
  <2> QED BY <1>3, <2>2, CoverIs DEF Begun
<1> QED BY <1>4, <1>5, <1>6, WordsNext

LEMMA SavedWords ==
    ASSUME Core, WordsInv, NEW t, Saved(t)
    PROVE  WordsInv'
<1> USE DEF WordsInv
<1>1. /\ t \in Made /\ save[t].stage = "stored" /\ SettlesAs(t, "saved")
      /\ UNCHANGED <<session, form, mounted, words, queuedAs, gate, dialog,
                     saves, ops, drafts, past>>
      /\ prior' = IF save[t].session = session THEN t ELSE prior
      /\ saved' = IF save[t].session = session THEN save[t].words ELSE saved
      /\ Settle(t, "saved", session, words, prior')
      /\ op' = [o \in Ops |->
                   IF /\ save[t].session = session /\ op[o].kind = "send"
                      /\ op[o].session = session /\ op[o].stage = "draining"
                   THEN [op[o] EXCEPT !.prior = t] ELSE op[o]]
  BY DEF Saved, SettlesAs
<1>2. /\ t \in Saves /\ prior' \in Saves \cup {None}
      /\ session' \in Nat /\ words' \in Nat
      /\ edits' = edits /\ adrift' = adrift /\ edits \in Nat /\ words <= edits
  BY <1>1, Types, SaveFacts DEF past, WordsGrow
<1>3. Settle(t, "saved", session', words', prior')
  BY <1>1
<1>4. Rested
  BY <1>1, <1>2, <1>3, SettleRests
<1>5. save'[t].stage = "saved"
  <2>1. Settles(t, "saved")
    BY <1>1, <1>2, <1>3, Types, SettleGives
  <2> QED BY <1>1, <2>1 DEF Settles
<1>6. WordsGrow'
  <2>1. PaneStays
    BY <1>1, <1>2 DEF PaneStays, Written
  <2> QED BY <1>1, <1>2, <1>4, <2>1, GrowsRested
<1>7. RefsTrue'
  BY <1>1, <1>2, <1>4, <1>5, RefsRested
<1>8. \A o \in Begun :
         /\ op'[o].kind = op[o].kind /\ op'[o].form = op[o].form
         /\ op'[o].stage = op[o].stage
         /\ op[o].kind # "send" => op'[o] = op[o]
  <2>1. \A o \in Begun : op[o] \in OpRecords /\ o \in Ops
    BY Types, OpFacts
  <2>2. \A r \in OpRecords : LET q == [r EXCEPT !.prior = t] IN
           q.kind = r.kind /\ q.form = r.form /\ q.stage = r.stage
    BY DEF OpRecords
  <2> QED BY <1>1, <2>1, <2>2
<1>9. GateKept'
  BY <1>1, <1>2, <1>8, GateRests DEF GateKept
<1>10. ClosesCover'
  <2> SUFFICES ASSUME NEW o \in Begun, AtWork(o)', ~Disturbed(op[o].form)'
               PROVE  Fine(o)'
    BY <1>1, CoverIs DEF Begun
  <2>1. op[o].kind # "send"
    BY <1>8 DEF AtWork, GateOf
  <2> QED BY <1>1, <1>2, <1>4, <1>8, <2>1, CoverRests
<1> QED BY <1>6, <1>7, <1>9, <1>10, WordsNext

\* A save settles in a pane that stays.
LEMMA SettlesWords ==
    ASSUME Core, WordsInv, NEW t \in Made, NEW st, SettlesAs(t, st),
           Settle(t, st, session, words, prior),
           UNCHANGED <<pane, gate, saves, work, drafts, past>>
    PROVE  WordsInv'
<1> USE DEF WordsInv
<1>1. /\ session' = session /\ words' = words /\ prior' = prior /\ form' = form
      /\ op' = op /\ ops' = ops /\ adrift' = adrift
  BY DEF pane, work, past
<1>2. Rested
  <2>1. Settle(t, st, session', words', prior')
    BY <1>1
  <2> QED BY <1>1, <2>1, Types, SettleRests
<1>3. WordsGrow' /\ RefsTrue'
  BY <1>2, PaneRests
<1>4. GateKept'
  BY <1>1, GateRests DEF GateKept
<1>5. ClosesCover'
  <2>1. UNCHANGED <<session, form, words, mounted, dialog>>
    BY DEF pane
  <2>2. \A o \in Begun : AtWork(o)' /\ ~Disturbed(op[o].form)' => Fine(o)'
    BY <1>1, <1>2, <2>1, CoverRests
  <2> QED BY <1>1, <2>2, CoverIs DEF Begun
<1> QED BY <1>3, <1>4, <1>5, WordsNext

LEMMA SaveFailsWords ==
    ASSUME Core, WordsInv, NEW t, SaveFails(t)
    PROVE  WordsInv'
<1>1. t \in Made /\ UNCHANGED <<pane, gate, saves, work, drafts, past>>
  BY DEF SaveFails
<1>2. PICK st \in {"failed", "late", "lost"} :
          /\ save[t].stage = IF st = "lost" THEN "stored" ELSE "sent"
          /\ Settle(t, st, session, words, prior)
  BY DEF SaveFails
<1>3. SettlesAs(t, st)
  BY <1>2 DEF SettlesAs
<1> QED BY <1>1, <1>2, <1>3, SettlesWords

\* A form is cleared: the words are gone, and so is the session.
LEMMA ClearedWords ==
    ASSUME Core, WordsInv, NEW f, ClearForm(f), Rested, edits' = edits
    PROVE  WordsGrow' /\ RefsTrue'
<1> USE DEF WordsInv
<1>1. PaneMoves /\ edits \in Nat /\ words' <= edits' /\ words' = 0
  BY Cleared, Types DEF PaneMoves
<1>2. WordsGrow'
  BY <1>1, GrowsRested
<1>3. RefsTrue'
  BY <1>1, RefsCleared DEF ClearForm
<1> QED BY <1>2, <1>3

LEMMA SaveFindsNoDraftWords ==
    ASSUME Core, WordsInv, NEW t, SaveFindsNoDraft(t)
    PROVE  WordsInv'
<1> USE DEF WordsInv
<1>1. /\ t \in Made /\ save[t].stage = "sent" /\ SettlesAs(t, "failed")
      /\ UNCHANGED <<gate, saves, work, drafts, past>>
      /\ op' = op /\ ops' = ops /\ adrift' = adrift /\ edits' = edits
  BY DEF SaveFindsNoDraft, SettlesAs, work, past
<1>2. CASE /\ save[t].session = session /\ save[t].kind # "timed"
           /\ ClearForm(save[t].form)
           /\ Settle(t, "failed", session + 1, 0, None)
  <2>1. /\ session' = session + 1 /\ session' \in Nat /\ words' = 0 /\ prior' = None
        /\ words' \in Nat /\ prior' \in Saves \cup {None} /\ form' = form
    BY <1>2, Cleared
  <2>2. Settle(t, "failed", session', words', prior')
    BY <1>2, <2>1
  <2>3. Rested
    BY <1>1, <2>1, <2>2, SettleRests
  <2>4. WordsGrow' /\ RefsTrue'
    BY <1>1, <1>2, <2>3, ClearedWords
  <2>5. GateKept'
    BY <1>1, <2>1, GateRests DEF GateKept
  <2>6. save[t].form = form
    BY <1>1, <1>2 DEF WordsGrow
  <2>7. Failed(t)' /\ t \in Runs(session)
    <3>1. Settles(t, "failed")
      BY <1>1, <2>1, <2>2, Types, SettleGives
    <3>2. save'[t].stage = "failed" /\ t \in Made' /\ t # None
      BY <1>1, <3>1, Types, SaveFacts DEF Settles, Made
    <3> QED BY <1>1, <1>2, <3>2 DEF Failed, Settled, Landed, Runs
  <2>8. ClosesCover'
    <3> SUFFICES ASSUME NEW o \in Begun, AtWork(o)', ~Disturbed(op[o].form)'
                 PROVE  Fine(o)'
      BY <1>1, CoverIs DEF Begun
    <3>1. Fine(o) /\ AtWork(o) /\ op'[o] = op[o]
      BY <1>1, FineBefore
    <3>2. ClearForm(form)
      BY <1>2, <2>6
    <3> QED BY <1>2, <2>3, <2>7, <3>1, <3>2, FineCleared
  <2> QED BY <2>4, <2>5, <2>8, WordsNext
<1>3. CASE UNCHANGED pane /\ Settle(t, "failed", session, words, prior)
  BY <1>1, <1>3, SettlesWords
<1> QED BY <1>2, <1>3 DEF SaveFindsNoDraft

\* An operation ends.
LEMMA OpEndsWords ==
    ASSUME Core, WordsInv, NEW o \in Begun, op[o].stage \in Active, Release(o),
           NEW x \in {"done", "finished"}, op' = [op EXCEPT ![o].stage = x],
           UNCHANGED <<queue, ops, past>>,
           \/ ClearForm(op[o].form)
           \/ /\ UNCHANGED <<session, form, mounted, words, prior, saved, queuedAs>>
              /\ dialog' => dialog
              /\ op[o].form # form => dialog' = dialog
    PROVE  WordsInv'
<1> USE DEF WordsInv
<1>1. PICK f : f = op[o].form
  OBVIOUS
<1>2. /\ Rested /\ edits' = edits /\ adrift' = adrift /\ ops' = ops /\ form' = form
      /\ edits \in Nat /\ words \in Nat /\ words <= edits /\ session \in Nat
  BY QueueRests, Cleared, Types DEF past, WordsGrow
<1>3. WordsGrow' /\ RefsTrue'
  <2>1. CASE ClearForm(f)
    BY <1>2, <2>1, ClearedWords
  <2>2. CASE /\ UNCHANGED <<session, form, mounted, words, prior, saved, queuedAs>>
             /\ dialog' => dialog
    <3>1. WordsGrow'
      BY <1>2, <2>2, GrowsRested DEF PaneStays
    <3>2. RefsTrue'
      BY <1>2, <2>2, RefsRested
    <3> QED BY <3>1, <3>2
  <2> QED BY <1>1, <2>1, <2>2
<1>4. GateKept'
  BY <1>2, GateReleased
<1>5. /\ Begun' = Begun
      /\ \A q \in Begun : q # o => op'[q] = op[q]
      /\ op'[o].stage = x /\ op'[o].form = f
  <2>1. /\ op \in [Ops -> OpRecords \cup {NoOp}] /\ Begun \subseteq Ops
        /\ op[o] \in OpRecords
    BY Types, OpFacts DEF OpType
  <2> QED BY <1>1, <1>2, <2>1 DEF OpRecords, Begun
<1>6. \A q \in Begun : op'[q].form = op[q].form
  BY <1>1, <1>5
<1>7. ASSUME NEW q \in Begun, AtWork(q)', ~Disturbed(op[q].form)'
      PROVE  Fine(q)'
  <2>1. q # o
    BY <1>5, <1>7 DEF AtWork
  <2>2. op'[q] = op[q]
    BY <1>5, <2>1
  <2>3. Fine(q) /\ AtWork(q) /\ ~Disturbed(op[q].form)
    BY <1>2, <1>6, <1>7, <2>2, FineBefore
  <2>4. op[q].form # f
    BY <1>1, <2>1, <2>3 DEF GateKept, AtWork, Active
  <2>5. CASE ClearForm(f) /\ f # form
    BY <1>2, <2>2, <2>3, <2>5, FineCleared
  <2>6. CASE ClearForm(f) /\ f = form
    <3>1. session' \in Nat /\ session <= session' /\ op[q].form # form
      BY <1>2, <2>4, <2>6, Cleared
    <3> QED BY <1>2, <2>2, <2>3, <3>1, FineApart
  <2>7. CASE /\ UNCHANGED <<session, form, mounted, words, prior, saved, queuedAs>>
             /\ f # form => dialog' = dialog
    <3>1. op[q].form = form => UNCHANGED <<mounted, dialog>>
      BY <2>4, <2>7
    <3> QED BY <1>2, <2>2, <2>3, <2>7, <3>1, FineRests
  <2> QED BY <1>1, <2>5, <2>6, <2>7
<1>8. ClosesCover'
  BY <1>5, <1>7, CoverIs
<1> QED BY <1>3, <1>4, <1>8, WordsNext

\* A send or a discard goes on to its next stage.
LEMMA TakingMoves ==
    ASSUME Core, WordsInv, NEW o \in Begun, op[o].kind \in {"send", "discard"},
           op[o].stage \in Active, NEW r, r.kind = op[o].kind, r.form = op[o].form,
           op' = [op EXCEPT ![o] = r], UNCHANGED <<pane, gate, queue, ops, past>>
    PROVE  WordsInv'
<1> USE DEF WordsInv
<1>1. Rested /\ adrift' = adrift /\ Begun' = Begun /\ form' = form
  BY QueueRests DEF past, Begun, pane
<1>2. \A q \in Begun : /\ q # o => op'[q] = op[q]
                       /\ op'[q].kind = op[q].kind /\ op'[q].form = op[q].form
  <2>1. op \in [Ops -> OpRecords \cup {NoOp}] /\ Begun \subseteq Ops
    BY Types, OpFacts DEF OpType
  <2> QED BY <2>1
<1>3. WordsGrow' /\ RefsTrue'
  BY <1>1, PaneRests
<1>4. GateOf(op[o].kind) # "save-close"
  BY DEF GateOf
<1>5. GateKept'
  <2>1. ASSUME NEW q \in Begun
        PROVE  /\ op'[q].stage \in Active => op[q].stage \in Active
               /\ GateOf(op[q].kind) = "save-close" =>
                     op'[q].stage \notin {"requested", "accepted"}
    BY <1>2, <1>4 DEF GateKept
  <2> QED BY <1>1, <1>2, <2>1, GateRests
<1>6. ClosesCover'
  <2> SUFFICES ASSUME NEW q \in Begun, AtWork(q)', ~Disturbed(op[q].form)'
               PROVE  Fine(q)'
    BY <1>1, CoverIs
  <2>1. q # o /\ op'[q] = op[q]
    BY <1>2, <1>4 DEF AtWork
  <2>2. UNCHANGED <<session, form, words, mounted, dialog>>
    BY DEF pane
  <2> QED BY <1>1, <1>2, <2>1, <2>2, CoverRests
<1> QED BY <1>3, <1>5, <1>6, WordsNext

\* A close that drains looks for a newer save: the one that settled was not the
\* newest, so nothing was said of it.
LEMMA DrainsOnWords ==
    ASSUME Core, WordsInv, NEW o, DrainsOn(o)
    PROVE  WordsInv'
<1> USE DEF WordsInv
<1>1. /\ o \in Begun /\ op[o].stage = "draining" /\ op[o].save # None
      /\ Settled(op[o].save) /\ Pending(op[o].session) # {}
      /\ op' = [op EXCEPT ![o].save = Tail(op[o].session)]
      /\ UNCHANGED <<pane, gate, queue, ops, drafts, past>>
  BY DEF DrainsOn
<1>2. /\ Rested /\ adrift' = adrift /\ Begun' = Begun /\ form' = form
      /\ save' = save /\ Made' = Made /\ session' = session /\ words' = words
      /\ UNCHANGED <<session, form, words, mounted, dialog>>
  BY <1>1, QueueRests DEF past, Begun, pane, queue, Made
<1>3. /\ \A q \in Begun : q # o => op'[q] = op[q]
      /\ op'[o].kind = op[o].kind /\ op'[o].form = op[o].form
      /\ op'[o].stage = op[o].stage /\ op'[o].session = op[o].session
  <2>1. /\ op \in [Ops -> OpRecords \cup {NoOp}] /\ Begun \subseteq Ops
        /\ op[o] \in OpRecords
    BY <1>1, Types, OpFacts DEF OpType
  <2>2. PICK p : p = Tail(op[o].session)
    OBVIOUS
  <2>3. op' = [op EXCEPT ![o].save = p]
    BY <1>1, <2>2
  <2> QED BY <1>1, <2>1, <2>3 DEF OpRecords
<1>4. \A q \in Begun : op'[q].form = op[q].form
  BY <1>3
<1>5. WordsGrow' /\ RefsTrue'
  BY <1>1, <1>2, PaneRests
<1>6. GateKept'
  BY <1>1, <1>2, <1>3, GateRests DEF GateKept
<1>7. ASSUME AtWork(o)', ~Disturbed(op[o].form)' PROVE Fine(o)'
  <2>1. PICK f : f = op[o].form /\ op'[o].form = f
    BY <1>3
  <2>2. ~Disturbed(f)
    BY <1>2, <1>4, <1>7, <2>1, DisturbedKept DEF Disturbed
  <2>3. Fine(o)
    BY <1>1, <1>3, <1>7, <2>1, <2>2 DEF ClosesCover, Fine, AtWork
  <2>4. Owned(o)' <=> Owned(o)
    BY <1>2, <1>3 DEF Owned
  <2>5. ASSUME Owned(o) PROVE words = 0 \/ OnFile \/ Replaced(o)
    <3>1. ~Newest(op[o].save)
      <4> SUFFICES ASSUME Newest(op[o].save) PROVE FALSE
        OBVIOUS
      <4>1. PICK t \in Made : t = op[o].save
        BY DEF Newest
      <4>2. Newest(t) /\ save[t].stage \notin {"waiting", "sent", "stored"}
        BY <1>1, <4>1 DEF Settled
      <4>3. PICK u : u \in Pending(session)
        BY <1>1, <2>5 DEF Owned
      <4>4. u \in Made /\ save[u].session = session
            /\ save[u].stage \in {"waiting", "sent", "stored"}
        BY <4>3 DEF Pending, Waits, Runs
      <4>5. u < t
        <5>1. u <= t /\ u # t
          BY <4>2, <4>4 DEF Newest
        <5> QED BY <4>1, <4>4, <5>1, Types, SaveFacts
      <4> QED BY <4>2, <4>4, <4>5, Types DEF OneRuns, Newest
    <3> QED BY <1>1, <2>3, <2>5, <3>1 DEF Fine, Covers
  <2>6. ASSUME Owned(o) PROVE Covers(o)'
    <3>1. OnFile => OnFile'
      BY <1>2 DEF OnFile
    <3>2. Replaced(o) => Replaced(o)'
      BY <1>2, <1>3 DEF Replaced
    <3> QED BY <1>1, <1>2, <1>3, <2>5, <2>6, <3>1, <3>2 DEF Covers
  <2>7. ASSUME op[o].kind = "dialog" PROVE DialogHolds(o)'
    <3>1. CASE Owned(o)
      <4>1. mounted /\ dialog
        BY <1>1, <2>3, <2>7, <3>1 DEF Fine, DialogHolds
      <4> QED BY <1>1, <1>2, <1>3, <2>4, <3>1, <4>1 DEF DialogHolds
    <3>2. CASE ~Owned(o)
      BY <1>1, <1>3, <2>4, <3>2 DEF DialogHolds
    <3> QED BY <3>1, <3>2
  <2> QED BY <1>3, <2>4, <2>6, <2>7 DEF Fine
<1>8. ClosesCover'
  <2> SUFFICES ASSUME NEW q \in Begun, AtWork(q)', ~Disturbed(op[q].form)'
               PROVE  Fine(q)'
    BY <1>2, CoverIs
  <2>1. CASE q = o
    BY <1>7, <2>1
  <2>2. CASE q # o
    BY <1>2, <1>3, <1>4, <2>2, CoverRests
  <2> QED BY <2>1, <2>2
<1> QED BY <1>5, <1>6, <1>8, WordsNext

LEMMA CloseEndsWords ==
    ASSUME Core, WordsInv, NEW o, CloseEnds(o)
    PROVE  WordsInv'
<1>1. /\ o \in Begun /\ op[o].stage \in Active /\ Release(o)
      /\ op' = [op EXCEPT ![o].stage = "done"] /\ UNCHANGED <<queue, ops, past>>
      /\ ClearForm(op[o].form) \/ UNCHANGED pane
  BY DEF CloseEnds, Waited, Active, Done
<1>2. \/ ClearForm(op[o].form)
      \/ /\ UNCHANGED <<session, form, mounted, words, prior, saved, queuedAs>>
         /\ dialog' => dialog
         /\ op[o].form # form => dialog' = dialog
  BY <1>1 DEF pane
<1> QED BY <1>1, <1>2, OpEndsWords

LEMMA DialogCloseEndsWords ==
    ASSUME Core, WordsInv, NEW o, DialogCloseEnds(o)
    PROVE  WordsInv'
<1>1. /\ o \in Begun /\ op[o].stage \in Active /\ Release(o)
      /\ op' = [op EXCEPT ![o].stage = "done"] /\ UNCHANGED <<queue, ops, past>>
  BY DEF DialogCloseEnds, Waited, Active, Done
<1>2. \/ ClearForm(op[o].form)
      \/ /\ UNCHANGED <<session, form, mounted, words, prior, saved, queuedAs>>
         /\ dialog' => dialog
         /\ op[o].form # form => dialog' = dialog
  BY Types DEF DialogCloseEnds
<1> QED BY <1>1, <1>2, OpEndsWords

LEMMA GoesOnWords ==
    ASSUME Core, WordsInv, NEW o, GoesOn(o)
    PROVE  WordsInv'
<1>1. /\ o \in Begun /\ op[o].stage \in Active /\ op[o].kind \in {"send", "discard"}
      /\ op[o] \in OpRecords /\ UNCHANGED <<queue, ops, past>>
  BY Types, OpFacts DEF GoesOn, Waited, Active
<1>2. CASE /\ op' = [op EXCEPT ![o].stage = "requested",
                                ![o].prior = IF op[o].kind = "send" THEN @ ELSE prior]
           /\ UNCHANGED <<gate, pane>>
  <2>1. PICK p : p = IF op[o].kind = "send" THEN op[o].prior ELSE prior
    OBVIOUS
  <2>2. PICK r : r = [op[o] EXCEPT !.stage = "requested", !.prior = p]
    OBVIOUS
  <2>3. r.kind = op[o].kind /\ r.form = op[o].form
    BY <1>1, <2>2 DEF OpRecords
  <2>4. op' = [op EXCEPT ![o] = r]
    BY <1>2, <2>1, <2>2
  <2> QED BY <1>1, <1>2, <2>3, <2>4, TakingMoves
<1>3. CASE /\ Release(o) /\ Done(o)
           /\ ClearForm(op[o].form) \/ UNCHANGED pane
  <2>1. op' = [op EXCEPT ![o].stage = "done"]
    BY <1>3 DEF Done
  <2>2. \/ ClearForm(op[o].form)
        \/ /\ UNCHANGED <<session, form, mounted, words, prior, saved, queuedAs>>
           /\ dialog' => dialog
           /\ op[o].form # form => dialog' = dialog
    BY <1>3 DEF pane
  <2> QED BY <1>1, <1>3, <2>1, <2>2, OpEndsWords
<1> QED BY <1>2, <1>3 DEF GoesOn

LEMMA ServerTakesWords ==
    ASSUME Core, WordsInv, NEW o, ServerTakes(o)
    PROVE  WordsInv'
<1>1. /\ o \in Begun /\ op[o].stage = "requested" /\ op[o].stage \in Active
      /\ op' = [op EXCEPT ![o].stage = "accepted"] /\ op[o] \in OpRecords
      /\ UNCHANGED <<pane, gate, queue, ops, past>>
  BY Types, OpFacts DEF ServerTakes, Active
<1>2. op[o].kind \in {"send", "discard"}
  <2>1. GateOf(op[o].kind) # "save-close"
    BY <1>1 DEF WordsInv, GateKept
  <2> QED BY <1>1, <2>1 DEF GateOf, OpRecords, OpKinds
<1>3. PICK r : r = [op[o] EXCEPT !.stage = "accepted"]
  OBVIOUS
<1>4. r.kind = op[o].kind /\ r.form = op[o].form /\ op' = [op EXCEPT ![o] = r]
  BY <1>1, <1>3 DEF OpRecords
<1> QED BY <1>1, <1>2, <1>4, TakingMoves

LEMMA RepliesWords ==
    ASSUME Core, WordsInv, NEW o, Ends(o) \/ Fails(o)
    PROVE  WordsInv'
<1>1. CASE Ends(o)
  <2>1. /\ o \in Begun /\ op[o].stage \in Active /\ Release(o)
        /\ op' = [op EXCEPT ![o].stage = "finished"] /\ UNCHANGED <<queue, ops, past>>
        /\ IF op[o].session = session THEN ClearForm(op[o].form) ELSE UNCHANGED pane
    BY <1>1 DEF Ends, Active, Owned
  <2>2. \/ ClearForm(op[o].form)
        \/ /\ UNCHANGED <<session, form, mounted, words, prior, saved, queuedAs>>
           /\ dialog' => dialog
           /\ op[o].form # form => dialog' = dialog
    BY <2>1 DEF pane
  <2> QED BY <2>1, <2>2, OpEndsWords
<1>2. CASE Fails(o)
  <2>1. /\ o \in Begun /\ op[o].stage \in Active /\ Release(o)
        /\ op' = [op EXCEPT ![o].stage = "done"] /\ UNCHANGED <<queue, ops, past, pane>>
    BY <1>2 DEF Fails, Active, Done
  <2> QED BY <2>1, OpEndsWords DEF pane
<1> QED BY <1>1, <1>2

(***************************************************************************)
(* The theorems.                                                           *)

(***************************************************************************)

LEMMA InitWords == Init => WordsInv
<1> SUFFICES ASSUME Init PROVE WordsInv
  OBVIOUS
<1>1. Made = {} /\ Begun = {} /\ words = 0 /\ edits = 0 /\ prior = None
      /\ saved = None /\ queuedAs = None /\ None # 0
  BY Bounds DEF Init, Made, Begun
<1>2. WordsGrow /\ RefsTrue
  BY <1>1 DEF WordsGrow, RefsTrue
<1>3. GateKept /\ ClosesCover
  BY <1>1 DEF GateKept, ClosesCover
<1> QED BY <1>2, <1>3 DEF WordsInv

LEMMA NextWords == Core /\ WordsInv /\ [Next]_vars => WordsInv'
<1> SUFFICES ASSUME Core, WordsInv, [Next]_vars PROVE WordsInv'
  OBVIOUS
<1>1. CASE User
  <2>1. CASE \E d \in drafts \cup {None} : Opens(d)
    BY <2>1, OpensWords
  <2>2. CASE Edits
    BY <2>2, EditsWords
  <2>3. CASE ManualSave
    BY <2>3, PlainSaveWords DEF ManualSave, SaveKinds
  <2>4. CASE \E reason \in {"idle", "leave"} : TimedSave(reason)
    BY <2>4, PlainSaveWords DEF TimedSave, SaveKinds
  <2>5. CASE Closes
    BY <2>5, ClosesWords
  <2>6. CASE Deletes
    BY <2>6, DeletesWords
  <2>7. CASE DialogSaves
    BY <2>7, DialogSavesWords
  <2>8. CASE KeepsEditing
    BY <2>8, KeepsEditingWords
  <2>9. CASE Leaves
    BY <2>9, LeavesWords
  <2>10. CASE Sends
    BY <2>10, SendsWords
  <2> QED BY <1>1, <2>1, <2>2, <2>3, <2>4, <2>5, <2>6, <2>7, <2>8, <2>9, <2>10 DEF User
<1>2. CASE Server
  BY <1>2, StoresWords, ServerTakesWords DEF Server
<1>3. CASE \E t \in Saves : Answers(t)
  BY <1>3, SavedWords, SaveFailsWords, SaveFindsNoDraftWords DEF Answers
<1>4. CASE \E o \in Ops : Replies(o)
  BY <1>4, RepliesWords DEF Replies
<1>5. CASE \E o \in Ops : Continues(o)
  BY <1>5, DrainsOnWords, CloseEndsWords, DialogCloseEndsWords, GoesOnWords DEF Continues
<1>6. CASE UNCHANGED vars
  BY <1>6 DEF vars, WordsInv, WordsGrow, RefsTrue, GateKept, ClosesCover, Written, OnFile,
       Newest, Disturbed, Replaced, Covers, DialogHolds, AtWork, Owned, Settled, Landed,
       Pending, Waits, Runs, Made, Begun
<1> QED BY <1>1, <1>2, <1>3, <1>4, <1>5, <1>6 DEF Next

\* What the composer knows of its drafts and its words is true: along its saves
\* the words only grow, the refs that spare it a save do not lie, the gate is
\* shut by what is at work, and a close waits for the words it will clear.
THEOREM Invariance == Spec => []Inv
<1>1. Init => Inv
  BY InitInv, InitWords DEF Inv
<1>2. Inv /\ [Next]_vars => Inv'
  BY NextInv, NextWords DEF Inv
<1> QED BY <1>1, <1>2, PTL DEF Spec

\* No close clears words the server does not hold, unless the user turned away
\* from a close of that form or such a close ended its session.
THEOREM ClosedWords == Spec => ClosedWordsAreSafe
<1> DEFINE Safe == \A o \in Ops : CloseEnds(o) \/ DialogCloseEnds(o) =>
                      \/ words' = words \/ OnServer(words)
                      \/ Disturbed(op[o].form) \/ Replaced(o)
<1>1. Inv => Safe
  <2> SUFFICES ASSUME Inv, NEW o \in Ops, CloseEnds(o) \/ DialogCloseEnds(o),
                      words' # words, ~Disturbed(op[o].form)
               PROVE  OnServer(words) \/ Replaced(o)
    OBVIOUS
  <2>1. o \in Begun /\ AtWork(o)
    BY DEF CloseEnds, DialogCloseEnds, Waited, AtWork, GateOf
  <2>2. Fine(o)
    BY <2>1 DEF Inv, WordsInv, ClosesCover, Fine
  <2>3. Held(o) /\ words' = 0 /\ (Owned(o) \/ op[o].kind = "dialog")
    BY DEF CloseEnds, DialogCloseEnds, ClearForm, pane
  <2>4. \A t \in Made : Landed(t) /\ save[t].words = words => OnServer(words)
    BY WordsFacts DEF Inv, WordsInv, Landed, OnServer
  <2>5. CASE Owned(o)
    <3>1. Covers(o) /\ Landed(op[o].save)
      BY <2>2, <2>3, <2>5 DEF Fine, Held
    <3>2. CASE /\ op[o].save \in Made
               /\ save[op[o].save].words = words
      BY <2>4, <3>1, <3>2
    <3>3. CASE words = 0
      BY <2>3, <3>3
    <3>4. CASE OnFile
      BY <3>4 DEF OnFile, OnServer
    <3>5. CASE Replaced(o)
      BY <3>5
    <3> QED BY <3>1, <3>2, <3>3, <3>4, <3>5 DEF Covers, Newest
  <2>6. CASE ~Owned(o)
    <3>1. DialogHolds(o)
      BY <2>2, <2>3, <2>6 DEF Fine
    <3>2. words = 0
      BY <2>3, <2>6, <3>1 DEF Held, DialogHolds
    <3> QED BY <2>3, <3>2
  <2> QED BY <2>5, <2>6
<1> QED BY <1>1, Invariance, PTL DEF ClosedWordsAreSafe

\* Only a save that is stored replaces a draft.
LEMMA Replaces ==
    ASSUME [Next]_vars
    PROVE  drafts' \subseteq drafts \/ \E t \in Saves : Stores(t)
<1>1. CASE User
  BY <1>1 DEF User, Opens, Edits, ManualSave, Closes, Deletes, DialogSaves, KeepsEditing,
       Leaves, Sends, TimedSave
<1>2. CASE Server
  BY <1>2 DEF Server, ServerTakes
<1>3. CASE \E t \in Saves : Answers(t)
  BY <1>3 DEF Answers, Saved, SaveFails, SaveFindsNoDraft
<1>4. CASE \E o \in Ops : Replies(o) \/ Continues(o)
  BY <1>4 DEF Replies, Continues, Ends, Fails, DrainsOn, CloseEnds, DialogCloseEnds, GoesOn
<1>5. CASE UNCHANGED vars
  BY <1>5 DEF vars
<1> QED BY <1>1, <1>2, <1>3, <1>4, <1>5 DEF Next

\* No save, however late the server takes it, puts older words in the place of
\* newer ones.
THEOREM NeverOlder == Spec => NeverOlderWords
<1> DEFINE Newer == \A d \in drafts \ drafts', e \in drafts' \ drafts :
                       save[d].words <= save[e].words
<1>1. Inv /\ [Next]_vars => Newer
  <2> SUFFICES ASSUME Inv, [Next]_vars, NEW d \in drafts \ drafts',
                      NEW e \in drafts' \ drafts
               PROVE  save[d].words <= save[e].words
    OBVIOUS
  <2>1. PICK t \in Saves : Stores(t)
    BY Replaces
  <2>2. t \in Made /\ e = t /\ d = save[t].prior
    BY <2>1 DEF Stores
  <2>3. d # None
    BY Types, WordsFacts DEF Inv, WordsInv
  <2> QED BY <2>2, <2>3 DEF Inv, WordsInv, WordsGrow
<1> QED BY <1>1, Invariance, PTL DEF Spec, NeverOlderWords

(***************************************************************************)
(* ComposeDrafts keeps the promise of DraftsFolder.                        *)
(***************************************************************************)

\* The variables of DraftsFolder.
FolderOf == {[id |-> d, session |-> save[d].session, words |-> save[d].words] : d \in drafts}
GoneOf == {op[o].session : o \in Taken}
UnheardOf == {save[t].session : t \in LostSaves}

Promised == [Promise!Next]_(Promise!vars)

LEMMA SilentHere ==
    ASSUME FolderOf' = FolderOf, GoneOf' = GoneOf, UnheardOf' = UnheardOf
    PROVE  Promised
  BY DEF FolderOf, GoneOf, UnheardOf, Promised, Promise!vars

\* A step of the saves that the folder does not see, and one of the operations.
SavesQuiet ==
    /\ drafts' = drafts /\ LostSaves' = LostSaves
    /\ \A t \in drafts \cup LostSaves :
          save'[t].session = save[t].session /\ save'[t].words = save[t].words
OpsQuiet == /\ Taken' = Taken
            /\ \A o \in Taken : op'[o].session = op[o].session

LEMMA FolderSame ==
    ASSUME drafts' = drafts,
           \A t \in drafts : /\ save'[t].session = save[t].session
                             /\ save'[t].words = save[t].words
    PROVE  FolderOf' = FolderOf
  BY DEF FolderOf

LEMMA QuietSaves ==
    ASSUME SavesQuiet
    PROVE  FolderOf' = FolderOf /\ UnheardOf' = UnheardOf
<1>1. UnheardOf' = UnheardOf
  BY DEF SavesQuiet, UnheardOf
<1> QED BY <1>1, FolderSame DEF SavesQuiet

LEMMA QuietOps ==
    ASSUME OpsQuiet
    PROVE  GoneOf' = GoneOf
  BY DEF OpsQuiet, GoneOf

LEMMA QuietStep ==
    ASSUME SavesQuiet, OpsQuiet
    PROVE  Promised
  BY QuietSaves, QuietOps, SilentHere

\* The queue at rest, a save queued, a save settled.
LEMMA RestsQuiet ==
    ASSUME UNCHANGED queue, drafts' = drafts
    PROVE  SavesQuiet
  BY DEF queue, SavesQuiet, LostSaves, Made

LEMMA QueuedQuiet ==
    ASSUME Core, NEW kind, Queue(kind), drafts' = drafts
    PROVE  SavesQuiet
<1>1. PICK t : Adds(kind, t)
  BY QueueAdds
<1>2. drafts \subseteq Made /\ \A d \in drafts : save[d].stage \in {"stored", "saved", "lost"}
  BY Types DEF DraftInv, Folder
<1>3. t \notin drafts /\ t \notin LostSaves /\ t \notin LostSaves'
  BY <1>1, <1>2 DEF Adds, LostSaves
<1>4. \A u \in Made : u # t => save'[u] = save[u] /\ u \in Made'
  BY <1>1 DEF Adds
<1>5. LostSaves' = LostSaves
  BY <1>1, <1>3, <1>4 DEF Adds, LostSaves
<1>6. \A u \in drafts \cup LostSaves : save'[u] = save[u]
  BY <1>2, <1>3, <1>4 DEF LostSaves
<1> QED BY <1>5, <1>6 DEF SavesQuiet

\* A save that settles: the drafts stay what they are, and it alone may be lost.
LEMMA SettledLost ==
    ASSUME Core, NEW t \in Made, NEW st, SettlesAs(t, st),
           Settle(t, st, session', words', prior'),
           session' \in Nat, words' \in Nat, prior' \in Saves \cup {None},
           saves' = saves, drafts' = drafts,
           \/ session' = session /\ words' = words
           \/ session' = session + 1
    PROVE  /\ LostSaves' = LostSaves \cup (IF st \in {"late", "lost"} THEN {t} ELSE {})
           /\ \A u \in Made : save'[u].session = save[u].session
           /\ \A u \in drafts \cup LostSaves : save'[u].words = save[u].words
<1>1. Settles(t, st)
  BY Types, SettleGives
<1>2. Rested
  BY SettleRests
<1>3. Made' = Made /\ drafts \subseteq Made
      /\ \A d \in drafts : save[d].stage \in {"stored", "saved", "lost"}
  BY Types DEF DraftInv, Folder, Made
<1>4. ASSUME NEW u \in Made
      PROVE  u \in LostSaves' <=> u \in LostSaves \/ (u = t /\ st \in {"late", "lost"})
  <2>1. CASE u = t
    BY <1>1, <1>3, <2>1 DEF Settles, SettlesAs, LostSaves
  <2>2. CASE u # t /\ u \in Waits(save[t].session)
    BY <1>1, <1>3, <2>2 DEF Settles, LostSaves, Waits
  <2>3. CASE u # t /\ u \notin Waits(save[t].session)
    BY <1>1, <1>3, <2>3 DEF Settles, LostSaves
  <2> QED BY <2>1, <2>2, <2>3
<1>5. LostSaves' = LostSaves \cup (IF st \in {"late", "lost"} THEN {t} ELSE {})
  BY <1>3, <1>4 DEF LostSaves
<1>6. \A u \in Made : save'[u].session = save[u].session
  BY <1>2 DEF Rested, Steady
<1>7. ASSUME NEW u \in drafts \cup LostSaves PROVE save'[u].words = save[u].words
  <2>1. u \in Made /\ save[u].stage # "waiting"
    BY <1>3 DEF LostSaves
  <2> QED BY <1>2, <2>1 DEF Rested, Steady, Restarts
<1> QED BY <1>5, <1>6, <1>7

LEMMA SettledQuiet ==
    ASSUME Core, NEW t \in Made, NEW st \in {"saved", "failed"}, SettlesAs(t, st),
           Settle(t, st, session', words', prior'),
           session' \in Nat, words' \in Nat, prior' \in Saves \cup {None},
           saves' = saves, drafts' = drafts,
           \/ session' = session /\ words' = words
           \/ session' = session + 1
    PROVE  SavesQuiet
<1>1. /\ LostSaves' = LostSaves
      /\ \A u \in Made : save'[u].session = save[u].session
      /\ \A u \in drafts \cup LostSaves : save'[u].words = save[u].words
  BY SettledLost
<1>2. drafts \cup LostSaves \subseteq Made
  BY Types DEF LostSaves
<1> QED BY <1>1, <1>2 DEF SavesQuiet

\* Operations that rest, one that begins, and one the server has not taken and
\* does not take now.
LEMMA RestsAlike ==
    ASSUME UNCHANGED work
    PROVE  OpsQuiet
  BY DEF work, OpsQuiet, Taken, Begun

LEMMA BegunQuiet ==
    ASSUME Core, NEW kind, NEW stage \in {"saving", "draining"}, NEW p,
           Claim(kind, stage, p)
    PROVE  OpsQuiet
<1>1. PICK r : r = [session |-> session, form |-> form, kind |-> kind, stage |-> stage,
                    save |-> p, prior |-> IF kind = "send" THEN prior ELSE None]
  OBVIOUS
<1>2. ops' = ops + 1 /\ op' = [op EXCEPT ![ops + 1] = r] /\ r.stage = stage /\ ops < MaxOps
  BY <1>1 DEF Claim
<1>3. /\ ops \in Nat /\ op \in [Ops -> OpRecords \cup {NoOp}] /\ ops + 1 \in Ops
      /\ Begun' = Begun \cup {ops + 1} /\ ops + 1 \notin Begun /\ Begun \subseteq Ops
  BY <1>2, Types, Bounds, OpFacts DEF OpType, Begun, Ops
<1>4. op'[ops + 1] = r /\ \A o \in Begun : op'[o] = op[o]
  BY <1>2, <1>3
<1>5. Taken' = Taken
  BY <1>2, <1>3, <1>4 DEF Taken
<1> QED BY <1>4, <1>5 DEF OpsQuiet, Taken

LEMMA MovedQuiet ==
    ASSUME ops' = ops,
           \A o \in Begun :
              /\ op'[o].session = op[o].session /\ op'[o].kind = op[o].kind
              /\ \/ op'[o].stage = op[o].stage
                 \/ op[o].kind \notin {"send", "discard"}
                 \/ /\ op[o].stage \notin {"accepted", "finished"}
                    /\ op'[o].stage \notin {"accepted", "finished"}
                 \/ op[o].stage = "accepted" /\ op'[o].stage = "finished"
    PROVE  OpsQuiet
  BY DEF OpsQuiet, Taken, Begun

\* The user may queue a save and begin an operation; the folder rests.
LEMMA UserQuiet ==
    ASSUME Core, User
    PROVE  Promised
<1> DEFINE Moves == /\ drafts' = drafts
                    /\ UNCHANGED queue \/ \E kind : Queue(kind)
                    /\ \/ UNCHANGED work
                       \/ \E kind, p : \E stage \in {"saving", "draining"} :
                             Claim(kind, stage, p)
<1>1. Moves => Promised
  BY RestsQuiet, QueuedQuiet, RestsAlike, BegunQuiet, QuietStep
<1>2. \A kind : SaveAndClose(kind) /\ drafts' = drafts => Moves
  BY DEF SaveAndClose
<1>3. Discard /\ drafts' = drafts => Moves
  BY DEF Discard
<1>4. CASE \E d \in drafts \cup {None} : Opens(d)
  BY <1>1, <1>4 DEF Opens
<1>5. CASE Edits
  BY <1>1, <1>5 DEF Edits
<1>6. CASE ManualSave
  BY <1>1, <1>6 DEF ManualSave
<1>7. CASE \E reason \in {"idle", "leave"} : TimedSave(reason)
  BY <1>1, <1>7 DEF TimedSave
<1>8. CASE Closes
  BY <1>1, <1>2, <1>3, <1>8 DEF Closes
<1>9. CASE Deletes
  BY <1>1, <1>3, <1>9 DEF Deletes
<1>10. CASE DialogSaves
  BY <1>1, <1>2, <1>10 DEF DialogSaves
<1>11. CASE KeepsEditing
  BY <1>1, <1>11 DEF KeepsEditing
<1>12. CASE Leaves
  BY <1>1, <1>2, <1>12 DEF Leaves
<1>13. CASE Sends
  <2>1. Claim("send", "draining", Tail(session)) /\ drafts' = drafts /\ UNCHANGED queue
    BY <1>13 DEF Sends
  <2> QED BY <1>1, <2>1
<1> HIDE DEF Moves
<1> QED BY <1>4, <1>5, <1>6, <1>7, <1>8, <1>9, <1>10, <1>11, <1>12, <1>13 DEF User

\* A save the server stores takes the place of the draft it names, and of any
\* other of its session.
LEMMA StoresKept ==
    ASSUME Inv, Core', NEW t, Stores(t)
    PROVE  Promised
<1>1. /\ t \in Made /\ Core
      /\ UNCHANGED <<pane, gate, saves, work, past>>
      /\ drafts' = (drafts \ {save[t].prior}) \cup {t}
  BY DEF Stores, Inv
<1>2. PICK st \in {"stored", "lost"} :
          /\ save' = [save EXCEPT ![t].stage = st]
          /\ st = "stored" => save[t].stage = "sent"
          /\ st = "lost" => save[t].stage = "late"
  BY DEF Stores
<1>3. /\ save \in [Saves -> SaveRecords \cup {NoSave}] /\ Made \subseteq Saves
      /\ drafts \subseteq Made /\ Made' = Made /\ save[t] \in SaveRecords
      /\ \A d \in drafts : save[d].stage \in {"stored", "saved", "lost"}
  BY <1>1, Types, SaveFacts DEF QueueType, DraftInv, Folder, Made
<1>4. /\ \A u \in Made : save'[u].session = save[u].session /\ save'[u].words = save[u].words
      /\ \A u \in Made : u # t => save'[u] = save[u]
      /\ save'[t].stage = st
  BY <1>1, <1>2, <1>3 DEF SaveRecords
<1>5. LostSaves' = LostSaves
  BY <1>1, <1>2, <1>3, <1>4 DEF LostSaves
<1>6. UnheardOf' = UnheardOf
  BY <1>4, <1>5 DEF UnheardOf, LostSaves
<1>7. GoneOf' = GoneOf
  BY <1>1, RestsAlike, QuietOps
<1> DEFINE Rec(d) == [id |-> d, session |-> save[d].session, words |-> save[d].words]
<1>8. FolderOf = {Rec(d) : d \in drafts} /\ FolderOf' = {Rec(d) : d \in drafts'}
  BY <1>1, <1>3, <1>4 DEF FolderOf
<1>9. t \notin drafts
  BY <1>2, <1>3
<1>10. \A d, e : Rec(d) = Rec(e) => d = e
  OBVIOUS
<1>11. /\ \A d : Rec(d).id = d /\ Rec(d).session = save[d].session
                 /\ Rec(d).words = save[d].words
  OBVIOUS
<1> HIDE DEF Rec
<1>12. FolderOf' \ FolderOf = {Rec(t)}
  BY <1>1, <1>8, <1>9, <1>10
<1>13. \A d \in FolderOf \ FolderOf' : d = Rec(save[t].prior) /\ save[t].prior \in drafts
  BY <1>1, <1>8, <1>9, <1>10
<1>14. \A d \in FolderOf \ FolderOf' : d.words <= Rec(t).words
  <2>1. save[t].prior \in drafts => save[t].prior # None
    BY <1>1, <1>3, WordsFacts DEF Inv, WordsInv
  <2>2. save[t].prior \in drafts => save[save[t].prior].words <= save[t].words
    BY <1>1, <2>1 DEF Inv, WordsInv, WordsGrow
  <2> QED BY <1>11, <1>13, <2>2
<1>15. ASSUME save[t].session \notin UnheardOf
       PROVE  /\ save[t].session \notin GoneOf
              /\ \A d \in drafts : save[d].session = save[t].session => d \notin drafts'
  <2>1. ~Unheard(save[t].session)'
    BY <1>1, <1>3, <1>4, <1>6, <1>15 DEF Unheard, UnheardOf, LostSaves
  <2>2. t \in drafts'
    BY <1>1
  <2>3. \A o \in Taken' : save'[t].session # op'[o].session
    BY <2>1, <2>2, <1>1, <1>4 DEF Core, NoDraftLeftBehind, Taken
  <2>4. save[t].session \notin GoneOf'
    BY <1>1, <1>4, <2>3 DEF GoneOf
  <2>5. \A d \in drafts' : save'[d].session = save'[t].session => d = t
    BY <1>1, <1>4, <2>1, <2>2 DEF Core, OneDraft
  <2>6. \A d \in drafts : save[d].session = save[t].session => d \notin drafts'
    BY <1>1, <1>3, <1>4, <1>9, <2>5
  <2> QED BY <1>7, <2>4, <2>6
<1>16. Promise!Store(Rec(t))
  <2>1. Rec(t).session \notin UnheardOf =>
          /\ Rec(t).session \notin GoneOf
          /\ \A d \in FolderOf : d.session = Rec(t).session => d \in FolderOf \ FolderOf'
    BY <1>8, <1>10, <1>11, <1>15
  <2> QED BY <1>6, <1>7, <1>12, <1>13, <1>14, <2>1
          DEF Promise!Store, Promise!Added, Promise!Removed, FolderOf, GoneOf, UnheardOf
<1>17. Promise!Added = {Rec(t)}
  BY <1>12 DEF Promise!Added, FolderOf
<1>18. Promise!Next
  BY <1>16, <1>17 DEF Promise!Next
<1> QED BY <1>18 DEF Promised

\* An operation alone moves: what it becomes, and what the others stay.
LEMMA MovesTo ==
    ASSUME Core, NEW o \in Begun, NEW x, op' = [op EXCEPT ![o].stage = x]
    PROVE  /\ op'[o].session = op[o].session /\ op'[o].kind = op[o].kind
           /\ op'[o].stage = x
           /\ \A q \in Begun : q # o => op'[q] = op[q]
<1>1. /\ op[o] \in OpRecords /\ o \in Ops /\ Begun \subseteq Ops
      /\ op \in [Ops -> OpRecords \cup {NoOp}]
  BY Types, OpFacts DEF OpType
<1>2. op'[o] = [op[o] EXCEPT !.stage = x]
  BY <1>1
<1> QED BY <1>1, <1>2 DEF OpRecords

\* A send or a discard the server takes takes its draft away.
LEMMA ServerTakesKept ==
    ASSUME Inv, Core', NEW o, ServerTakes(o)
    PROVE  Promised
<1>1. /\ o \in Begun /\ op[o].stage = "requested" /\ Core
      /\ op' = [op EXCEPT ![o].stage = "accepted"] /\ op[o] \in OpRecords
      /\ drafts' = drafts \ {op[o].prior} /\ UNCHANGED <<pane, gate, queue, ops, past>>
  BY Types, OpFacts DEF ServerTakes, Inv
<1>2. op[o].kind \in {"send", "discard"}
  <2>1. GateOf(op[o].kind) # "save-close"
    BY <1>1 DEF Inv, WordsInv, GateKept
  <2> QED BY <1>1, <2>1 DEF GateOf, OpRecords, OpKinds
<1>0. PICK s : s = op[o].session
  OBVIOUS
<1>3. /\ op'[o].session = s /\ op'[o].kind = op[o].kind /\ op'[o].stage = "accepted"
      /\ \A q \in Begun : q # o => op'[q] = op[q]
      /\ Begun' = Begun
  BY <1>0, <1>1, MovesTo DEF Begun
<1>4. Taken' = Taken \cup {o} /\ \A q \in Taken : op'[q].session = op[q].session
  BY <1>1, <1>2, <1>3 DEF Taken
<1>5. GoneOf' = GoneOf \cup {s}
  BY <1>0, <1>3, <1>4 DEF GoneOf
<1>6. save' = save /\ Made' = Made /\ drafts \subseteq Made /\ s \in Nat
  BY <1>0, <1>1, Types, OpFacts DEF queue, Made, OpRecords
<1>7. UnheardOf' = UnheardOf
  BY <1>6 DEF UnheardOf, LostSaves
<1>8. op[o].prior \in drafts => save[op[o].prior].session <= s
  <2>1. BoundTo(s, op[o].prior)
    BY <1>0, <1>1, <1>2 DEF Core, Asking
  <2>2. None \notin Made /\ \A t \in Made : save[t].session \in Nat
    BY <1>1, WordsFacts DEF Inv, WordsInv
  <2> QED BY <1>6, <2>1, <2>2 DEF BoundTo, Before, SavedIn
<1>9. ASSUME s \notin UnheardOf
      PROVE  \A d \in drafts' : save[d].session # s
  <2>1. ~Unheard(s)'
    BY <1>3, <1>6, <1>9 DEF Unheard, UnheardOf, LostSaves
  <2> QED BY <1>0, <1>1, <1>2, <1>3, <1>6, <2>1 DEF Core, NoDraftLeftBehind
<1> DEFINE Rec(d) == [id |-> d, session |-> save[d].session, words |-> save[d].words]
<1>10. /\ FolderOf = {Rec(d) : d \in drafts} /\ FolderOf' = {Rec(d) : d \in drafts'}
       /\ \A d, e : Rec(d) = Rec(e) => d = e
       /\ \A d : Rec(d).session = save[d].session
  BY <1>6 DEF FolderOf
<1> HIDE DEF Rec
<1>11. /\ FolderOf' \ FolderOf = {}
       /\ \A d \in FolderOf \ FolderOf' : d = Rec(op[o].prior) /\ op[o].prior \in drafts
  BY <1>1, <1>10
<1>12. \A d \in FolderOf \ FolderOf' : d.session <= s
  BY <1>8, <1>10, <1>11
<1>13. s \notin UnheardOf => \A d \in FolderOf' : d.session # s
  BY <1>9, <1>10
<1>14. Promise!Added = {} /\ Promise!Removed = FolderOf \ FolderOf'
  BY <1>11 DEF Promise!Added, Promise!Removed, FolderOf
<1>15. Promise!Take(s)
  <2>1. \A d, c \in FolderOf \ FolderOf' : d = c
    BY <1>11
  <2> QED BY <1>5, <1>7, <1>12, <1>13, <1>14, <2>1
          DEF Promise!Take, FolderOf, GoneOf, UnheardOf
<1>16. s \in GoneOf'
  BY <1>5
<1>17. Promise!Next
  BY <1>15, <1>16 DEF Promise!Next, GoneOf
<1> QED BY <1>17 DEF Promised

\* The answers to the saves.
LEMMA AnswersKept ==
    ASSUME Core, NEW t, Saved(t) \/ SaveFails(t) \/ SaveFindsNoDraft(t)
    PROVE  Promised
<1>1. CASE Saved(t)
  <2>1. /\ t \in Made /\ SettlesAs(t, "saved")
        /\ UNCHANGED <<session, words, saves, ops, drafts>>
        /\ prior' = IF save[t].session = session THEN t ELSE prior
        /\ Settle(t, "saved", session, words, prior')
        /\ op' = [o \in Ops |->
                     IF /\ save[t].session = session /\ op[o].kind = "send"
                        /\ op[o].session = session /\ op[o].stage = "draining"
                     THEN [op[o] EXCEPT !.prior = t] ELSE op[o]]
    BY <1>1 DEF Saved, SettlesAs
  <2>2. session' \in Nat /\ words' \in Nat /\ prior' \in Saves \cup {None}
    BY <2>1, Types, SaveFacts
  <2>3. SavesQuiet
    BY <2>1, <2>2, SettledQuiet
  <2>4. \A o \in Begun : op[o] \in OpRecords /\ o \in Ops
    BY Types, OpFacts
  <2>5. \A r \in OpRecords : LET q == [r EXCEPT !.prior = t] IN
           q.session = r.session /\ q.kind = r.kind /\ q.stage = r.stage
    BY DEF OpRecords
  <2>6. OpsQuiet
    BY <2>1, <2>4, <2>5, MovedQuiet
  <2> QED BY <2>3, <2>6, QuietStep
<1>2. CASE SaveFails(t)
  <2>1. PICK st \in {"failed", "late", "lost"} :
            /\ save[t].stage = IF st = "lost" THEN "stored" ELSE "sent"
            /\ Settle(t, st, session, words, prior)
    BY <1>2 DEF SaveFails
  <2>2. /\ t \in Made /\ SettlesAs(t, st) /\ UNCHANGED <<session, words, prior, saves, drafts, work>>
        /\ Settle(t, st, session', words', prior')
    BY <1>2, <2>1 DEF SaveFails, pane, SettlesAs
  <2>3. session' \in Nat /\ words' \in Nat /\ prior' \in Saves \cup {None}
    BY <2>2, Types
  <2>4. OpsQuiet
    BY <2>2, RestsAlike
  <2>5. CASE st = "failed"
    BY <2>2, <2>3, <2>4, <2>5, SettledQuiet, QuietStep
  <2>6. CASE st \in {"late", "lost"}
    <3>1. /\ LostSaves' = LostSaves \cup {t}
          /\ \A u \in Made : save'[u].session = save[u].session
          /\ \A u \in drafts \cup LostSaves : save'[u].words = save[u].words
      BY <2>2, <2>3, <2>6, SettledLost
    <3>2. drafts \cup LostSaves \subseteq Made
      BY Types DEF LostSaves
    <3>3. UnheardOf' = UnheardOf \cup {save[t].session}
      BY <2>2, <3>1, <3>2 DEF UnheardOf
    <3>4. FolderOf' = FolderOf
      BY <2>2, <3>1, <3>2, FolderSame
    <3>5. GoneOf' = GoneOf
      BY <2>4, QuietOps
    <3>6. PICK s : s = save[t].session
      OBVIOUS
    <3>7. CASE s \in UnheardOf
      BY <3>3, <3>4, <3>5, <3>6, <3>7, SilentHere
    <3>8. CASE s \notin UnheardOf
      <4>1. Promise!GiveUp(s)
        BY <3>3, <3>4, <3>5, <3>6 DEF Promise!GiveUp, FolderOf, GoneOf, UnheardOf
      <4>2. s \in UnheardOf' \ UnheardOf
        BY <3>3, <3>6, <3>8
      <4>3. Promise!Next
        BY <4>1, <4>2 DEF Promise!Next, UnheardOf
      <4> QED BY <4>3 DEF Promised
    <3> QED BY <3>7, <3>8
  <2> QED BY <2>5, <2>6
<1>3. CASE SaveFindsNoDraft(t)
  <2>1. /\ t \in Made /\ SettlesAs(t, "failed") /\ UNCHANGED <<saves, drafts, work>>
    BY <1>3 DEF SaveFindsNoDraft, SettlesAs
  <2>2. \/ /\ session' = session + 1 /\ words' = 0 /\ prior' = None
           /\ Settle(t, "failed", session + 1, 0, None)
        \/ /\ UNCHANGED <<session, words, prior>>
           /\ Settle(t, "failed", session, words, prior)
    BY <1>3 DEF SaveFindsNoDraft, ClearForm, pane
  <2>3. /\ session' \in Nat /\ words' \in Nat /\ prior' \in Saves \cup {None}
        /\ Settle(t, "failed", session', words', prior')
    BY <2>2, Types
  <2>4. SavesQuiet
    BY <2>1, <2>2, <2>3, SettledQuiet
  <2> QED BY <2>1, <2>4, RestsAlike, QuietStep
<1> QED BY <1>1, <1>2, <1>3

\* The answers to a discard or a send: one that is not heard leaves the message
\* to its author.
LEMMA RepliesKept ==
    ASSUME Core, NEW o, Ends(o) \/ Fails(o)
    PROVE  Promised
<1>1. SavesQuiet
  BY RestsQuiet DEF Ends, Fails
<1>2. /\ o \in Begun /\ ops' = ops /\ Begun' = Begun
      /\ \/ op[o].stage = "accepted" /\ op' = [op EXCEPT ![o].stage = "finished"]
         \/ op[o].stage \in {"requested", "accepted"} /\ op' = [op EXCEPT ![o].stage = "done"]
  BY DEF Ends, Fails, Done, Begun
<1>3. CASE op' = [op EXCEPT ![o].stage = "finished"] /\ op[o].stage = "accepted"
  <2>1. OpsQuiet
    BY <1>2, <1>3, MovesTo, MovedQuiet
  <2> QED BY <1>1, <2>1, QuietStep
<1>4. CASE op' = [op EXCEPT ![o].stage = "done"]
  <2>1. /\ op'[o].session = op[o].session /\ op'[o].kind = op[o].kind
        /\ op'[o].stage = "done"
        /\ \A q \in Begun : q # o => op'[q] = op[q]
    BY <1>2, <1>4, MovesTo
  <2>2. Taken' = Taken \ {o}
    BY <1>2, <2>1 DEF Taken
  <2>3. GoneOf' = GoneOf \/ GoneOf' = GoneOf \ {op[o].session}
    BY <2>1, <2>2 DEF GoneOf, Taken
  <2>4. FolderOf' = FolderOf /\ UnheardOf' = UnheardOf
    BY <1>1, QuietSaves
  <2>5. CASE GoneOf' = GoneOf
    BY <2>4, <2>5, SilentHere
  <2>6. CASE GoneOf' # GoneOf
    <3>1. PICK s : s = op[o].session
      OBVIOUS
    <3>2. GoneOf' = GoneOf \ {s} /\ s \in GoneOf \ GoneOf'
      BY <2>3, <2>6, <3>1
    <3>3. Promise!Doubt(s)
      BY <2>4, <3>2 DEF Promise!Doubt, FolderOf, GoneOf, UnheardOf
    <3>4. Promise!Next
      BY <3>2, <3>3 DEF Promise!Next, GoneOf
    <3> QED BY <3>4 DEF Promised
  <2> QED BY <2>5, <2>6
<1> QED BY <1>2, <1>3, <1>4

\* What the operations do when what they waited for is there.
LEMMA ContinuesQuiet ==
    ASSUME Core, NEW o, Continues(o)
    PROVE  Promised
<1>1. SavesQuiet
  BY RestsQuiet DEF Continues, DrainsOn, CloseEnds, DialogCloseEnds, GoesOn
<1>2. o \in Begun /\ ops' = ops /\ op[o].stage \in {"saving", "draining"}
  BY DEF Continues, DrainsOn, CloseEnds, DialogCloseEnds, GoesOn, Waited
<1>3. /\ op[o] \in OpRecords /\ o \in Ops /\ Begun \subseteq Ops
      /\ op \in [Ops -> OpRecords \cup {NoOp}]
  BY <1>2, Types, OpFacts DEF OpType
<1>4. \E p : \/ op' = [op EXCEPT ![o].save = p]
             \/ op' = [op EXCEPT ![o].stage = "done"]
             \/ op' = [op EXCEPT ![o].stage = "requested", ![o].prior = p]
  <2>1. CASE DrainsOn(o)
    BY <2>1 DEF DrainsOn
  <2>2. CASE CloseEnds(o) \/ DialogCloseEnds(o)
    BY <2>2 DEF CloseEnds, DialogCloseEnds, Done
  <2>3. CASE GoesOn(o)
    <3>1. CASE op' = [op EXCEPT ![o].stage = "requested",
                                ![o].prior = IF op[o].kind = "send" THEN @ ELSE prior]
      <4>1. op' = [op EXCEPT ![o].stage = "requested",
                             ![o].prior = IF op[o].kind = "send" THEN op[o].prior ELSE prior]
        BY <1>3, <3>1
      <4> QED BY <4>1
    <3>2. CASE Done(o)
      BY <3>2 DEF Done
    <3> QED BY <2>3, <3>1, <3>2 DEF GoesOn
  <2> QED BY <2>1, <2>2, <2>3 DEF Continues
<1>6. /\ op'[o].session = op[o].session /\ op'[o].kind = op[o].kind
      /\ op'[o].stage \in {"saving", "draining", "done", "requested"}
      /\ \A q \in Begun : q # o => op'[q] = op[q]
  BY <1>2, <1>3, <1>4 DEF OpRecords
<1>7. OpsQuiet
  BY <1>2, <1>6, MovedQuiet
<1> QED BY <1>1, <1>7, QuietStep

LEMMA FolderInit == Init => Promise!Init
<1>1. Init => LostSaves = {} /\ Taken = {}
  BY DEF Init, LostSaves, Taken, Made, Begun
<1> QED BY <1>1 DEF Init, Promise!Init

LEMMA FolderStep == Inv /\ [Next]_vars => Promised
<1> SUFFICES ASSUME Inv, [Next]_vars PROVE Promised
  OBVIOUS
<1>1. Core /\ Core'
  BY NextInv DEF Inv
<1>2. CASE User
  BY <1>1, <1>2, UserQuiet
<1>3. CASE Server
  BY <1>1, <1>3, StoresKept, ServerTakesKept DEF Server
<1>4. CASE \E t \in Saves : Answers(t)
  BY <1>1, <1>4, AnswersKept DEF Answers
<1>5. CASE \E o \in Ops : Replies(o) \/ Continues(o)
  BY <1>1, <1>5, RepliesKept, ContinuesQuiet DEF Replies
<1>6. CASE UNCHANGED vars
  <2>1. SavesQuiet /\ OpsQuiet
    BY <1>6, RestsQuiet, RestsAlike DEF vars, queue, work
  <2> QED BY <2>1, QuietStep
<1> QED BY <1>2, <1>3, <1>4, <1>5, <1>6 DEF Next

\* Whatever was edited, left, reopened, sent or thrown away meanwhile, and
\* whichever answers were lost: what the composer does to the Drafts folder is
\* what DraftsFolder promises of it.
THEOREM Refinement == Spec => KeepsFolder
<1>1. Inv /\ [Next]_vars => [Promise!Next]_(Promise!vars)
  BY FolderStep DEF Promised
<1> QED BY <1>1, FolderInit, Invariance, PTL DEF Spec, KeepsFolder, Promise!Spec
=============================================================================
