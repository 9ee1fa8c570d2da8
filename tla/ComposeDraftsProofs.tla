------------------------- MODULE ComposeDraftsProofs -------------------------
(***************************************************************************)
(* Core of ComposeDrafts is inductive.  The first part is about the saves   *)
(* and the Drafts folder, the second about the operations and the gate,    *)
(* the third goes through the actions.                                     *)
(***************************************************************************)
EXTENDS ComposeDrafts, WellFoundedInduction, TLAPS

(***************************************************************************)
(* The last of a set of saves.                                             *)
(***************************************************************************)

\* The greatest element of a set is its last.
LEMMA LastIs ==
    ASSUME NEW S, S \subseteq Nat, NEW m \in S, \A u \in S : u <= m
    PROVE  Last(S) = m
<1> DEFINE P(x) == x \in S /\ \A u \in S : u <= x
<1>1. P(m)
  OBVIOUS
<1>2. \A x, y : P(x) /\ P(y) => x = y
  OBVIOUS
<1>3. Last(S) = CHOOSE x \in S : \A u \in S : u <= x
  BY DEF Last
<1>4. \A x : x \in S /\ (\A u \in S : u <= x) => x = m
  BY <1>1, <1>2
<1> QED BY <1>1, <1>3, <1>4

\* A set of saves that is not empty has a last.
LEMMA LastOf ==
    ASSUME NEW n \in Nat, NEW S, S \subseteq 1 .. n, S # {}
    PROVE  Last(S) \in S /\ \A u \in S : u <= Last(S)
<1> DEFINE Ranks == {n - u : u \in S}
<1> DEFINE Less == {ss \in Nat \X Nat : ss[1] < ss[2]}
<1>1. Ranks \subseteq Nat /\ Ranks # {}
  <2>1. \A u \in S : n - u \in Nat
    OBVIOUS
  <2> QED BY <2>1
<1>2. IsWellFoundedOn(Less, Nat)
  BY NatLessThanWellFounded, Zenon DEF OpToRel
<1>3. PICK least \in Ranks : \A r \in Ranks : ~(<<r, least>> \in Less)
  <2> HIDE DEF Ranks, Less
  <2> QED BY <1>1, <1>2, WFMin
<1>4. PICK m \in S : least = n - m
  OBVIOUS
<1>5. \A u \in S : ~(n - u < n - m)
  BY <1>1, <1>3, <1>4
<1>6. \A u \in S : u <= m
  BY <1>5
<1>7. S \subseteq Nat
  OBVIOUS
<1> QED BY <1>6, <1>7, LastIs

\* No save, or one of them.
LEMMA LastType ==
    ASSUME NEW n \in Nat, NEW S, S \subseteq 1 .. n
    PROVE  Last(S) \in S \cup {None} /\ (S = {} => Last(S) = None)
<1>1. CASE S = {}
  BY <1>1 DEF Last
<1>2. CASE S # {}
  BY <1>2, LastOf
<1> QED BY <1>1, <1>2

(***************************************************************************)
(* The saves and the Drafts folder.                                        *)
(***************************************************************************)

\* What the saves, the folder and the binding of the pane need of the types.
QueueType ==
    /\ saves \in Nat /\ saves <= MaxSaves
    /\ save \in [Saves -> SaveRecords \cup {NoSave}]
    /\ \A t \in Made : save[t] \in SaveRecords
    /\ drafts \subseteq Made
    /\ session \in Nat /\ prior \in Saves \cup {None}

SaveAges == \A t \in Made : save[t].session <= session

DraftInv == QueueType /\ SaveAges /\ OneRuns /\ Binding /\ Folder /\ OneDraft

\* What the bounds are.
LEMMA Bounds ==
    /\ MaxSaves \in Nat /\ MaxOps \in Nat /\ MaxForms \in Nat /\ MaxEdits \in Nat
    /\ None \notin Nat /\ None # "delivery" /\ None # "discard"
    /\ None # "save-close"
  BY ComposeAssumption

\* The fields of a save.
LEMMA SaveFacts ==
    ASSUME QueueType
    PROVE  /\ \A t \in Made :
                /\ t \in Nat /\ 1 <= t /\ t <= saves /\ t \in Saves /\ t # None
                /\ save[t].session \in Nat /\ save[t].form \in Nat
                /\ save[t].kind \in SaveKinds /\ save[t].words \in Nat
                /\ save[t].prior \in Saves \cup {None}
                /\ save[t].stage \in SaveStages
           /\ Made \subseteq Saves
<1>1. MaxSaves \in Nat /\ None \notin Nat
  BY Bounds
<1>2. \A t \in Made : t \in Nat /\ 1 <= t /\ t <= saves /\ t \in Saves
  BY <1>1 DEF QueueType, Made, Saves
<1>3. \A t \in Made : save[t] \in SaveRecords
  BY DEF QueueType
<1>4. \A r \in SaveRecords :
        /\ r.session \in Nat /\ r.form \in Nat /\ r.kind \in SaveKinds
        /\ r.words \in Nat /\ r.prior \in Saves \cup {None}
        /\ r.stage \in SaveStages
  BY DEF SaveRecords
<1> QED BY <1>1, <1>2, <1>3, <1>4

\* The last landed save of a session.
LEMMA LatestIs ==
    ASSUME QueueType, NEW s
    PROVE  /\ SavedIn(s) = {} <=> LatestSaved(s) = None
           /\ SavedIn(s) # {} =>
                LatestSaved(s) \in SavedIn(s)
                /\ \A u \in SavedIn(s) : u <= LatestSaved(s)
<1>1. LatestSaved(s) = Last(SavedIn(s))
  BY DEF LatestSaved, SavedIn
<1>2. SavedIn(s) \subseteq 1 .. saves /\ saves \in Nat
  BY DEF SavedIn, Made, QueueType
<1>3. \A u \in SavedIn(s) : u # None
  BY <1>2, Bounds
<1>4. CASE SavedIn(s) = {}
  BY <1>1, <1>4 DEF Last
<1>5. CASE SavedIn(s) # {}
  BY <1>1, <1>2, <1>3, <1>5, LastOf
<1> QED BY <1>4, <1>5

\* A save that runs is the last of its session but for the one that waits.
LEMMA RunsAlone ==
    ASSUME QueueType, OneRuns, NEW t \in Made, save[t].stage \in {"sent", "stored"}
    PROVE  \A u \in Made : save[u].session = save[t].session /\ u # t =>
              \/ u > t /\ save[u].stage = "waiting"
              \/ u < t /\ save[u].stage \notin {"waiting", "sent", "stored"}
<1> SUFFICES ASSUME NEW u \in Made, save[u].session = save[t].session, u # t
             PROVE  \/ u > t /\ save[u].stage = "waiting"
                    \/ u < t /\ save[u].stage \notin {"waiting", "sent", "stored"}
  OBVIOUS
<1>1. u \in Nat /\ t \in Nat
  BY SaveFacts
<1>2. CASE u < t
  BY <1>2 DEF OneRuns
<1>3. CASE t < u
  BY <1>1, <1>3 DEF OneRuns
<1> QED BY <1>1, <1>2, <1>3

\* At most one save of a session waits.
LEMMA WaitsAlone ==
    ASSUME QueueType, OneRuns, NEW t \in Made, NEW u \in Made,
           save[t].session = save[u].session,
           save[t].stage = "waiting", save[u].stage = "waiting"
    PROVE  t = u
<1>1. u \in Nat /\ t \in Nat
  BY SaveFacts
<1> QED BY <1>1 DEF OneRuns

\* OneDraft says no more than Folder.
LEMMA FolderOneDraft == QueueType /\ Folder => OneDraft
<1> SUFFICES ASSUME QueueType, Folder, NEW d \in drafts, NEW e \in drafts,
                    save[d].session = save[e].session, ~Unheard(save[d].session)
             PROVE  d = e
  BY DEF OneDraft
<1>1. d \in Made /\ e \in Made /\ d \in Nat /\ e \in Nat
  BY SaveFacts DEF QueueType
<1>2. save[d].stage \in {"stored", "saved"} /\ save[e].stage \in {"stored", "saved"}
  BY <1>1 DEF Folder, Unheard
<1>3. e <= d /\ d <= e
  BY <1>1, <1>2 DEF Folder
<1> QED BY <1>1, <1>3

\* What BoundTo and Before say in the next state, of values named in this one.
LEMMA BoundNext ==
    ASSUME NEW q, NEW p, NEW u
    PROVE  /\ session' = q /\ prior' = p /\ BoundTo(q, p)' => BoundTo(session, prior)'
           /\ save'[u].session = q /\ save'[u].prior = p =>
                /\ BoundTo(q, p)' => BoundTo(save[u].session, save[u].prior)'
                /\ Before(q, p)' => Before(save[u].session, save[u].prior)'
                /\ SavedIn(save[u].session)' = SavedIn(q)'
  BY DEF BoundTo, SavedIn, Before, Made

\* The pane moves to a new session, or stays, and no save moves.
LEMMA PaneStep ==
    ASSUME DraftInv, UNCHANGED queue, drafts' \subseteq drafts,
           \/ session' = session /\ prior' = prior
           \/ session' = session + 1 /\ prior' \in drafts \cup {None}
    PROVE  DraftInv'
<1> USE DEF DraftInv
<1>1. /\ save' = save /\ saves' = saves
  BY DEF queue
<1>2. QueueType'
  <2>1. session' \in Nat /\ prior' \in Saves \cup {None}
    BY SaveFacts DEF QueueType
  <2> QED BY <1>1, <2>1 DEF QueueType, Made
<1>3. SaveAges'
  BY <1>1, SaveFacts DEF SaveAges, Made, QueueType
<1>4. OneRuns'
  BY <1>1 DEF OneRuns, Made, Runs
<1>5. Binding'
  <2>1. \A s, p : BoundTo(s, p)' <=> BoundTo(s, p)
    BY <1>1 DEF BoundTo, SavedIn, Before, Made
  <2>2. BoundTo(session, prior)'
    <3>1. CASE session' = session /\ prior' = prior
      BY <1>1, <3>1 DEF Binding, BoundTo, SavedIn, Before, Made
    <3>2. CASE session' = session + 1 /\ prior' \in drafts \cup {None}
      <4>1. SavedIn(session)' = {}
        BY <1>1, <3>2, SaveFacts DEF SavedIn, Made, SaveAges, QueueType
      <4>2. Before(session, prior)'
        BY <1>1, <3>2, SaveFacts DEF Before, Made, SaveAges, QueueType
      <4> QED BY <4>1, <4>2 DEF BoundTo
    <3> QED BY <3>1, <3>2
  <2>3. \A t \in Made' :
          /\ save'[t].stage = "sent" => BoundTo(save[t].session, save[t].prior)'
          /\ save'[t].stage = "waiting" /\ SavedIn(save[t].session)' = {} =>
                Before(save[t].session, save[t].prior)'
    BY <1>1 DEF Binding, BoundTo, SavedIn, Before, Made
  <2> QED BY <2>2, <2>3 DEF Binding
<1>6. Folder'
  BY <1>1 DEF Folder, Unheard, Made
<1>7. OneDraft'
  BY <1>2, <1>6, FolderOneDraft, PTL
<1> QED BY <1>2, <1>3, <1>4, <1>5, <1>6, <1>7

\* A save u that is settled stays so, a draft comes only of a save that ran or
\* was not heard of, and a save is queued only for the session of the pane,
\* with the gate open.
Keeps(u) ==
    /\ u \in Made /\ save'[u].session = save[u].session
    /\ save[u].stage \notin {"waiting", "sent", "stored"} =>
          \/ save'[u].stage = save[u].stage
          \/ save[u].stage = "late" /\ save'[u].stage = "lost"

Joins(u) ==
    /\ mounted /\ gate = None
    /\ save'[u].session = session
    /\ u \in Made => save[u].session = session /\ save[u].stage = "waiting"

Calm ==
    /\ saves' \in Nat /\ saves <= saves'
    /\ \A u \in 1 .. saves' : Keeps(u) \/ Joins(u)
    /\ \A d \in drafts' :
          d \in drafts \/ (d \in Made /\ save[d].stage \in {"sent", "late"})

\* No save of the pane's session lands in this step.
SavedKept == \A u \in 1 .. saves' : save'[u].session = session =>
    (save'[u].stage = "saved" <=> u \in Made /\ save[u].stage = "saved")

\* What Queue does, with t the promise it gives.
Queued(kind, t) ==
    /\ t \in Nat /\ t \in Saves /\ t <= MaxSaves /\ saves' \in Nat
    /\ \/ /\ t = saves + 1 /\ saves' = saves + 1
          /\ \A u \in Made : save[u].session = session => save[u].stage # "waiting"
       \/ /\ t \in Made /\ saves' = saves
          /\ save[t].session = session /\ save[t].stage = "waiting"
    /\ save' = [save EXCEPT ![t] =
          [session |-> session, form |-> form, kind |-> kind, words |-> words,
           prior |-> prior,
           stage |-> IF Pending(session) = {} THEN "sent" ELSE "waiting"]]

LEMMA QueueGives ==
    ASSUME QueueType, NEW kind, Queue(kind)
    PROVE  Queued(kind, NextPromise(session))
<1> DEFINE t == NextPromise(session)
<1>1. /\ t <= MaxSaves
      /\ saves' = IF t > saves THEN t ELSE saves
      /\ save' = [save EXCEPT ![t] =
            [session |-> session, form |-> form, kind |-> kind, words |-> words,
             prior |-> prior,
             stage |-> IF Pending(session) = {} THEN "sent" ELSE "waiting"]]
  BY DEF Queue
<1>2. saves \in Nat /\ MaxSaves \in Nat
  BY Bounds DEF QueueType
<1>3. CASE Waits(session) = {}
  <2>1. t = saves + 1
    BY <1>3 DEF NextPromise
  <2>2. \A u \in Made : save[u].session = session => save[u].stage # "waiting"
    BY <1>3 DEF Waits
  <2>3. t \in Nat /\ t \in Saves /\ saves' = saves + 1
    BY <1>1, <1>2, <2>1 DEF Saves
  <2> HIDE DEF t
  <2>4. Queued(kind, t)
    BY <1>1, <2>1, <2>2, <2>3 DEF Queued
  <2> QED BY <2>4 DEF t
<1>4. CASE Waits(session) # {}
  <2>1. t \in Waits(session)
    <3>1. Waits(session) \subseteq 1 .. saves
      BY DEF Waits, Made
    <3> QED BY <1>2, <1>4, <3>1, LastOf DEF NextPromise
  <2> HIDE DEF t
  <2>2. t \in Made /\ save[t].session = session /\ save[t].stage = "waiting"
    BY <2>1 DEF Waits
  <2>3. t \in Nat /\ t \in Saves /\ t <= saves
    BY <2>2, SaveFacts
  <2>4. saves' = saves
    BY <1>1, <1>2, <2>3
  <2>5. saves' \in Nat
    BY <1>2, <2>4
  <2>6. Queued(kind, t)
    BY <1>1, <2>2, <2>3, <2>4, <2>5 DEF Queued
  <2> QED BY <2>6 DEF t
<1> QED BY <1>3, <1>4

\* A save is queued.
LEMMA QueueStep ==
    ASSUME DraftInv, NEW kind \in SaveKinds, NEW t, Queued(kind, t),
           form \in Nat, words \in Nat, mounted, gate = None,
           session' = session, prior' = prior, drafts' = drafts
    PROVE  DraftInv' /\ Calm /\ SavedKept
<1> USE DEF DraftInv
<1> DEFINE r == [session |-> session, form |-> form, kind |-> kind,
                 words |-> words, prior |-> prior,
                 stage |-> IF Pending(session) = {} THEN "sent" ELSE "waiting"]
<1>1. r \in SaveRecords
  BY DEF QueueType, SaveRecords, SaveStages
<1>2. /\ t \in Nat /\ t \in Saves /\ t # None /\ saves' \in Nat /\ saves' <= MaxSaves
      /\ saves <= saves' /\ saves \in Nat
      /\ 1 .. saves' = Made \cup {t}
      /\ \/ /\ t = saves + 1 /\ t \notin Made
            /\ \A u \in Made : save[u].session = session => save[u].stage # "waiting"
         \/ t \in Made /\ save[t].session = session /\ save[t].stage = "waiting"
  <2>1. saves \in Nat /\ saves <= MaxSaves /\ None \notin Nat
    BY Bounds DEF QueueType
  <2> QED BY <2>1 DEF Queued, Made
<1>3. /\ save'[t] = r
      /\ \A u \in Saves : u # t => save'[u] = save[u]
      /\ save' \in [Saves -> SaveRecords \cup {NoSave}]
  <2>1. save' = [save EXCEPT ![t] = r]
    BY DEF Queued
  <2> HIDE DEF r
  <2> QED BY <1>1, <1>2, <2>1 DEF QueueType
<1>4. /\ \A u \in Made : u # t => save'[u] = save[u] /\ u \in Nat
      /\ r.session = session /\ r.prior = prior
      /\ r.stage = IF Pending(session) = {} THEN "sent" ELSE "waiting"
  BY <1>3, SaveFacts
<1>5. \A u \in Made : save[u].session = session /\ save[u].stage \in {"waiting", "sent", "stored"}
                      => Pending(session) # {}
  BY DEF Pending, Waits, Runs
<1> HIDE DEF r
<1>6. QueueType'
  <2>1. \A u \in 1 .. saves' : save'[u] \in SaveRecords
    BY <1>1, <1>2, <1>3, <1>4 DEF QueueType
  <2> QED BY <1>2, <1>3, <2>1 DEF QueueType, Made
<1>7. SaveAges'
  BY <1>2, <1>3, <1>4 DEF SaveAges, Made, QueueType
<1>8. OneRuns'
  <2>1. ASSUME NEW u \in 1 .. saves', NEW v \in 1 .. saves',
               save'[u].session = save'[v].session, u < v
        PROVE  /\ save'[u].stage # "waiting"
               /\ save'[u].stage \in {"sent", "stored"} => save'[v].stage = "waiting"
    <3>1. CASE u \in Made /\ v \in Made /\ u # t /\ v # t
      BY <1>4, <2>1, <3>1 DEF OneRuns
    <3>2. CASE t \in Made /\ save[t].session = session /\ save[t].stage = "waiting"
      <4>1. r.stage = "waiting"
        BY <1>4, <1>5, <3>2
      <4>2. /\ u \in Made /\ v \in Made
            /\ save'[u].session = save[u].session /\ save'[u].stage = save[u].stage
            /\ save'[v].session = save[v].session /\ save'[v].stage = save[v].stage
        BY <1>2, <1>3, <1>4, <2>1, <3>2, <4>1
      <4> QED BY <2>1, <4>2 DEF OneRuns
    <3>3. CASE t = saves + 1 /\ v = t /\ u \in Made /\ u # t
               /\ \A w \in Made : save[w].session = session => save[w].stage # "waiting"
      BY <1>3, <1>4, <1>5, <2>1, <3>3
    <3>4. ~(t = saves + 1 /\ t \notin Made /\ u = t)
      BY <1>2, <2>1, SaveFacts
    <3> QED BY <1>2, <2>1, <3>1, <3>2, <3>3, <3>4
  <2>2. ASSUME NEW u \in 1 .. saves', save'[u].stage = "waiting"
        PROVE  \E w \in 1 .. saves' : /\ save'[w].session = save'[u].session
                                     /\ save'[w].stage \in {"sent", "stored"}
    <3>1. CASE u \in Made /\ (u # t \/ t \in Made)
      <4>1. save[u].stage = "waiting" /\ save'[u].session = save[u].session
        BY <1>2, <1>3, <1>4, <2>2, <3>1
      <4>2. PICK w \in Made : /\ save[w].session = save[u].session
                              /\ save[w].stage \in {"sent", "stored"}
        BY <3>1, <4>1 DEF OneRuns, Runs
      <4>3. w # t
        BY <1>2, <4>2
      <4> QED BY <1>2, <1>4, <4>1, <4>2, <4>3
    <3>2. CASE u = t /\ t \notin Made
      <4>1. Pending(session) # {}
        BY <1>3, <1>4, <2>2, <3>2
      <4>2. PICK w \in Made : /\ save[w].session = session
                              /\ save[w].stage \in {"sent", "stored"}
        BY <1>2, <3>2, <4>1 DEF Pending, Waits, Runs
      <4> QED BY <1>2, <1>3, <1>4, <3>2, <4>2
    <3> QED BY <1>2, <2>2, <3>1, <3>2
  <2> QED BY <2>1, <2>2 DEF OneRuns, Made, Runs
<1>9. Binding'
  <2>1. \A u \in 1 .. saves' : save'[u].stage = "saved" <=> u \in Made /\ save[u].stage = "saved"
    BY <1>2, <1>3, <1>4
  <2>2. \A u \in Made : save'[u].session = save[u].session
    BY <1>2, <1>3, <1>4
  <2>3. \A q : SavedIn(q)' = SavedIn(q)
    BY <1>2, <2>1, <2>2 DEF SavedIn, Made
  <2>4. \A q, p : BoundTo(q, p) => BoundTo(q, p)'
    BY <1>2, <2>2, <2>3 DEF BoundTo, Before, Made
  <2>5. \A q, p : Before(q, p) => Before(q, p)'
    BY <1>2, <2>2 DEF Before, Made
  <2>6. BoundTo(session, prior)'
    <3>1. BoundTo(session, prior)
      BY DEF Binding
    <3> QED BY <2>4, <3>1 DEF BoundTo, SavedIn, Before, Made
  <2>7. ASSUME NEW u \in 1 .. saves'
        PROVE  /\ save'[u].stage = "sent" => BoundTo(save[u].session, save[u].prior)'
               /\ save'[u].stage = "waiting" /\ SavedIn(save[u].session)' = {} =>
                     Before(save[u].session, save[u].prior)'
    <3>1. CASE u # t
      <4>1. u \in Made /\ save'[u] = save[u]
        BY <1>2, <1>4, <3>1
      <4> QED BY <2>3, <2>4, <2>5, <4>1 DEF Binding, BoundTo, SavedIn, Before, Made
    <3>2. CASE u = t
      <4>1. save'[u].session = session' /\ save'[u].prior = prior'
        BY <1>3, <1>4, <3>2
      <4>2. SavedIn(session)' = {} => Before(session, prior)'
        BY <2>6 DEF BoundTo
      <4> QED BY <2>6, <4>1, <4>2 DEF BoundTo, SavedIn, Before, Made
    <3> QED BY <3>1, <3>2
  <2> QED BY <2>6, <2>7 DEF Binding, Made
<1>10. Folder'
  <2>1. \A q : Unheard(q) => Unheard(q)'
    BY <1>2, <1>4 DEF Unheard, Made
  <2>2. ASSUME NEW d \in drafts
        PROVE  /\ save'[d].stage \in {"stored", "saved", "lost"}
               /\ save'[d].session = save[d].session
               /\ \/ Unheard(save[d].session)
                  \/ \A u \in 1 .. saves' :
                        save'[u].session = save[d].session
                        /\ save'[u].stage \in {"stored", "saved"} => u <= d
    <3>1. d \in Made /\ save[d].stage \in {"stored", "saved", "lost"} /\ d # t
      BY <1>2 DEF QueueType, Folder
    <3>2. save'[d] = save[d]
      BY <1>4, <3>1
    <3>3. save'[t].stage \notin {"stored", "saved"}
      BY <1>3, <1>4
    <3> QED BY <1>2, <1>4, <3>1, <3>2, <3>3 DEF Folder
  <2> QED BY <2>1, <2>2 DEF Folder, Unheard, Made
<1>11. OneDraft'
  BY <1>6, <1>10, FolderOneDraft, PTL
<1>12. Calm
  <2>1. \A u \in 1 .. saves' : Keeps(u) \/ Joins(u)
    BY <1>2, <1>3, <1>4 DEF Keeps, Joins
  <2> QED BY <1>2, <2>1 DEF Calm
<1>13. SavedKept
  BY <1>2, <1>3, <1>4 DEF SavedKept
<1> QED BY <1>6, <1>7, <1>8, <1>9, <1>10, <1>11, <1>12, <1>13

\* The server stores a save.
LEMMA StoresStep ==
    ASSUME DraftInv, NEW t, Stores(t), session' = session, prior' = prior
    PROVE  DraftInv' /\ Calm /\ SavedKept
<1> USE DEF DraftInv
<1>1. /\ t \in Made /\ saves' = saves /\ saves \in Nat /\ Made' = Made
      /\ save[t].prior = None \/ save[t].prior \in drafts
      /\ drafts' = (drafts \ {save[t].prior}) \cup {t}
      /\ t \in Nat /\ t \in Saves
  BY SaveFacts DEF Stores, queue, QueueType, Made
<1>2. \E st \in {"stored", "lost"} :
        /\ save[t].stage = IF st = "stored" THEN "sent" ELSE "late"
        /\ save' = [save EXCEPT ![t].stage = st]
  BY DEF Stores
<1>3. PICK st \in {"stored", "lost"} :
        /\ save[t].stage = IF st = "stored" THEN "sent" ELSE "late"
        /\ save' = [save EXCEPT ![t].stage = st]
  BY <1>2
<1>4. /\ \A u \in Made : u # t => save'[u] = save[u] /\ u \in Nat
      /\ save'[t].session = save[t].session /\ save'[t].prior = save[t].prior
      /\ save'[t].stage = st
  BY <1>1, <1>3, SaveFacts DEF QueueType, SaveRecords
<1>5. QueueType'
  <2>1. [save[t] EXCEPT !.stage = st] \in SaveRecords
    BY <1>1 DEF QueueType, SaveRecords, SaveStages
  <2>2. save' = [save EXCEPT ![t] = [save[t] EXCEPT !.stage = st]]
    BY <1>3
  <2>3. save' \in [Saves -> SaveRecords \cup {NoSave}]
    BY <1>1, <2>1, <2>2 DEF QueueType
  <2>4. \A u \in Made : save'[u] \in SaveRecords
    BY <1>1, <2>1, <2>2 DEF QueueType
  <2>5. drafts' \subseteq Made
    BY <1>1 DEF QueueType
  <2> QED BY <1>1, <2>3, <2>4, <2>5 DEF QueueType
<1>6. \A u \in Made :
        /\ save'[u].session = save[u].session /\ save'[u].prior = save[u].prior
        /\ save'[u].stage = "waiting" <=> save[u].stage = "waiting"
        /\ save'[u].stage \in {"sent", "stored"} <=> save[u].stage \in {"sent", "stored"}
        /\ save'[u].stage = "saved" <=> save[u].stage = "saved"
        /\ save'[u].stage = "sent" => save[u].stage = "sent"
        /\ save[u].stage \in {"late", "lost"} => save'[u].stage \in {"late", "lost"}
  BY <1>3, <1>4
<1>7. SaveAges'
  BY <1>1, <1>6 DEF SaveAges
<1>8. OneRuns'
  <2>1. \A q : Runs(q)' = Runs(q)
    BY <1>1, <1>6 DEF Runs
  <2>2. ASSUME NEW u \in Made, NEW v \in Made,
               save'[u].session = save'[v].session, u < v
        PROVE  /\ save'[u].stage # "waiting"
               /\ save'[u].stage \in {"sent", "stored"} => save'[v].stage = "waiting"
    BY <1>6, <2>2 DEF OneRuns
  <2>3. ASSUME NEW u \in Made, save'[u].stage = "waiting"
        PROVE  Runs(save[u].session)' # {}
    <3>1. Runs(save[u].session) # {}
      BY <1>6, <2>3 DEF OneRuns
    <3> QED BY <1>1, <1>6, <3>1 DEF Runs
  <2> QED BY <1>1, <2>2, <2>3 DEF OneRuns, Runs
<1>9. Binding'
  <2>1. \A q : SavedIn(q)' = SavedIn(q)
    BY <1>1, <1>6 DEF SavedIn
  <2>2. \A q, p : Before(q, p)' <=> Before(q, p)
    BY <1>1, <1>6 DEF Before
  <2>3. \A q, p : BoundTo(q, p)' <=> BoundTo(q, p)
    BY <2>1, <2>2 DEF BoundTo
  <2>4. BoundTo(session, prior)'
    <3>1. BoundTo(session, prior)
      BY DEF Binding
    <3> QED BY <1>1, <2>3, <3>1 DEF BoundTo, SavedIn, Before
  <2>5. ASSUME NEW u \in Made
        PROVE  /\ save'[u].stage = "sent" => BoundTo(save[u].session, save[u].prior)'
               /\ save'[u].stage = "waiting" /\ SavedIn(save[u].session)' = {} =>
                     Before(save[u].session, save[u].prior)'
    <3>1. save'[u].stage = "sent" => BoundTo(save[u].session, save[u].prior)
      BY <1>6 DEF Binding
    <3>2. save'[u].stage = "waiting" /\ SavedIn(save[u].session) = {} =>
             Before(save[u].session, save[u].prior)
      BY <1>6 DEF Binding
    <3>3. save'[u].session = save[u].session /\ save'[u].prior = save[u].prior
      BY <1>6
    <3>4. save'[u].stage = "sent" => BoundTo(save[u].session, save[u].prior)'
      BY <1>1, <2>3, <3>1, <3>3 DEF BoundTo, SavedIn, Before
    <3>5. save'[u].stage = "waiting" /\ SavedIn(save[u].session)' = {} =>
             Before(save[u].session, save[u].prior)'
      BY <1>1, <2>1, <2>2, <3>2, <3>3 DEF SavedIn, Before
    <3> QED BY <3>4, <3>5
  <2> QED BY <1>1, <2>4, <2>5 DEF Binding
<1>10. Folder'
  <2>1. \A q : Unheard(q) => Unheard(q)'
    BY <1>1, <1>6 DEF Unheard
  <2>2. ASSUME NEW d \in drafts'
        PROVE  /\ save'[d].stage \in {"stored", "saved", "lost"}
               /\ \/ Unheard(save[d].session)'
                  \/ \A u \in Made :
                        save'[u].session = save'[d].session
                        /\ save'[u].stage \in {"stored", "saved"} => u <= d
    <3>1. CASE d = t
      <4>1. CASE st = "lost"
        BY <1>1, <1>4, <3>1, <4>1 DEF Unheard
      <4>2. CASE st = "stored"
        <5>1. \A u \in Made : save[u].session = save[t].session /\ u # t =>
                 u < t \/ save[u].stage = "waiting"
          BY <1>1, <1>3, <4>2, RunsAlone
        <5> QED BY <1>1, <1>4, <1>6, <3>1, <4>2, <5>1
      <4> QED BY <4>1, <4>2
    <3>2. CASE d # t
      <4>1. d \in drafts /\ d \in Made /\ d # save[t].prior /\ save'[d] = save[d]
        BY <1>1, <1>4, <3>2 DEF QueueType
      <4>2. CASE Unheard(save[d].session)
        BY <2>1, <4>1, <4>2 DEF Folder, Unheard
      <4>3. CASE ~Unheard(save[d].session) /\ save[d].session = save[t].session
        <5>1. st = "stored"
          BY <1>1, <1>3, <4>3 DEF Unheard
        <5>2. save[d].stage = "saved"
          BY <1>1, <1>3, <3>2, <4>1, <4>3, <5>1, RunsAlone DEF Folder, Unheard
        <5>3. \A u \in SavedIn(save[t].session) : u <= d
          BY <1>1, <4>1, <4>3 DEF Folder, SavedIn
        <5>4. d \in SavedIn(save[t].session) /\ d \in Nat
          BY <4>1, <4>3, <5>2, SaveFacts DEF SavedIn
        <5>5. BoundTo(save[t].session, save[t].prior)
          BY <1>1, <1>3, <5>1 DEF Binding
        <5>6. save[t].prior \in SavedIn(save[t].session) /\ d <= save[t].prior
          BY <5>4, <5>5 DEF BoundTo
        <5>7. save[t].prior \in Nat
          BY <5>6, SaveFacts DEF SavedIn
        <5>8. d = save[t].prior
          BY <5>3, <5>4, <5>6, <5>7
        <5> QED BY <4>1, <5>8
      <4>4. CASE ~Unheard(save[d].session) /\ save[d].session # save[t].session
        BY <1>1, <1>4, <1>6, <4>1, <4>4 DEF Folder
      <4> QED BY <4>2, <4>3, <4>4
    <3> QED BY <3>1, <3>2
  <2> QED BY <1>1, <2>2 DEF Folder, Unheard
<1>11. OneDraft'
  BY <1>5, <1>10, FolderOneDraft, PTL
<1>12. Calm
  <2>1. \A u \in Made : Keeps(u)
    BY <1>3, <1>4, <1>6 DEF Keeps
  <2>2. save[t].stage \in {"sent", "late"}
    BY <1>3
  <2> QED BY <1>1, <2>1, <2>2 DEF Calm, Made
<1>13. SavedKept
  BY <1>1, <1>6 DEF SavedKept, Made
<1> QED BY <1>5, <1>7, <1>8, <1>9, <1>10, <1>11, <1>12, <1>13

\* What Settle does to each save.
Settles(t, st) ==
    /\ saves' = saves /\ drafts' = drafts
    /\ save' \in [Saves -> SaveRecords \cup {NoSave}]
    /\ \A u \in Made :
          /\ save'[u] \in SaveRecords
          /\ save'[u].session = save[u].session
          /\ u = t => save'[u].stage = st /\ save'[u].prior = save[u].prior
          /\ u # t /\ u \notin Waits(save[t].session) => save'[u] = save[u]
          /\ u # t /\ u \in Waits(save[t].session) =>
                /\ save'[u].stage \in {"sent", "dropped"}
                /\ save'[u].stage = "sent" =>
                      \/ /\ save[t].session = session'
                         /\ save'[u].prior = prior'
                      \/ /\ save[t].session # session'
                         /\ save'[u].prior =
                              IF st = "saved" THEN t
                              ELSE IF LatestSaved(save[t].session) = None
                              THEN save[u].prior ELSE LatestSaved(save[t].session)

\* The stage a save at work may settle as.
SettlesAs(t, st) ==
    \/ st = "saved" /\ save[t].stage = "stored"
    \/ st = "lost" /\ save[t].stage = "stored"
    \/ st \in {"failed", "late"} /\ save[t].stage = "sent"

LEMMA SettleGives ==
    ASSUME QueueType, NEW t \in Made, NEW st, SettlesAs(t, st),
           Settle(t, st, session', words', prior'),
           session' \in Nat, words' \in Nat, prior' \in Saves \cup {None},
           saves' = saves, drafts' = drafts
    PROVE  Settles(t, st)
<1>1. st \in SaveStages /\ save[t].stage # "waiting"
  BY DEF SettlesAs, SaveStages
<1>2. \A u \in Saves : save'[u] = IF u = t THEN [save[t] EXCEPT !.stage = st]
                ELSE IF u \in Waits(save[t].session)
                THEN Started(u, t, st, session', words', prior')
                ELSE save[u]
  BY DEF Settle
<1>3. [save[t] EXCEPT !.stage = st] \in SaveRecords
  BY <1>1 DEF QueueType, SaveRecords
<1>4. ASSUME NEW u \in Waits(save[t].session)
      PROVE  LET r == Started(u, t, st, session', words', prior')
             IN  /\ r \in SaveRecords
                 /\ r.session = save[u].session
                 /\ r.stage \in {"sent", "dropped"}
                 /\ r.stage = "sent" =>
                      \/ save[t].session = session' /\ r.prior = prior'
                      \/ /\ save[t].session # session'
                         /\ r.prior =
                              IF st = "saved" THEN t
                              ELSE IF LatestSaved(save[t].session) = None
                              THEN save[u].prior ELSE LatestSaved(save[t].session)
  <2>1. u \in Made /\ save[u].session = save[t].session /\ save[u] \in SaveRecords
    BY DEF Waits, QueueType
  <2>2. LatestSaved(save[t].session) \in Saves \cup {None}
    <3>1. LatestSaved(save[t].session) = Last(SavedIn(save[t].session))
      BY DEF LatestSaved, SavedIn
    <3>2. SavedIn(save[t].session) \subseteq 1 .. saves /\ saves \in Nat
      BY DEF SavedIn, Made, QueueType
    <3>3. SavedIn(save[t].session) \subseteq Saves
      BY SaveFacts DEF SavedIn
    <3> QED BY <3>1, <3>2, <3>3, LastType
  <2>3. t \in Saves /\ t # None
    BY SaveFacts
  <2> DEFINE w == IF save[u].kind = "leaving" THEN save[u].words ELSE words'
  <2> DEFINE latest == IF st = "saved" THEN t ELSE LatestSaved(save[t].session)
  <2>4. latest \in Saves \cup {None}
    BY <2>2, <2>3
  <2>5. w \in Nat
    BY <2>1 DEF SaveRecords
  <2>6. CASE save[u].session = session'
    <3>1. Started(u, t, st, session', words', prior') =
             [save[u] EXCEPT !.stage = "sent", !.prior = prior', !.words = w]
      BY <2>6 DEF Started
    <3> HIDE DEF w
    <3> QED BY <2>1, <2>5, <2>6, <3>1 DEF SaveRecords, SaveStages
  <2>7. CASE save[u].session # session' /\ save[u].kind = "leaving"
    <3>1. Started(u, t, st, session', words', prior') =
             [save[u] EXCEPT !.stage = "sent",
                             !.prior = IF latest = None THEN save[u].prior ELSE latest]
      BY <2>1, <2>7 DEF Started
    <3>2. (IF latest = None THEN save[u].prior ELSE latest) =
             IF st = "saved" THEN t
             ELSE IF LatestSaved(save[t].session) = None
             THEN save[u].prior ELSE LatestSaved(save[t].session)
      BY <2>3
    <3>3. save[u].prior \in Saves \cup {None}
      BY <2>1 DEF SaveRecords
    <3> HIDE DEF latest
    <3> QED BY <2>1, <2>4, <2>7, <3>1, <3>2, <3>3 DEF SaveRecords, SaveStages
  <2>8. CASE save[u].session # session' /\ save[u].kind # "leaving"
    <3>1. Started(u, t, st, session', words', prior') = [save[u] EXCEPT !.stage = "dropped"]
      BY <2>8 DEF Started
    <3> QED BY <2>1, <2>8, <3>1 DEF SaveRecords, SaveStages
  <2> QED BY <2>6, <2>7, <2>8
<1>5. t \notin Waits(save[t].session) /\ Waits(save[t].session) \subseteq Made
      /\ Made \subseteq Saves
  BY <1>1, SaveFacts DEF Waits
<1>6. save' \in [Saves -> SaveRecords \cup {NoSave}]
  <2>1. \A u \in Saves : save'[u] \in SaveRecords \cup {NoSave}
    BY <1>2, <1>3, <1>4 DEF QueueType
  <2>2. save' = [u \in Saves |-> save'[u]]
    BY DEF Settle
  <2> QED BY <2>1, <2>2
<1>7. ASSUME NEW u \in Made
      PROVE  /\ save'[u] \in SaveRecords
             /\ save'[u].session = save[u].session
             /\ u = t => save'[u].stage = st /\ save'[u].prior = save[u].prior
             /\ u # t /\ u \notin Waits(save[t].session) => save'[u] = save[u]
  <2>1. CASE u = t
    BY <1>2, <1>3, <1>5, <2>1 DEF SaveRecords, QueueType
  <2>2. CASE u \in Waits(save[t].session)
    BY <1>2, <1>4, <1>5, <2>2
  <2>3. CASE u # t /\ u \notin Waits(save[t].session)
    BY <1>2, <1>5, <2>3 DEF QueueType
  <2> QED BY <2>1, <2>2, <2>3
<1>8. ASSUME NEW u \in Made, u # t, u \in Waits(save[t].session)
      PROVE  /\ save'[u].stage \in {"sent", "dropped"}
             /\ save'[u].stage = "sent" =>
                      \/ save[t].session = session' /\ save'[u].prior = prior'
                      \/ /\ save[t].session # session'
                         /\ save'[u].prior =
                              IF st = "saved" THEN t
                              ELSE IF LatestSaved(save[t].session) = None
                              THEN save[u].prior ELSE LatestSaved(save[t].session)
  <2>1. save'[u] = Started(u, t, st, session', words', prior')
    BY <1>2, <1>5, <1>8
  <2> QED BY <1>4, <1>8, <2>1
<1> QED BY <1>6, <1>7, <1>8 DEF Settles

\* A save settles, and the one that waited for it starts or is dropped.
LEMMA SettleStep ==
    ASSUME DraftInv, NEW t \in Made, NEW st, SettlesAs(t, st), Settles(t, st),
           prior' \in Saves \cup {None},
           \/ /\ session' = session
              /\ prior' = IF st = "saved" /\ save[t].session = session THEN t ELSE prior
           \/ session' = session + 1 /\ prior' = None /\ st # "saved"
    PROVE  /\ DraftInv' /\ Calm
           /\ st # "saved" \/ save[t].session # session => SavedKept
<1> USE DEF DraftInv
<1>0. PICK s : s = save[t].session
  OBVIOUS
<1>1. /\ saves' = saves /\ drafts' = drafts /\ Made' = Made /\ saves \in Nat
      /\ session \in Nat /\ session' \in Nat /\ session <= session'
      /\ t \in Nat /\ t # None
  BY SaveFacts DEF Settles, QueueType, Made
<1>2. /\ save[t].stage \in {"sent", "stored"}
      /\ save'[t].stage = st /\ st \in {"saved", "failed", "late", "lost"}
      /\ st \in {"saved", "lost"} <=> save[t].stage = "stored"
  BY DEF Settles, SettlesAs
<1>3. \A u \in Made : save'[u].session = save[u].session /\ u \in Nat
  BY SaveFacts DEF Settles
<1>4. \A u \in Made : save[u].session = s /\ u # t =>
         \/ u > t /\ save[u].stage = "waiting" /\ save'[u].stage \in {"sent", "dropped"}
         \/ /\ u < t /\ save[u].stage \notin {"waiting", "sent", "stored"}
            /\ save'[u] = save[u]
  <2>1. ASSUME NEW u \in Made, save[u].session = s, u # t
        PROVE  \/ u > t /\ save[u].stage = "waiting"
               \/ u < t /\ save[u].stage \notin {"waiting", "sent", "stored"}
    BY <1>2, <2>1, RunsAlone, <1>0
  <2> QED BY <1>0, <2>1 DEF Settles, Waits
<1>5. \A u \in Made : save[u].session # s => save'[u] = save[u]
  BY <1>0 DEF Settles, Waits
<1>6. \A u, v \in Made : save[u].session = s /\ save[v].session = s
         /\ save[u].stage = "waiting" /\ save[v].stage = "waiting" => u = v
  BY WaitsAlone
<1>7. /\ \A u \in Made : save'[u].stage \in {"stored", "saved"} =>
            save[u].stage \in {"stored", "saved"}
      /\ \A u \in Made : save[u].stage \in {"late", "lost"} =>
            save'[u].stage \in {"late", "lost"}
  <2>1. ASSUME NEW u \in Made
        PROVE  /\ save'[u].stage \in {"stored", "saved"} =>
                     save[u].stage \in {"stored", "saved"}
               /\ save[u].stage \in {"late", "lost"} =>
                     save'[u].stage \in {"late", "lost"}
    <3>1. CASE u = t
      BY <1>2, <3>1
    <3>2. CASE u # t
      BY <1>4, <1>5, <3>2
    <3> QED BY <3>1, <3>2
  <2> QED BY <2>1
<1>8. QueueType'
  <2>1. save' \in [Saves -> SaveRecords \cup {NoSave}]
        /\ \A u \in Made : save'[u] \in SaveRecords
    BY DEF Settles
  <2> QED BY <1>1, <2>1 DEF QueueType
<1>9. SaveAges'
  <2>1. \A u \in Made : save[u].session <= session /\ save[u].session \in Nat
    BY SaveFacts DEF SaveAges
  <2> QED BY <1>1, <1>3, <2>1 DEF SaveAges
<1>10. OneRuns'
  <2>1. ASSUME NEW u \in Made, NEW v \in Made,
               save[u].session = save[v].session, u < v
        PROVE  /\ save'[u].stage # "waiting"
               /\ save'[u].stage \in {"sent", "stored"} => save'[v].stage = "waiting"
    <3>1. CASE save[u].session # s
      <4>1. save'[u] = save[u] /\ save'[v] = save[v]
        BY <1>5, <2>1, <3>1
      <4> QED BY <2>1, <4>1 DEF OneRuns
    <3>2. CASE save[u].session = s /\ u = t
      BY <1>2, <3>2
    <3>3. CASE save[u].session = s /\ u # t
      <4>1. CASE u < t
        BY <1>1, <1>3, <1>4, <3>3, <4>1
      <4>2. CASE u > t
        <5>0. t \in Nat /\ u \in Nat /\ v \in Nat
          BY <1>3
        <5>1. v # t /\ v > t
          BY <2>1, <4>2, <5>0
        <5>2. ASSUME NEW w \in Made, save[w].session = s, w # t, w > t
              PROVE  save[w].stage = "waiting"
          BY <1>1, <1>3, <1>4, <5>2
        <5>3. save[u].stage = "waiting"
          BY <3>3, <4>2, <5>2
        <5>4. save[v].stage = "waiting"
          BY <2>1, <3>3, <5>1, <5>2
        <5>5. save[v].session = s
          BY <2>1, <3>3
        <5>6. u = v
          BY <1>6, <3>3, <5>3, <5>4, <5>5
        <5> QED BY <2>1, <5>0, <5>6
      <4> QED BY <1>1, <1>3, <3>3, <4>1, <4>2
    <3> QED BY <3>1, <3>2, <3>3
  <2>2. ASSUME NEW u \in Made, save'[u].stage = "waiting"
        PROVE  \E w \in Made : /\ save'[w].session = save'[u].session
                               /\ save'[w].stage \in {"sent", "stored"}
    <3>1. save[u].session # s
      BY <1>2, <1>4, <2>2
    <3>2. save'[u] = save[u]
      BY <1>5, <3>1
    <3>3. PICK w \in Made : /\ save[w].session = save[u].session
                            /\ save[w].stage \in {"sent", "stored"}
      BY <2>2, <3>2 DEF OneRuns, Runs
    <3>4. save'[w] = save[w]
      BY <1>5, <3>1, <3>3
    <3> QED BY <3>2, <3>3, <3>4
  <2> QED BY <1>1, <1>3, <2>1, <2>2 DEF OneRuns, Runs
<1>11. \A q : SavedIn(q)' = {u \in Made : save[u].session = q
                                /\ (save[u].stage = "saved" \/ (u = t /\ st = "saved"))}
  <2>1. ASSUME NEW u \in Made
        PROVE  save'[u].stage = "saved" <=> save[u].stage = "saved" \/ (u = t /\ st = "saved")
    <3>1. CASE u = t
      BY <1>2, <3>1
    <3>2. CASE u # t
      BY <1>4, <1>5, <3>2
    <3> QED BY <3>1, <3>2
  <2> QED BY <1>1, <1>3, <2>1 DEF SavedIn
<1>12. \A q : q # s \/ st # "saved" => SavedIn(q)' = SavedIn(q)
  BY <1>0, <1>11 DEF SavedIn
<1>13. st = "saved" => SavedIn(s)' = SavedIn(s) \cup {t}
  BY <1>0, <1>11 DEF SavedIn
<1>14. \A q, p : Before(q, p)' <=> Before(q, p)
  BY <1>1, <1>3 DEF Before
<1>15. \A q, p : q # s \/ st # "saved" => (BoundTo(q, p)' <=> BoundTo(q, p))
  BY <1>12, <1>14 DEF BoundTo
<1>16. st = "saved" => BoundTo(s, t)'
  <2>1. \A u \in SavedIn(s) : u < t
    BY <1>2, <1>4 DEF SavedIn
  <2> QED BY <1>1, <1>13, <2>1 DEF BoundTo, SavedIn
<1>17. BoundTo(session, prior)'
  <2>1. CASE session' = session + 1 /\ prior' = None
    <3>1. SavedIn(session)' = {}
      <4>1. \A u \in Made : save[u].session \in Nat /\ save[u].session <= session
        BY SaveFacts DEF SaveAges
      <4>2. \A u \in Made : save[u].session # session + 1
        BY <1>1, <4>1
      <4> QED BY <1>1, <1>3, <2>1, <4>2 DEF SavedIn
    <3> QED BY <2>1, <3>1 DEF BoundTo, Before
  <2>2. CASE session' = session /\ st = "saved" /\ s = session
    <3>1. prior' = t /\ session' = s
      BY <1>0, <2>2
    <3> QED BY <1>16, <2>2, <3>1 DEF BoundTo, SavedIn, Before
  <2>3. CASE session' = session /\ ~(st = "saved" /\ s = session)
    <3>0. PICK p : p = prior
      OBVIOUS
    <3>1. PICK q : q = session
      OBVIOUS
    <3>2. BoundTo(q, p)
      BY <3>0, <3>1 DEF Binding
    <3>3. BoundTo(q, p)'
      BY <1>15, <2>3, <3>1, <3>2
    <3>4. session' = q /\ prior' = p
      BY <1>0, <1>1, <2>3, <3>0, <3>1
    <3> QED BY <3>3, <3>4, BoundNext
  <2> QED BY <2>1, <2>2, <2>3
<1>18. Binding'
  <2>1. ASSUME NEW u \in Made, save[u].session # s
        PROVE  /\ save'[u].stage = "sent" => BoundTo(save[u].session, save[u].prior)'
               /\ save'[u].stage = "waiting" /\ SavedIn(save[u].session)' = {} =>
                     Before(save[u].session, save[u].prior)'
    <3>1. save'[u] = save[u]
      BY <1>5, <2>1
    <3>2. save[u].stage = "sent" => BoundTo(save[u].session, save[u].prior)
      BY DEF Binding
    <3>3. save[u].stage = "waiting" /\ SavedIn(save[u].session) = {} =>
             Before(save[u].session, save[u].prior)
      BY DEF Binding
    <3>a. PICK q : q = save[u].session
      OBVIOUS
    <3>b. PICK p : p = save[u].prior
      OBVIOUS
    <3>c. save'[u].session = q /\ save'[u].prior = p
      BY <3>1, <3>a, <3>b
    <3>4. save'[u].stage = "sent" => BoundTo(save[u].session, save[u].prior)'
      <4>1. save'[u].stage = "sent" => BoundTo(q, p)
        BY <3>1, <3>2, <3>a, <3>b
      <4>2. save'[u].stage = "sent" => BoundTo(q, p)'
        BY <1>15, <2>1, <3>a, <4>1
      <4> QED BY <3>c, <4>2, BoundNext
    <3>5. save'[u].stage = "waiting" /\ SavedIn(save[u].session)' = {} =>
             Before(save[u].session, save[u].prior)'
      <4>1. save'[u].stage = "waiting" /\ SavedIn(q) = {} => Before(q, p)
        BY <3>1, <3>3, <3>a, <3>b
      <4>2. save'[u].stage = "waiting" /\ SavedIn(q)' = {} => Before(q, p)'
        BY <1>12, <1>14, <2>1, <3>a, <4>1
      <4> QED BY <3>c, <4>2, BoundNext
    <3> QED BY <3>4, <3>5
  <2>2. ASSUME NEW u \in Made, save[u].session = s
        PROVE  save'[u].stage # "waiting"
    BY <1>2, <1>4, <2>2
  <2>3. ASSUME NEW u \in Made, save[u].session = s, save'[u].stage = "sent"
        PROVE  BoundTo(save[u].session, save[u].prior)'
    <3>1. u # t /\ u \in Waits(save[t].session)
      <4>1. u # t
        BY <1>2, <2>3
      <4>2. save[u].stage = "waiting"
        BY <1>4, <2>3, <4>1
      <4> QED BY <1>0, <2>3, <4>1, <4>2 DEF Waits
    <3>2. \/ s = session' /\ save'[u].prior = prior'
          \/ /\ s # session'
             /\ save'[u].prior = IF st = "saved" THEN t
                                 ELSE IF LatestSaved(s) = None THEN save[u].prior
                                 ELSE LatestSaved(s)
      BY <1>0, <2>3, <3>1 DEF Settles
    <3>3. save'[u].session = s
      BY <1>3, <2>3
    <3>a. PICK p : p = save'[u].prior
      OBVIOUS
    <3>4. CASE s = session'
      <4>1. p = prior'
        BY <3>2, <3>4, <3>a
      <4> QED BY <1>17, <3>3, <3>4, <3>a, <4>1 DEF BoundTo, SavedIn, Before
    <3>5. CASE s # session' /\ st = "saved"
      <4>1. p = t
        BY <3>2, <3>5, <3>a
      <4>2. BoundTo(s, p)'
        BY <1>16, <3>5, <4>1
      <4> QED BY <3>3, <3>a, <4>2, BoundNext
    <3>6. CASE s # session' /\ st # "saved"
      <4>1. SavedIn(s) = {} => BoundTo(s, p)
        <5> SUFFICES ASSUME SavedIn(s) = {} PROVE BoundTo(s, p)
          OBVIOUS
        <5>1. p = save[u].prior
          BY <3>2, <3>6, <3>a, LatestIs
        <5>2. Before(s, p)
          BY <2>3, <3>1, <5>1 DEF Binding, Waits
        <5> QED BY <5>2 DEF BoundTo
      <4>2. SavedIn(s) # {} => BoundTo(s, p)
        <5> SUFFICES ASSUME SavedIn(s) # {} PROVE BoundTo(s, p)
          OBVIOUS
        <5>1. p = LatestSaved(s)
          BY <3>2, <3>6, <3>a, LatestIs
        <5> QED BY <5>1, LatestIs DEF BoundTo
      <4>3. BoundTo(s, p)'
        <5>1. BoundTo(s, p)
          BY <4>1, <4>2
        <5> QED BY <1>15, <3>6, <5>1
      <4> QED BY <3>3, <3>a, <4>3, BoundNext
    <3> QED BY <3>4, <3>5, <3>6
  <2> QED BY <1>1, <1>17, <2>1, <2>2, <2>3 DEF Binding
<1>19. Folder'
  <2>1. \A q : Unheard(q) => Unheard(q)'
    BY <1>1, <1>3, <1>7 DEF Unheard
  <2>2. ASSUME NEW d \in drafts
        PROVE  /\ save'[d].stage \in {"stored", "saved", "lost"}
               /\ \/ Unheard(save[d].session)'
                  \/ \A u \in Made :
                        save'[u].session = save'[d].session
                        /\ save'[u].stage \in {"stored", "saved"} => u <= d
    <3>1. /\ d \in Made /\ save[d].stage \in {"stored", "saved", "lost"}
          /\ save'[d].session = save[d].session
      BY <1>3 DEF QueueType, Folder
    <3>2. save'[d].stage \in {"stored", "saved", "lost"}
      <4>1. CASE d = t
        BY <1>2, <3>1, <4>1
      <4>2. CASE d # t
        BY <1>4, <1>5, <3>1, <4>2
      <4> QED BY <4>1, <4>2
    <3>3. CASE Unheard(save[d].session)
      BY <2>1, <3>1, <3>2, <3>3 DEF Unheard
    <3>4. CASE \A u \in Made : save[u].session = save[d].session
                  /\ save[u].stage \in {"stored", "saved"} => u <= d
      BY <1>3, <1>7, <3>1, <3>2, <3>4
    <3> QED BY <3>3, <3>4 DEF Folder
  <2> QED BY <1>1, <2>2 DEF Folder, Unheard
<1>20. OneDraft'
  BY <1>8, <1>19, FolderOneDraft, PTL
<1>21. Calm
  <2>1. ASSUME NEW u \in Made PROVE Keeps(u)
    <3>1. CASE u = t
      BY <1>2, <1>3, <3>1 DEF Keeps
    <3>2. CASE u # t
      BY <1>3, <1>4, <1>5, <3>2 DEF Keeps
    <3> QED BY <3>1, <3>2
  <2> QED BY <1>1, <2>1 DEF Calm, Made
<1>22. st # "saved" \/ save[t].session # session => SavedKept
  <2>1. ASSUME st # "saved" \/ s # session, NEW u \in Made, save[u].session = session
        PROVE  save'[u].stage = "saved" <=> save[u].stage = "saved"
    <3>1. CASE u = t
      BY <1>0, <1>2, <2>1, <3>1
    <3>2. CASE u # t
      BY <1>4, <1>5, <3>2
    <3> QED BY <3>1, <3>2
  <2> QED BY <1>0, <1>1, <1>3, <2>1 DEF SavedKept, Made
<1> QED BY <1>8, <1>9, <1>10, <1>18, <1>19, <1>20, <1>21, <1>22

(***************************************************************************)
(* The operations.                                                         *)
(***************************************************************************)

PaneType ==
    /\ form \in Nat /\ words \in Nat /\ edits \in Nat
    /\ mounted \in BOOLEAN /\ dialog \in BOOLEAN
    /\ saved \in Nat \cup {None} /\ queuedAs \in Nat \cup {None}
    /\ gate \in {None, "delivery", "discard", "save-close"}
    /\ adrift \subseteq Begun

OpType ==
    /\ ops \in Nat /\ ops <= MaxOps
    /\ op \in [Ops -> OpRecords \cup {NoOp}]
    /\ \A o \in Begun : op[o] \in OpRecords

OpAges == \A o \in Begun :
    /\ op[o].session <= session /\ op[o].form <= form
    /\ op[o].session = session => op[o].form = form

OpInv == OpType /\ OpAges /\ Asking /\ NoDraftLeftBehind

\* Core, sorted by what it is about.
LEMMA InvParts == Core <=> DraftInv /\ PaneType /\ OpInv /\ GateInv
  BY DEF Core, DraftInv, PaneType, OpInv, TypeOK, QueueType, OpType, Ages, SaveAges,
         OpAges

\* What Ages, Asking and NoDraftLeftBehind say of an operation r.
Dated(r) == /\ r \in OpRecords /\ r.session <= session /\ r.form <= form
            /\ r.session = session => r.form = form

Asks(r) == r.kind \in {"send", "discard"} =>
    /\ r.stage # "saving"
    /\ \/ r.stage = "draining" /\ r.save = None
       \/ r.stage \in {"requested", "accepted", "finished"}
       => Pending(r.session) = {}
    /\ \/ r.stage = "draining" /\ r.kind = "send" /\ r.session = session
       \/ r.stage = "requested"
       => BoundTo(r.session, r.prior)
    /\ r.stage = "finished" => r.session < session

Takings(r) == r.kind \in {"send", "discard"} /\ r.stage \in {"accepted", "finished"} =>
    \A d \in drafts : save[d].session = r.session => Unheard(r.session)

Fits(r) == Dated(r) /\ Asks(r) /\ Takings(r)

\* OpInv is about every operation by itself.
LEMMA OpInvIs ==
    OpInv <=> /\ ops \in Nat /\ ops <= MaxOps
              /\ op \in [Ops -> OpRecords \cup {NoOp}]
              /\ \A o \in Begun : Fits(op[o])
<1>1. OpInv => \A o \in Begun : Fits(op[o])
  BY DEF OpInv, OpType, OpAges, Asking, NoDraftLeftBehind, Fits, Dated, Asks, Takings,
         Owned
<1>2. (\A o \in Begun : Fits(op[o])) => OpAges /\ Asking /\ NoDraftLeftBehind
                                        /\ \A o \in Begun : op[o] \in OpRecords
  BY DEF OpAges, Asking, NoDraftLeftBehind, Fits, Dated, Asks, Takings, Owned
<1> QED BY <1>1, <1>2 DEF OpInv, OpType

\* The fields of an operation.
LEMMA OpFacts ==
    ASSUME OpType
    PROVE  /\ \A o \in Begun :
                /\ o \in Nat /\ 1 <= o /\ o <= ops /\ o \in Ops
                /\ op[o] \in OpRecords
                /\ op[o].session \in Nat /\ op[o].form \in Nat
                /\ op[o].kind \in OpKinds /\ op[o].stage \in OpStages
                /\ op[o].save \in Saves \cup {None}
                /\ op[o].prior \in Saves \cup {None}
           /\ Begun \subseteq Ops
<1>1. MaxOps \in Nat
  BY Bounds
<1>2. \A o \in Begun : o \in Nat /\ 1 <= o /\ o <= ops /\ o \in Ops
  BY <1>1 DEF OpType, Begun, Ops
<1>3. \A r \in OpRecords :
        /\ r.session \in Nat /\ r.form \in Nat /\ r.kind \in OpKinds
        /\ r.stage \in OpStages
        /\ r.save \in Saves \cup {None} /\ r.prior \in Saves \cup {None}
  BY DEF OpRecords
<1> QED BY <1>2, <1>3 DEF OpType

\* A step moves to a later session, or stays in the session and the form.
Onward == /\ session' \in Nat /\ form' \in Nat /\ session <= session' /\ form <= form'
          /\ session' = session => form' = form

\* A send waiting for the saves of the pane's session.
Drains(r) == r.stage = "draining" /\ r.kind = "send" /\ r.session = session

\* What an operation relies on outlives every step.
LEMMA FitsKept ==
    ASSUME Core, Calm, Onward, NEW o \in Begun, NEW r, r = op[o],
           SavedKept \/ session' # session \/ ~Drains(r)
    PROVE  Fits(r)'
<1> USE InvParts
<1>1. /\ r \in OpRecords /\ r.session \in Nat /\ r.form \in Nat
      /\ r.session <= session /\ r.form <= form /\ (r.session = session => r.form = form)
      /\ Asks(r) /\ Takings(r)
      /\ session \in Nat /\ form \in Nat
  BY OpInvIs, OpFacts DEF OpInv, Fits, Dated, DraftInv, QueueType, PaneType
<1>2. Dated(r)'
  BY <1>1 DEF Dated, Onward
<1>3. \A u \in Made : u \in 1 .. saves' /\ save'[u].session = save[u].session
  BY DEF Calm, Keeps, Joins, Made, DraftInv, QueueType
<1>4. ASSUME r.kind \in {"send", "discard"}, NEW u \in 1 .. saves',
             r.stage \in {"draining", "requested", "accepted", "finished"},
             save'[u].session = r.session
      PROVE  Keeps(u)
  <2>1. SUFFICES ASSUME Joins(u) PROVE FALSE
    BY DEF Calm
  <2>2. r.session = session /\ mounted /\ gate = None
    BY <1>4, <2>1 DEF Joins
  <2>3. r.stage # "finished"
    BY <1>1, <1>4, <2>2 DEF Asks
  <2>4. Takes(o) /\ op[o].form = form
    BY <1>1, <1>4, <2>2, <2>3 DEF Takes, Active
  <2>5. gate = GateOf(r.kind)
    BY <2>2, <2>4 DEF GateInv
  <2> QED BY <1>4, <2>2, <2>5, Bounds DEF GateOf
<1>5. ASSUME r.kind \in {"send", "discard"}, Pending(r.session) = {},
             r.stage \in {"draining", "requested", "accepted", "finished"}
      PROVE  /\ Pending(r.session)' = {}
             /\ SavedIn(r.session)' = SavedIn(r.session)
  <2>1. \A u \in Made : save[u].session = r.session =>
           save[u].stage \notin {"waiting", "sent", "stored"}
    BY <1>5 DEF Pending, Waits, Runs
  <2>2. \A u \in 1 .. saves' : save'[u].session = r.session =>
           /\ u \in Made /\ save[u].session = r.session
           /\ save'[u].stage \notin {"waiting", "sent", "stored"}
           /\ save'[u].stage = "saved" <=> save[u].stage = "saved"
    BY <1>4, <1>5, <2>1 DEF Keeps
  <2>3. Pending(r.session)' = {}
    BY <2>2 DEF Pending, Waits, Runs, Made
  <2>4. SavedIn(r.session)' = SavedIn(r.session)
    BY <1>3, <2>2 DEF SavedIn, Made
  <2> QED BY <2>3, <2>4
<1>6. \A q, p : Before(q, p) => Before(q, p)'
  BY <1>3 DEF Before, Made
<1>7. Asks(r)'
  <2> SUFFICES ASSUME r.kind \in {"send", "discard"}
               PROVE  /\ r.stage # "saving"
                      /\ \/ r.stage = "draining" /\ r.save = None
                         \/ r.stage \in {"requested", "accepted", "finished"}
                         => Pending(r.session)' = {}
                      /\ \/ r.stage = "draining" /\ r.kind = "send" /\ r.session = session'
                         \/ r.stage = "requested"
                         => BoundTo(r.session, r.prior)'
                      /\ r.stage = "finished" => r.session < session'
    BY DEF Asks
  <2>1. \/ r.stage = "draining" /\ r.save = None
        \/ r.stage \in {"requested", "accepted", "finished"}
        => Pending(r.session)' = {}
    BY <1>1, <1>5 DEF Asks
  <2>2. r.stage = "requested" => BoundTo(r.session, r.prior)'
    BY <1>1, <1>5, <1>6 DEF Asks, BoundTo
  <2>3. ASSUME r.stage = "draining", r.kind = "send", r.session = session'
        PROVE  BoundTo(r.session, r.prior)'
    <3>1. r.session = session /\ session' = session /\ SavedKept
      BY <1>1, <2>3 DEF Onward, Drains
    <3>2. SavedIn(r.session)' = SavedIn(r.session)
      BY <1>3, <3>1 DEF SavedIn, Made, SavedKept
    <3> QED BY <1>1, <1>6, <2>3, <3>1, <3>2 DEF Asks, BoundTo
  <2> QED BY <1>1, <2>1, <2>2, <2>3 DEF Asks, Onward
<1>8. Takings(r)'
  <2> SUFFICES ASSUME r.kind \in {"send", "discard"}, r.stage \in {"accepted", "finished"},
                      NEW d \in drafts', save'[d].session = r.session
               PROVE  Unheard(r.session)'
    BY DEF Takings
  <2>1. Pending(r.session) = {}
    BY <1>1 DEF Asks
  <2>2. d \in Made
    BY DEF Calm, DraftInv, QueueType
  <2>3. save[d].session = r.session
    BY <1>3, <2>2
  <2>4. save[d].stage \notin {"waiting", "sent", "stored"}
    BY <2>1, <2>2, <2>3 DEF Pending, Waits, Runs
  <2>5. Unheard(r.session)
    <3>1. CASE d \in drafts
      BY <1>1, <2>3, <3>1 DEF Takings
    <3>2. CASE save[d].stage = "late"
      BY <2>2, <2>3, <3>2 DEF Unheard
    <3> QED BY <2>4, <3>1, <3>2 DEF Calm
  <2>6. PICK u \in Made : save[u].session = r.session /\ save[u].stage \in {"late", "lost"}
    BY <2>5 DEF Unheard
  <2>7. save'[u].stage \in {"late", "lost"} /\ u \in 1 .. saves'
    BY <1>3, <1>4, <2>6 DEF Keeps
  <2> QED BY <1>3, <2>6, <2>7 DEF Unheard, Made
<1> QED BY <1>2, <1>7, <1>8 DEF Fits

\* What Fits says in the next state, of an operation named in this one.
LEMMA FitsNext ==
    ASSUME NEW o, NEW r, op'[o] = r, Fits(r)'
    PROVE  Fits(op[o])'
  BY DEF Fits, Dated, Asks, Takings, Pending, Waits, Runs, Unheard, BoundTo, SavedIn,
         Before, Made

\* Every operation stays as it is or is changed into one that fits.
LEMMA OpsStep ==
    ASSUME Core, Calm, Onward, ops' \in Nat, ops' <= MaxOps,
           op' \in [Ops -> OpRecords \cup {NoOp}],
           \A o \in 1 .. ops' :
              \/ /\ o \in Begun /\ op'[o] = op[o]
                 /\ SavedKept \/ session' # session \/ ~Drains(op[o])
              \/ Fits(op[o])'
    PROVE  OpInv'
<1>1. ASSUME NEW o \in 1 .. ops' PROVE Fits(op[o])'
  <2>1. CASE /\ o \in Begun /\ op'[o] = op[o]
             /\ SavedKept \/ session' # session \/ ~Drains(op[o])
    <3>1. PICK r : r = op[o]
      OBVIOUS
    <3>2. SavedKept \/ session' # session \/ ~Drains(r)
      BY <2>1, <3>1
    <3>3. Fits(r)'
      BY <2>1, <3>1, <3>2, FitsKept
    <3> QED BY <2>1, <3>1, <3>3, FitsNext
  <2> QED BY <2>1
<1>2. (\A o \in Begun : Fits(op[o]))'
  BY <1>1 DEF Begun
<1>3. (/\ ops \in Nat /\ ops <= MaxOps
       /\ op \in [Ops -> OpRecords \cup {NoOp}])'
  OBVIOUS
<1> QED BY <1>2, <1>3, OpInvIs, PTL

\* No operation changes.
LEMMA OpsSame ==
    ASSUME Core, Calm, Onward, UNCHANGED work, SavedKept \/ session' # session
    PROVE  OpInv'
<1>1. op' = op /\ ops' = ops
  BY DEF work
<1>2. OpType
  BY InvParts DEF OpInv
<1>3. \A o \in 1 .. ops' : o \in Begun /\ op'[o] = op[o]
  BY <1>1 DEF Begun
<1>4. ops' \in Nat /\ ops' <= MaxOps /\ op' \in [Ops -> OpRecords \cup {NoOp}]
  BY <1>1, <1>2 DEF OpType
<1> QED BY <1>3, <1>4, OpsStep

\* One operation changes.
LEMMA OpChanges ==
    ASSUME Core, Calm, Onward, SavedKept \/ session' # session,
           NEW o \in Begun, NEW r \in OpRecords, ops' = ops,
           op' = [op EXCEPT ![o] = r], Fits(r)'
    PROVE  OpInv'
<1>1. OpType
  BY InvParts DEF OpInv
<1>2. o \in Ops /\ Begun \subseteq Ops
  BY <1>1, OpFacts
<1>3. /\ op'[o] = r
      /\ \A q \in Begun : q # o => op'[q] = op[q]
      /\ op' \in [Ops -> OpRecords \cup {NoOp}]
      /\ ops' \in Nat /\ ops' <= MaxOps
  BY <1>1, <1>2 DEF OpType
<1>4. Fits(op[o])'
  BY <1>3, FitsNext
<1>5. \A q \in 1 .. ops' : (q \in Begun /\ op'[q] = op[q]) \/ Fits(op[q])'
  BY <1>3, <1>4 DEF Begun
<1> QED BY <1>3, <1>5, OpsStep

\* An operation begins.
LEMMA OpBegins ==
    ASSUME Core, Calm, Onward, SavedKept \/ session' # session,
           NEW r \in OpRecords, ops < MaxOps, ops' = ops + 1,
           op' = [op EXCEPT ![ops + 1] = r], Fits(r)'
    PROVE  OpInv'
<1>1. OpType /\ MaxOps \in Nat
  BY InvParts, Bounds DEF OpInv
<1>2. ops \in Nat /\ ops + 1 \in Ops /\ Begun \subseteq Ops /\ ops + 1 \notin Begun
      /\ 1 .. ops' = Begun \cup {ops + 1}
  BY <1>1 DEF OpType, Ops, Begun
<1>3. /\ op'[ops + 1] = r
      /\ \A q \in Begun : op'[q] = op[q]
      /\ op' \in [Ops -> OpRecords \cup {NoOp}]
      /\ ops' \in Nat /\ ops' <= MaxOps
  BY <1>1, <1>2 DEF OpType
<1>4. \A q \in 1 .. ops' : (q \in Begun /\ op'[q] = op[q]) \/ Fits(op[q])'
  <2>1. PICK o : o = ops + 1
    OBVIOUS
  <2>2. Fits(op[o])'
    BY <1>3, <2>1, FitsNext
  <2> QED BY <1>2, <1>3, <2>1, <2>2
<1> QED BY <1>3, <1>4, OpsStep

(***************************************************************************)
(* The gate.                                                               *)
(***************************************************************************)

\* Neither the gate nor what is at work changes.
LEMMA GateSame ==
    ASSUME Core, ops' = ops, gate' = gate, form' = form,
           \A o \in Begun : /\ op'[o].kind = op[o].kind /\ op'[o].form = op[o].form
                            /\ op'[o].stage \in Active <=> op[o].stage \in Active,
           mounted' => mounted, dialog' => mounted' /\ gate \in {None, "save-close"}
    PROVE  GateInv'
<1>1. GateInv
  BY InvParts
<1>2. \A o \in Begun : /\ op'[o].kind = op[o].kind /\ op'[o].form = op[o].form
                       /\ Takes(o)' <=> Takes(o)
                       /\ GateOf(op[o].kind)' = GateOf(op[o].kind)
                       /\ op'[o].stage \in Active <=> op[o].stage \in Active
  BY DEF Takes, GateOf, Active
<1>3. \A o \in Begun : Takes(o)' /\ op'[o].form = form' /\ mounted' =>
          gate' = GateOf(op[o].kind)'
  BY <1>1, <1>2 DEF GateInv
<1>4. \A o, q \in Begun : Takes(o)' /\ Takes(q)' /\ op'[o].form = op'[q].form => o = q
  BY <1>1, <1>2 DEF GateInv
<1>5. gate' # None => \E o \in Begun :
          /\ op'[o].form = form' /\ GateOf(op[o].kind)' = gate'
          /\ op'[o].stage \in Active
  BY <1>1, <1>2 DEF GateInv
<1> QED BY <1>3, <1>4, <1>5 DEF GateInv, Begun, Takes, GateOf, Active

\* An operation takes the gate.
LEMMA GateShuts ==
    ASSUME Core, NEW r \in OpRecords, r.form = form, r.stage \in Active, ops < MaxOps,
           gate = None, gate' = GateOf(r.kind), ops' = ops + 1,
           op' = [op EXCEPT ![ops + 1] = r], form' = form,
           mounted, dialog' => mounted' /\ GateOf(r.kind) = "save-close"
    PROVE  GateInv'
<1>1. GateInv /\ OpType /\ MaxOps \in Nat
  BY InvParts, Bounds DEF OpInv
<1>2. PICK n : n = ops + 1
  OBVIOUS
<1>3. n \in Ops /\ Begun \subseteq Ops /\ n \notin Begun /\ 1 .. ops' = Begun \cup {n}
  BY <1>1, <1>2 DEF OpType, Ops, Begun
<1>4. op'[n] = r /\ \A q \in Begun : op'[q] = op[q]
  BY <1>1, <1>2, <1>3 DEF OpType
<1>5. \A o \in Begun : op[o].form = form /\ op[o].kind \in {"send", "discard"} =>
         op[o].stage \notin Active
  <2> SUFFICES ASSUME NEW o \in Begun, op[o].form = form, Takes(o) PROVE FALSE
    BY DEF Takes
  <2>1. gate = GateOf(op[o].kind)
    BY <1>1 DEF GateInv
  <2> QED BY <2>1, Bounds DEF GateOf, Takes
<1>6. \A o \in 1 .. ops' : op'[o].kind \in {"send", "discard"} /\ op'[o].stage \in Active
         /\ op'[o].form = form => o = n
  BY <1>3, <1>4, <1>5
<1>7. \A o \in 1 .. ops' : op'[o].kind \in {"send", "discard"} /\ op'[o].stage \in Active
         /\ op'[o].form = form => gate' = GateOf(op'[o].kind)
  BY <1>4, <1>6
<1>8. ASSUME NEW o \in 1 .. ops', NEW q \in 1 .. ops',
             op'[o].kind \in {"send", "discard"}, op'[o].stage \in Active,
             op'[q].kind \in {"send", "discard"}, op'[q].stage \in Active,
             op'[o].form = op'[q].form
      PROVE  o = q
  <2>1. CASE op'[o].form = form
    BY <1>6, <1>8, <2>1
  <2>2. CASE op'[o].form # form
    <3>1. o \in Begun /\ q \in Begun /\ op'[o] = op[o] /\ op'[q] = op[q]
      BY <1>3, <1>4, <1>8, <2>2
    <3> QED BY <1>1, <1>8, <3>1 DEF GateInv, Takes
  <2> QED BY <2>1, <2>2
<1>9. \E o \in 1 .. ops' : /\ op'[o].form = form /\ GateOf(op'[o].kind) = gate'
                           /\ op'[o].stage \in Active
  BY <1>3, <1>4
<1> QED BY <1>7, <1>8, <1>9 DEF GateInv, Begun, Takes, GateOf, Active

\* An operation ends and opens the gate it holds.
LEMMA GateOpens ==
    ASSUME Core, NEW o \in Begun, op[o].stage \in Active, Release(o),
           NEW x, x \notin Active, op' = [op EXCEPT ![o].stage = x], ops' = ops,
           form' = form, mounted' => mounted, dialog' => mounted' /\ dialog
    PROVE  GateInv'
<1>1. GateInv /\ OpType
  BY InvParts DEF OpInv
<1>2. o \in Ops /\ Begun \subseteq Ops
  BY <1>1, OpFacts
<1>3. /\ \A q \in Begun : q # o => op'[q] = op[q]
      /\ op'[o].stage = x
      /\ \A q \in Begun : op'[q].kind = op[q].kind /\ op'[q].form = op[q].form
  <2>1. op[o] \in OpRecords
    BY <1>1, OpFacts
  <2>2. op'[o] = [op[o] EXCEPT !.stage = x]
    BY <1>1, <1>2 DEF OpType
  <2> QED BY <1>1, <1>2, <2>1, <2>2 DEF OpType, OpRecords
<1>4. gate' = IF op[o].form = form /\ gate = GateOf(op[o].kind) THEN None ELSE gate
  BY DEF Release
<1>5. ASSUME NEW q \in Begun, op'[q].kind \in {"send", "discard"}, op'[q].stage \in Active,
             op'[q].form = form, mounted
      PROVE  gate' = GateOf(op'[q].kind)
  <2>1. q # o /\ op'[q] = op[q]
    BY <1>3, <1>5
  <2>2. Takes(q) /\ op[q].form = form
    BY <1>5, <2>1 DEF Takes
  <2>3. gate = GateOf(op[q].kind)
    BY <1>1, <1>5, <2>2 DEF GateInv
  <2>4. ~(op[o].form = form /\ gate = GateOf(op[o].kind))
    <3> SUFFICES ASSUME op[o].form = form, GateOf(op[o].kind) = GateOf(op[q].kind)
                 PROVE  FALSE
      BY <2>3
    <3>1. op[o].kind \in OpKinds
      BY <1>1, OpFacts
    <3>2. op[o].kind \in {"send", "discard"}
      BY <2>2, <3>1 DEF GateOf, Takes, OpKinds
    <3>3. Takes(o)
      BY <3>2 DEF Takes
    <3> QED BY <1>1, <2>1, <2>2, <3>3 DEF GateInv
  <2> QED BY <1>4, <2>1, <2>3, <2>4
<1>6. ASSUME NEW p \in Begun, NEW q \in Begun,
             op'[p].kind \in {"send", "discard"}, op'[p].stage \in Active,
             op'[q].kind \in {"send", "discard"}, op'[q].stage \in Active,
             op'[p].form = op'[q].form
      PROVE  p = q
  <2>1. p # o /\ q # o
    BY <1>3, <1>6
  <2> QED BY <1>1, <1>3, <1>6, <2>1 DEF GateInv, Takes
<1>7. dialog' => mounted' /\ gate' \in {None, "save-close"}
  BY <1>1, <1>4 DEF GateInv
<1>8. ASSUME gate' # None
      PROVE  \E q \in Begun : /\ op'[q].form = form /\ GateOf(op'[q].kind) = gate'
                              /\ op'[q].stage \in Active
  <2>1. gate' = gate /\ ~(op[o].form = form /\ gate = GateOf(op[o].kind))
    BY <1>4, <1>8
  <2>2. PICK q \in Begun : /\ op[q].form = form /\ GateOf(op[q].kind) = gate
                           /\ op[q].stage \in Active
    BY <1>1, <1>8, <2>1 DEF GateInv
  <2>3. q # o
    BY <2>1, <2>2
  <2> QED BY <1>3, <2>1, <2>2, <2>3
<1> QED BY <1>5, <1>6, <1>7, <1>8 DEF GateInv, Begun, Takes, GateOf, Active

(***************************************************************************)
(* The actions.                                                            *)
(***************************************************************************)

\* The four parts make Core.
LEMMA InvNext ==
    ASSUME DraftInv', PaneType', OpInv', GateInv'
    PROVE  Core'
  BY InvParts, PTL

\* The types of the variables, in one place.
LEMMA Types ==
    ASSUME Core
    PROVE  /\ session \in Nat /\ form \in Nat /\ words \in Nat /\ edits \in Nat
           /\ saves \in Nat /\ ops \in Nat
           /\ mounted \in BOOLEAN /\ dialog \in BOOLEAN
           /\ prior \in Saves \cup {None}
           /\ saved \in Nat \cup {None} /\ queuedAs \in Nat \cup {None}
           /\ gate \in {None, "delivery", "discard", "save-close"}
           /\ drafts \subseteq Made /\ adrift \subseteq Begun
           /\ QueueType /\ OpType /\ PaneType /\ DraftInv /\ OpInv /\ GateInv /\ OneRuns
  BY InvParts DEF DraftInv, PaneType, QueueType, OpInv, OpType

\* With the queue at rest nothing settled moves.
LEMMA Rest ==
    ASSUME Core, UNCHANGED queue, drafts' \subseteq drafts
    PROVE  Calm /\ SavedKept
<1>1. save' = save /\ saves' = saves /\ saves \in Nat
  BY Types DEF queue
<1> QED BY <1>1 DEF Calm, Keeps, SavedKept, Made

\* A step of the pane alone, in its session.
LEMMA PaneAlone ==
    ASSUME Core, UNCHANGED <<session, form, prior, gate, queue, work, drafts>>,
           words' \in Nat, edits' \in Nat, mounted' \in BOOLEAN, dialog' \in BOOLEAN,
           saved' \in Nat \cup {None}, queuedAs' \in Nat \cup {None},
           adrift' \subseteq Begun,
           mounted' => mounted, dialog' => mounted' /\ gate \in {None, "save-close"}
    PROVE  Core'
<1>1. DraftInv'
  BY Types, PaneStep
<1>2. PaneType'
  BY Types DEF PaneType, work, Begun
<1>3. Onward
  BY Types DEF Onward
<1>4. OpInv'
  BY <1>3, Rest, OpsSame
<1>5. GateInv'
  BY GateSame DEF work
<1> QED BY <1>1, <1>2, <1>4, <1>5, InvNext

\* What ClearForm leaves.
LEMMA Cleared ==
    ASSUME Core, NEW f, ClearForm(f)
    PROVE  /\ session' = session + 1 /\ session' \in Nat /\ form' = form
           /\ prior' = None /\ words' = 0
           /\ saved' \in Nat \cup {None} /\ queuedAs' = queuedAs
           /\ mounted' \in BOOLEAN /\ dialog' \in BOOLEAN
           /\ mounted' => mounted
           /\ dialog' => mounted' /\ dialog
           /\ Onward /\ session' # session
  BY Types DEF ClearForm, Onward, GateInv

\* A composer opens.
LEMMA OpensKeeps ==
    ASSUME Core, NEW d \in drafts \cup {None}, Opens(d)
    PROVE  Core'
<1>1. /\ session' = session + 1 /\ form' = form + 1 /\ prior' = d
      /\ gate' = None /\ dialog' = FALSE /\ mounted' = TRUE /\ queuedAs' = None
      /\ UNCHANGED queue /\ UNCHANGED work /\ drafts' = drafts
      /\ adrift' = adrift /\ edits' = edits
      /\ words' = IF d = None THEN 0 ELSE save[d].words
      /\ saved' = IF d = None THEN None ELSE save[d].words
  BY DEF Opens, past
<1>2. d # None => save[d].words \in Nat
  BY Types, SaveFacts
<1>3. DraftInv'
  BY <1>1, Types, PaneStep
<1>4. PaneType'
  <2>1. words' \in Nat /\ saved' \in Nat \cup {None}
    BY <1>1, <1>2
  <2>2. form' \in Nat /\ edits' \in Nat /\ adrift' \subseteq 1 .. ops'
    BY <1>1, Types DEF work, Begun
  <2> QED BY <1>1, <2>1, <2>2 DEF PaneType, Begun
<1>5. Onward /\ session' # session
  BY <1>1, Types DEF Onward
<1>6. OpInv'
  BY <1>1, <1>5, Rest, OpsSame
<1>7. GateInv'
  <2>1. op' = op /\ ops' = ops
    BY <1>1 DEF work
  <2>2. \A o \in Begun : op[o].form <= form /\ op[o].form \in Nat
    BY Types, OpFacts DEF OpInv, OpAges
  <2>3. \A o \in Begun : op[o].form # form'
    BY <1>1, <2>2, Types
  <2> QED BY <1>1, <2>1, <2>3, Types DEF GateInv, Begun, Takes
<1> QED BY <1>3, <1>4, <1>6, <1>7, InvNext

\* The form is cleared, and nothing else happens.
LEMMA ClearKeeps ==
    ASSUME Core, NEW f, ClearForm(f),
           UNCHANGED <<gate, queue, work, drafts, past>>
    PROVE  Core'
<1>1. DraftInv'
  BY Cleared, Types, PaneStep
<1>2. PaneType'
  BY Cleared, Types DEF PaneType, work, past, Begun
<1>3. OpInv'
  BY Cleared, Rest, OpsSame
<1>4. GateInv'
  <2>1. dialog => gate \in {None, "save-close"}
    BY Types DEF GateInv
  <2> QED BY <2>1, Cleared, GateSame DEF work
<1> QED BY <1>1, <1>2, <1>3, <1>4, InvNext

\* An edit.
LEMMA EditsKeeps ==
    ASSUME Core, Edits
    PROVE  Core'
<1>1. /\ UNCHANGED <<session, form, prior, gate, queue, work, drafts>>
      /\ words' = edits + 1 /\ edits' = edits + 1
      /\ UNCHANGED <<mounted, dialog, saved, queuedAs, adrift>> /\ ~dialog
  BY DEF Edits
<1> QED BY <1>1, Types, PaneAlone

\* A save queued by itself.
LEMMA PlainSaveKeeps ==
    ASSUME Core, NEW kind \in SaveKinds, Queue(kind), mounted, gate = None,
           UNCHANGED <<session, form, mounted, words, prior, saved, gate, dialog,
                       work, drafts, past>>
    PROVE  Core'
<1>1. DraftInv' /\ Calm /\ SavedKept
  BY Types, QueueGives, QueueStep
<1>2. PaneType'
  BY Types DEF PaneType, work, past, Begun, Queue
<1>3. OpInv'
  BY <1>1, Types, OpsSame DEF Onward
<1>4. GateInv'
  <2>1. dialog => mounted
    BY Types DEF GateInv
  <2> QED BY <2>1, GateSame DEF work
<1> QED BY <1>1, <1>2, <1>3, <1>4, InvNext

\* The server stores a save.
LEMMA StoresKeeps ==
    ASSUME Core, NEW t, Stores(t)
    PROVE  Core'
<1>1. UNCHANGED <<pane, gate, work, past>>
  BY DEF Stores
<1>2. DraftInv' /\ Calm /\ SavedKept
  BY <1>1, Types, StoresStep DEF pane
<1>3. PaneType'
  BY <1>1, Types DEF PaneType, pane, work, past, Begun
<1>4. OpInv'
  BY <1>1, <1>2, Types, OpsSame DEF Onward, pane
<1>5. GateInv'
  <2>1. dialog => mounted /\ gate \in {None, "save-close"}
    BY Types DEF GateInv
  <2> QED BY <1>1, <2>1, GateSame DEF work, pane
<1> QED BY <1>2, <1>3, <1>4, <1>5, InvNext

\* A save settles: what each of its ends makes of the pane and the operations.
LEMMA SavedKeeps ==
    ASSUME Core, NEW t, Saved(t)
    PROVE  Core'
<1>1. /\ t \in Made /\ save[t].stage = "stored" /\ SettlesAs(t, "saved")
      /\ UNCHANGED <<session, form, mounted, words, queuedAs, gate, dialog,
                     saves, ops, drafts, past>>
      /\ prior' = IF save[t].session = session THEN t ELSE prior
      /\ saved' = IF save[t].session = session THEN save[t].words ELSE saved
      /\ Settle(t, "saved", session, words, prior')
      /\ op' = [o \in Ops |->
                   IF /\ save[t].session = session /\ op[o].kind = "send"
                      /\ op[o].session = session /\ op[o].stage = "draining"
                   THEN [op[o] EXCEPT !.prior = t] ELSE op[o]]
  BY DEF Saved, SettlesAs
<1>2. t \in Saves /\ save[t].words \in Nat /\ t # None /\ t \in Nat
  BY <1>1, Types, SaveFacts
<1>3. prior' \in Saves \cup {None} /\ session' \in Nat /\ words' \in Nat
  BY <1>1, <1>2, Types
<1>4. Settles(t, "saved")
  <2>1. Settle(t, "saved", session', words', prior')
    BY <1>1
  <2> QED BY <1>1, <1>3, <2>1, Types, SettleGives
<1>5. /\ DraftInv' /\ Calm
      /\ save[t].session # session => SavedKept
  BY <1>1, <1>3, <1>4, Types, SettleStep
<1>6. PaneType'
  BY <1>1, <1>2, Types DEF PaneType, past, Begun
<1>7. ops \in Nat /\ ops <= MaxOps /\ Begun \subseteq Ops
  BY Types, OpFacts DEF OpType
<1>8. Onward
  BY <1>1, Types DEF Onward
<1>9. op' \in [Ops -> OpRecords \cup {NoOp}]
  <2>1. ASSUME NEW o \in Ops
        PROVE  op'[o] \in OpRecords \cup {NoOp}
    <3>1. op[o] \in OpRecords \cup {NoOp}
      BY Types DEF OpType
    <3>2. CASE /\ save[t].session = session /\ op[o].kind = "send"
               /\ op[o].session = session /\ op[o].stage = "draining"
      <4>1. ~(NoOp.kind = "send" /\ NoOp.stage = "draining")
        BY DEF NoOp
      <4>2. op[o] \in OpRecords
        BY <3>1, <3>2, <4>1
      <4>3. [op[o] EXCEPT !.prior = t] \in OpRecords
        BY <1>2, <4>2 DEF OpRecords
      <4> QED BY <1>1, <3>2, <4>3
    <3>3. CASE ~(/\ save[t].session = session /\ op[o].kind = "send"
                 /\ op[o].session = session /\ op[o].stage = "draining")
      BY <1>1, <3>1, <3>3
    <3> QED BY <3>2, <3>3
  <2> QED BY <1>1, <2>1
<1>10. \A o \in Begun :
         /\ op'[o].kind = op[o].kind /\ op'[o].form = op[o].form
         /\ op'[o].session = op[o].session /\ op'[o].stage = op[o].stage
         /\ op'[o].save = op[o].save
         /\ op'[o] = op[o] \/ (save[t].session = session /\ Drains(op[o])
                               /\ op'[o] = [op[o] EXCEPT !.prior = t])
         /\ save[t].session = session /\ Drains(op[o]) => op'[o].prior = t
  <2>1. ASSUME NEW o \in Begun
        PROVE  /\ op[o] \in OpRecords /\ o \in Ops
    BY Types, OpFacts
  <2>2. ASSUME NEW r \in OpRecords, NEW q, q = [r EXCEPT !.prior = t]
        PROVE  /\ q.kind = r.kind /\ q.form = r.form /\ q.session = r.session
               /\ q.stage = r.stage /\ q.save = r.save /\ q.prior = t
    BY <2>2 DEF OpRecords
  <2> QED BY <1>1, <2>1, <2>2 DEF Drains
<1>11. OpInv'
  <2>1. ASSUME NEW o \in Begun
        PROVE  \/ op'[o] = op[o] /\ (SavedKept \/ ~Drains(op[o]))
               \/ Fits(op[o])'
    <3>1. CASE save[t].session # session
      BY <1>5, <1>10, <3>1
    <3>2. CASE save[t].session = session /\ ~Drains(op[o])
      BY <1>10, <3>2
    <3>3. CASE save[t].session = session /\ Drains(op[o])
      <4>1. PICK r : r = op'[o]
        OBVIOUS
      <4>2. /\ r.kind = "send" /\ r.stage = "draining" /\ r.session = session
            /\ r.prior = t /\ r.save = op[o].save /\ r.form = op[o].form
        BY <1>10, <3>3, <4>1 DEF Drains
      <4>3. o \in Ops /\ op[o] \in OpRecords
        BY Types, OpFacts
      <4>4. r \in OpRecords
        BY <1>2, <1>10, <4>1, <4>3 DEF OpRecords
      <4>5. Dated(r)'
        <5>1. Dated(op[o])
          BY Types, OpInvIs DEF Fits
        <5>2. op[o].session = session /\ session \in Nat
          BY <3>3, Types DEF Drains
        <5>3. session' = session /\ form' = form
          BY <1>1
        <5> QED BY <4>2, <4>4, <5>1, <5>2, <5>3 DEF Dated
      <4>6. Takings(r)'
        BY <4>2 DEF Takings
      <4>7. BoundTo(session, t)'
        <5>1. Binding'
          BY <1>5 DEF DraftInv
        <5>2. prior' = t
          BY <1>1, <3>3
        <5> QED BY <5>1, <5>2, <1>2 DEF Binding, BoundTo, Before, SavedIn
      <4>8. r.save # None
        <5>1. t \in Pending(op[o].session)
          BY <1>1, <3>3 DEF Pending, Runs, Drains
        <5>2. Asks(op[o])
          BY Types, OpInvIs DEF Fits
        <5> QED BY <3>3, <4>2, <5>1, <5>2 DEF Asks, Drains
      <4>9. Asks(r)'
        <5>1. BoundTo(r.session, r.prior)'
          BY <1>1, <4>2, <4>7 DEF BoundTo, Before, SavedIn, Made
        <5> QED BY <4>2, <4>8, <5>1 DEF Asks
      <4>10. Fits(r)'
        BY <4>5, <4>6, <4>9 DEF Fits
      <4> QED BY <4>1, <4>10, FitsNext
    <3> QED BY <3>1, <3>2, <3>3
  <2> QED BY <1>1, <1>5, <1>7, <1>8, <1>9, <2>1, OpsStep DEF Begun
<1>12. GateInv'
  <2>1. dialog => mounted /\ gate \in {None, "save-close"}
    BY Types DEF GateInv
  <2> QED BY <1>1, <1>10, <2>1, GateSame
<1> QED BY <1>5, <1>6, <1>11, <1>12, InvNext

LEMMA SaveFailsKeeps ==
    ASSUME Core, NEW t, SaveFails(t)
    PROVE  Core'
<1>1. t \in Made /\ UNCHANGED <<pane, gate, saves, work, drafts, past>>
  BY DEF SaveFails
<1>2. PICK st \in {"failed", "late", "lost"} :
          /\ save[t].stage = IF st = "lost" THEN "stored" ELSE "sent"
          /\ Settle(t, st, session, words, prior)
  BY DEF SaveFails
<1>3. SettlesAs(t, st) /\ st # "saved"
  BY <1>2 DEF SettlesAs
<1>4. /\ session' = session /\ words' = words /\ prior' = prior /\ form' = form
      /\ saves' = saves /\ drafts' = drafts
  BY <1>1 DEF pane
<1>5. Settles(t, st)
  <2>1. Settle(t, st, session', words', prior')
    BY <1>2, <1>4
  <2> QED BY <1>1, <1>3, <1>4, <2>1, Types, SettleGives
<1>6. DraftInv' /\ Calm /\ SavedKept
  BY <1>1, <1>3, <1>4, <1>5, Types, SettleStep
<1>7. PaneType'
  BY <1>1, Types DEF PaneType, pane, work, past, Begun
<1>8. OpInv'
  BY <1>1, <1>4, <1>6, Types, OpsSame DEF Onward
<1>9. GateInv'
  <2>1. dialog => mounted /\ gate \in {None, "save-close"}
    BY Types DEF GateInv
  <2> QED BY <1>1, <2>1, GateSame DEF work, pane
<1> QED BY <1>6, <1>7, <1>8, <1>9, InvNext

LEMMA SaveFindsNoDraftKeeps ==
    ASSUME Core, NEW t, SaveFindsNoDraft(t)
    PROVE  Core'
<1>1. /\ t \in Made /\ save[t].stage = "sent" /\ SettlesAs(t, "failed")
      /\ UNCHANGED <<gate, saves, work, drafts, past>>
  BY DEF SaveFindsNoDraft, SettlesAs
<1>2. CASE /\ ClearForm(save[t].form)
           /\ Settle(t, "failed", session + 1, 0, None)
  <2>1. Settles(t, "failed")
    <3>1. session' \in Nat /\ words' \in Nat /\ prior' \in Saves \cup {None}
      BY <1>2, Cleared
    <3>2. Settle(t, "failed", session', words', prior')
      BY <1>2, Cleared
    <3> QED BY <1>1, <3>1, <3>2, Types, SettleGives
  <2>2. DraftInv' /\ Calm
    BY <1>1, <1>2, <2>1, Cleared, Types, SettleStep
  <2>3. PaneType'
    BY <1>1, <1>2, Cleared, Types DEF PaneType, work, past, Begun
  <2>4. OpInv'
    BY <1>1, <1>2, <2>2, Cleared, OpsSame
  <2>5. GateInv'
    <3>1. dialog => gate \in {None, "save-close"}
      BY Types DEF GateInv
    <3> QED BY <1>1, <1>2, <3>1, Cleared, GateSame DEF work
  <2> QED BY <2>2, <2>3, <2>4, <2>5, InvNext
<1>3. CASE UNCHANGED pane /\ Settle(t, "failed", session, words, prior)
  <2>1. /\ session' = session /\ words' = words /\ prior' = prior /\ form' = form
        /\ saves' = saves /\ drafts' = drafts
    BY <1>1, <1>3 DEF pane
  <2>2. Settles(t, "failed")
    <3>1. Settle(t, "failed", session', words', prior')
      BY <1>3, <2>1
    <3> QED BY <1>1, <2>1, <3>1, Types, SettleGives
  <2>3. DraftInv' /\ Calm /\ SavedKept
    BY <1>1, <2>1, <2>2, Types, SettleStep
  <2>4. PaneType'
    BY <1>1, <1>3, Types DEF PaneType, pane, work, past, Begun
  <2>5. OpInv'
    BY <1>1, <2>1, <2>3, Types, OpsSame DEF Onward
  <2>6. GateInv'
    <3>1. dialog => mounted /\ gate \in {None, "save-close"}
      BY Types DEF GateInv
    <3> QED BY <1>1, <1>3, <3>1, GateSame DEF work, pane
  <2> QED BY <2>3, <2>4, <2>5, <2>6, InvNext
<1> QED BY <1>2, <1>3 DEF SaveFindsNoDraft

(***************************************************************************)
(* The ways out.                                                           *)
(***************************************************************************)

\* The record of an operation that begins now, waiting for p.
Claimed(kind, stage, p) ==
    [session |-> session, form |-> form, kind |-> kind, stage |-> stage, save |-> p,
     prior |-> IF kind = "send" THEN prior ELSE None]

\* A send or a discard begins.
LEMMA TakingBegins ==
    ASSUME Core, NEW kind \in {"send", "discard"},
           Claim(kind, "draining", Tail(session)), mounted,
           UNCHANGED <<session, form, mounted, words, prior, saved, queuedAs, queue,
                       drafts, past>>,
           dialog' = FALSE
    PROVE  Core'
<1>1. PICK r : r = Claimed(kind, "draining", Tail(session))
  OBVIOUS
<1>2. /\ gate = None /\ ops < MaxOps /\ ops' = ops + 1
      /\ op' = [op EXCEPT ![ops + 1] = r] /\ gate' = GateOf(kind)
  BY <1>1 DEF Claim, Claimed
<1>3. Pending(session) \subseteq 1 .. saves /\ saves \in Nat /\ Pending(session) \subseteq Saves
  BY Types, SaveFacts DEF Pending, Waits, Runs, Made
<1>4. Tail(session) \in Saves \cup {None} /\ (Tail(session) = None => Pending(session) = {})
  <2>1. Tail(session) \in Pending(session) \cup {None}
    BY <1>3, LastType DEF Tail
  <2>2. Pending(session) # {} => Tail(session) \in Pending(session)
    BY <1>3, LastOf DEF Tail
  <2>3. None \notin Saves
    BY Bounds DEF Saves
  <2> QED BY <1>3, <2>1, <2>2, <2>3
<1>5. /\ r \in OpRecords /\ r.session = session /\ r.form = form /\ r.kind = kind
      /\ r.stage = "draining" /\ r.save = Tail(session)
      /\ kind = "send" => r.prior = prior
  <2>1. (IF kind = "send" THEN prior ELSE None) \in Saves \cup {None}
    BY Types
  <2> QED BY <1>1, <1>4, <2>1, Types DEF Claimed, OpRecords, OpKinds, OpStages
<1>6. DraftInv'
  BY Types, PaneStep
<1>7. PaneType'
  <2>1. adrift' \subseteq 1 .. ops' /\ edits' \in Nat
    <3>1. ops \in Nat /\ adrift \subseteq 1 .. ops
      BY Types DEF Begun
    <3> QED BY <1>2, <3>1, Types DEF past
  <2>2. gate' \in {None, "delivery", "discard", "save-close"}
    BY <1>2 DEF GateOf
  <2>3. /\ form' \in Nat /\ words' \in Nat /\ mounted' \in BOOLEAN /\ dialog' \in BOOLEAN
        /\ saved' \in Nat \cup {None} /\ queuedAs' \in Nat \cup {None}
    BY Types
  <2> QED BY <2>1, <2>2, <2>3 DEF PaneType, Begun
<1>8. Onward /\ Calm /\ SavedKept
  BY Types, Rest DEF Onward
<1>9. Fits(r)'
  <2>1. Dated(r)'
    BY <1>5, Types DEF Dated
  <2>2. Takings(r)'
    BY <1>5 DEF Takings
  <2>3. save' = save /\ saves' = saves /\ session' = session
    BY DEF queue
  <2>4. r.save = None => Pending(session) = {}
    BY <1>4, <1>5
  <2>5. r.save = None => Pending(r.session)' = {}
    BY <1>5, <2>3, <2>4 DEF Pending, Waits, Runs, Made
  <2>6. BoundTo(session, prior)
    BY Types DEF DraftInv, Binding
  <2>7. kind = "send" => BoundTo(r.session, r.prior)'
    BY <1>5, <2>3, <2>6 DEF BoundTo, SavedIn, Before, Made
  <2>8. Asks(r)'
    BY <1>5, <2>5, <2>7 DEF Asks
  <2> QED BY <2>1, <2>2, <2>8 DEF Fits
<1>10. OpInv'
  BY <1>2, <1>5, <1>8, <1>9, OpBegins
<1>11. GateInv'
  BY <1>2, <1>5, GateShuts DEF Active
<1> QED BY <1>6, <1>7, <1>10, <1>11, InvNext

\* A close begins, with a save of its own or the one that is under way.
LEMMA CloseBegins ==
    ASSUME Core, NEW kind \in {"close", "dialog", "leave"}, SaveAndClose(kind), mounted,
           UNCHANGED <<session, form, words, prior, saved, drafts, past>>,
           mounted' \in BOOLEAN, dialog' \in BOOLEAN, dialog' => mounted'
    PROVE  Core'
<1>1. PICK stage, p :
         /\ stage \in {"saving", "draining"}
         /\ Claim(kind, stage, p)
         /\ \/ stage = "draining" /\ p = Tail(session) /\ UNCHANGED <<queue, queuedAs>>
            \/ stage = "saving" /\ p = NextPromise(session) /\ Queue("leaving")
  BY DEF SaveAndClose
<1>2. PICK r : r = Claimed(kind, stage, p)
  OBVIOUS
<1>3. /\ gate = None /\ ops < MaxOps /\ ops' = ops + 1
      /\ op' = [op EXCEPT ![ops + 1] = r] /\ gate' = GateOf(kind)
  BY <1>1, <1>2 DEF Claim, Claimed
<1>4. DraftInv' /\ Calm /\ SavedKept /\ queuedAs' \in Nat \cup {None}
      /\ p \in Saves \cup {None}
  <2>1. CASE p = Tail(session) /\ UNCHANGED <<queue, queuedAs>>
    <3>1. Pending(session) \subseteq 1 .. saves /\ saves \in Nat
          /\ Pending(session) \subseteq Saves
      BY Types, SaveFacts DEF Pending, Waits, Runs, Made
    <3>2. p \in Saves \cup {None}
      BY <2>1, <3>1, LastType DEF Tail
    <3>3. DraftInv'
      BY <2>1, Types, PaneStep
    <3> QED BY <2>1, <3>2, <3>3, Types, Rest
  <2>2. CASE p = NextPromise(session) /\ Queue("leaving")
    <3>1. Queued("leaving", p)
      BY <2>2, Types, QueueGives
    <3>2. DraftInv' /\ Calm /\ SavedKept
      BY <1>3, <3>1, Types, QueueStep DEF SaveKinds
    <3>3. p \in Saves
      BY <3>1 DEF Queued
    <3>4. queuedAs' = words
      BY <2>2 DEF Queue
    <3> QED BY <3>2, <3>3, <3>4, Types
  <2> QED BY <1>1, <2>1, <2>2
<1>5. /\ r \in OpRecords /\ r.session = session /\ r.form = form /\ r.kind = kind
      /\ r.stage = stage
  BY <1>1, <1>2, <1>4, Types DEF Claimed, OpRecords, OpKinds, OpStages
<1>6. PaneType'
  BY <1>3, <1>4, Types DEF PaneType, GateOf, Begun, past
<1>7. Onward
  BY Types DEF Onward
<1>8. Fits(r)'
  BY <1>5, Types DEF Fits, Dated, Takings, Asks
<1>9. OpInv'
  BY <1>3, <1>4, <1>5, <1>7, <1>8, OpBegins
<1>10. GateInv'
  BY <1>1, <1>3, <1>5, GateShuts DEF Active, GateOf
<1> QED BY <1>4, <1>6, <1>9, <1>10, InvNext

LEMMA ClosesKeeps ==
    ASSUME Core, Closes
    PROVE  Core'
<1>1. mounted /\ ~dialog /\ gate = None /\ UNCHANGED <<drafts, past>>
  BY DEF Closes
<1>2. CASE /\ SaveAndClose("close") /\ UNCHANGED dialog
           /\ UNCHANGED <<session, form, mounted, words, prior, saved>>
  BY <1>1, <1>2, Types, CloseBegins
<1>3. CASE /\ Discard /\ UNCHANGED dialog
           /\ UNCHANGED <<session, form, mounted, words, prior, saved>>
  BY <1>1, <1>3, TakingBegins, Types DEF Discard
<1>4. CASE /\ dialog' = TRUE /\ UNCHANGED <<gate, queue, queuedAs, work>>
           /\ UNCHANGED <<session, form, mounted, words, prior, saved>>
  BY <1>1, <1>4, Types, PaneAlone DEF past
<1>5. CASE ClearForm(form) /\ UNCHANGED <<gate, queue, work>>
  BY <1>1, <1>5, ClearKeeps
<1> QED BY <1>1, <1>2, <1>3, <1>4, <1>5 DEF Closes

LEMMA DeletesKeeps ==
    ASSUME Core, Deletes
    PROVE  Core'
<1>1. /\ mounted /\ gate = None
      /\ UNCHANGED <<session, form, mounted, words, prior, saved, drafts, past>>
  BY DEF Deletes
<1>2. CASE dialog' = TRUE /\ UNCHANGED <<gate, queue, queuedAs, work>>
  BY <1>1, <1>2, Types, PaneAlone DEF past
<1>3. CASE dialog' = FALSE /\ Discard
  BY <1>1, <1>3, TakingBegins DEF Discard
<1> QED BY <1>1, <1>2, <1>3 DEF Deletes

\* The closes at work are operations.
LEMMA ClosingType == Closing \subseteq Begun
  BY DEF Closing

LEMMA KeepsEditingKeeps ==
    ASSUME Core, KeepsEditing
    PROVE  Core'
<1>1. /\ mounted /\ dialog /\ dialog' = FALSE /\ gate' = None
      /\ adrift' = adrift \cup Closing /\ edits' = edits
      /\ UNCHANGED <<session, form, mounted, words, prior, saved, queuedAs, queue,
                     work, drafts>>
  BY DEF KeepsEditing
<1>2. DraftInv'
  BY <1>1, Types, PaneStep
<1>3. PaneType'
  BY <1>1, Types, ClosingType DEF PaneType, work, Begun
<1>4. OpInv'
  BY <1>1, Types, Rest, OpsSame DEF Onward
<1>5. GateInv'
  <2>1. gate \in {None, "save-close"}
    BY <1>1, Types DEF GateInv
  <2>2. \A o \in Begun : ~(Takes(o) /\ op[o].form = form)
    <3> SUFFICES ASSUME NEW o \in Begun, Takes(o), op[o].form = form PROVE FALSE
      OBVIOUS
    <3>1. gate = GateOf(op[o].kind)
      BY <1>1, Types DEF GateInv
    <3> QED BY <2>1, <3>1, Bounds DEF GateOf, Takes
  <2>3. op' = op /\ ops' = ops /\ form' = form
    BY <1>1 DEF work
  <2> QED BY <1>1, <2>2, <2>3, Types DEF GateInv, Takes, Begun
<1> QED BY <1>2, <1>3, <1>4, <1>5, InvNext

LEMMA LeavesKeeps ==
    ASSUME Core, Leaves
    PROVE  Core'
<1>1. mounted /\ UNCHANGED <<drafts, edits>>
  BY DEF Leaves
<1>2. CASE /\ mounted' = FALSE /\ dialog' = FALSE
           /\ adrift' = adrift \cup Closing
           /\ UNCHANGED <<session, form, words, prior, saved, queuedAs, gate, queue,
                          work>>
  BY <1>1, <1>2, Types, ClosingType, PaneAlone
<1>3. CASE ClearForm(form) /\ UNCHANGED <<gate, queue, work, adrift>>
  BY <1>1, <1>3, ClearKeeps DEF past
<1>4. CASE /\ SaveAndClose("close") /\ UNCHANGED <<mounted, dialog>>
           /\ UNCHANGED <<session, form, words, prior, saved, adrift>>
  BY <1>1, <1>4, Types, CloseBegins DEF past
<1>5. CASE /\ SaveAndClose("leave") /\ mounted' = FALSE /\ dialog' = FALSE
           /\ UNCHANGED <<session, form, words, prior, saved, adrift>>
  BY <1>1, <1>5, Types, CloseBegins DEF past
<1>6. CASE /\ gate = None /\ dialog' = TRUE
           /\ UNCHANGED <<mounted, gate, queue, queuedAs, work>>
           /\ UNCHANGED <<session, form, words, prior, saved, adrift>>
  BY <1>1, <1>6, Types, PaneAlone
<1> QED BY <1>2, <1>3, <1>4, <1>5, <1>6 DEF Leaves

LEMMA SendsKeeps ==
    ASSUME Core, Sends
    PROVE  Core'
<1>1. /\ mounted /\ ~dialog /\ Claim("send", "draining", Tail(session))
      /\ UNCHANGED <<pane, queue, drafts, past>>
  BY DEF Sends
<1> QED BY <1>1, Types, TakingBegins DEF pane

(***************************************************************************)
(* The ends.                                                               *)
(***************************************************************************)

\* An operation ends: the form is cleared, or stays but for its dialog.
LEMMA OpEnds ==
    ASSUME Core, NEW o \in Begun, op[o].stage \in Active, Release(o),
           NEW x \in {"done", "finished"}, op' = [op EXCEPT ![o].stage = x],
           UNCHANGED <<queue, ops, drafts, past>>,
           \/ ClearForm(op[o].form)
           \/ /\ UNCHANGED <<session, form, mounted, words, prior, saved, queuedAs>>
              /\ dialog' \in BOOLEAN
              /\ dialog' => dialog,
           x = "finished" =>
              /\ op[o].stage = "accepted"
              /\ op[o].session # session \/ ClearForm(op[o].form)
    PROVE  Core'
<1>1. /\ session' \in Nat /\ form' = form /\ session <= session' /\ Onward
      /\ prior' \in Saves \cup {None} /\ words' \in Nat
      /\ saved' \in Nat \cup {None} /\ queuedAs' \in Nat \cup {None}
      /\ mounted' \in BOOLEAN /\ dialog' \in BOOLEAN
      /\ mounted' => mounted
      /\ dialog' => mounted' /\ dialog
      /\ \/ session' = session /\ prior' = prior
         \/ session' = session + 1 /\ prior' = None
  <2>1. CASE ClearForm(op[o].form)
    BY <2>1, Cleared, Types
  <2>2. CASE /\ UNCHANGED <<session, form, mounted, words, prior, saved, queuedAs>>
             /\ dialog' \in BOOLEAN
             /\ dialog' => dialog
    BY <2>2, Types DEF GateInv, Onward
  <2> QED BY <2>1, <2>2
<1>2. DraftInv'
  BY <1>1, Types, PaneStep
<1>3. PaneType'
  <2>1. gate' \in {None, "delivery", "discard", "save-close"}
    BY Types DEF Release
  <2> QED BY <1>1, <2>1, Types DEF PaneType, Begun, past
<1>4. GateInv'
  BY <1>1, GateOpens DEF Active
<1>5. OpInv'
  <2>1. o \in Ops /\ op[o] \in OpRecords /\ OpType
    BY Types, OpFacts
  <2>2. PICK r : r = [op[o] EXCEPT !.stage = x]
    OBVIOUS
  <2>3. /\ r \in OpRecords /\ r.session = op[o].session /\ r.form = op[o].form
        /\ r.kind = op[o].kind /\ r.stage = x
    BY <2>1, <2>2 DEF OpRecords, OpStages
  <2>4. op' = [op EXCEPT ![o] = r]
    BY <2>2
  <2>5. Calm /\ SavedKept
    BY Types, Rest
  <2>6. PICK q : q = op[o]
    OBVIOUS
  <2>7. q.session \in Nat /\ Fits(q)
    BY <2>1, <2>6, Types, OpInvIs, OpFacts
  <2>8. Dated(r)'
    BY <1>1, <2>3, <2>6, <2>7, Types DEF Fits, Dated, Onward
  <2>9. Asks(r)' /\ Takings(r)'
    <3>1. CASE x = "done"
      BY <2>3, <3>1 DEF Asks, Takings
    <3>2. CASE x = "finished"
      <4>1. q.stage = "accepted" /\ q.session = r.session /\ q.kind = r.kind
        BY <2>3, <2>6, <3>2
      <4>2. Fits(q)'
        BY <1>1, <2>5, <2>6, FitsKept
      <4>3. r.session < session'
        <5>1. q.session <= session /\ session \in Nat
          BY <2>7, Types DEF Fits, Dated
        <5>2. q.session # session \/ session' = session + 1
          BY <2>6, <3>2, Cleared
        <5> QED BY <1>1, <2>7, <4>1, <5>1, <5>2
      <4>4. q.kind \in {"send", "discard"} => Pending(q.session)' = {}
        BY <4>1, <4>2 DEF Fits, Asks
      <4>5. q.kind \in {"send", "discard"} =>
               \A d \in drafts' : save'[d].session = q.session => Unheard(q.session)'
        BY <4>1, <4>2 DEF Fits, Takings
      <4>6. r.kind \in {"send", "discard"} => Pending(r.session)' = {}
        BY <4>1, <4>4 DEF Pending, Waits, Runs
      <4>7. r.kind \in {"send", "discard"} =>
               \A d \in drafts' : save'[d].session = r.session => Unheard(r.session)'
        BY <4>1, <4>5 DEF Unheard
      <4>8. Asks(r)'
        BY <2>3, <3>2, <4>3, <4>6 DEF Asks
      <4>9. Takings(r)'
        BY <4>7 DEF Takings
      <4> QED BY <4>8, <4>9
    <3> QED BY <3>1, <3>2
  <2>10. Fits(r)'
    BY <2>8, <2>9 DEF Fits
  <2> QED BY <1>1, <2>3, <2>4, <2>5, <2>10, OpChanges
<1> QED BY <1>2, <1>3, <1>4, <1>5, InvNext

\* An operation goes on to its next stage, with the gate still shut.
LEMMA OpGoesOn ==
    ASSUME Core, NEW o \in Begun, op[o].stage \in Active,
           NEW r \in OpRecords, r.session = op[o].session, r.form = op[o].form,
           r.kind = op[o].kind, r.stage \in Active, op' = [op EXCEPT ![o] = r],
           UNCHANGED <<pane, gate, queue, ops, past>>, drafts' \subseteq drafts,
           Asks(r)', Takings(r)'
    PROVE  Core'
<1>1. Calm /\ SavedKept
  BY Types, Rest
<1>2. session' = session /\ form' = form /\ Onward
  BY Types DEF pane, Onward
<1>3. o \in Ops /\ op[o] \in OpRecords /\ OpType /\ Begun \subseteq Ops
  BY Types, OpFacts
<1>4. DraftInv'
  BY Types, PaneStep DEF pane
<1>5. PaneType'
  BY Types DEF PaneType, pane, past, Begun
<1>6. Fits(r)'
  <2>1. Dated(op[o])
    BY Types, OpInvIs DEF Fits
  <2>2. Dated(r)'
    BY <1>2, <2>1 DEF Dated
  <2> QED BY <2>2 DEF Fits
<1>7. OpInv'
  BY <1>1, <1>2, <1>6, OpChanges
<1>8. GateInv'
  <2>1. \A q \in Begun : /\ op'[q].kind = op[q].kind /\ op'[q].form = op[q].form
                         /\ op'[q].stage \in Active <=> op[q].stage \in Active
    BY <1>3 DEF OpType
  <2>2. dialog => mounted /\ gate \in {None, "save-close"}
    BY Types DEF GateInv
  <2> QED BY <2>1, <2>2, GateSame DEF pane
<1> QED BY <1>4, <1>5, <1>7, <1>8, InvNext

LEMMA DrainsOnKeeps ==
    ASSUME Core, NEW o, DrainsOn(o)
    PROVE  Core'
<1>1. /\ o \in Begun /\ op[o].stage = "draining" /\ Pending(op[o].session) # {}
      /\ op' = [op EXCEPT ![o].save = Tail(op[o].session)]
      /\ UNCHANGED <<pane, gate, queue, ops, drafts, past>>
  BY DEF DrainsOn
<1>2. op[o] \in OpRecords /\ o \in Ops
  BY <1>1, Types, OpFacts
<1>3. PICK p : p = Tail(op[o].session)
  OBVIOUS
<1>4. p \in Saves /\ p # None
  <2>1. PICK s : s = op[o].session
    OBVIOUS
  <2>2. Pending(s) # {} /\ p = Tail(s)
    BY <1>1, <1>3, <2>1
  <2>3. Pending(s) \subseteq 1 .. saves /\ saves \in Nat /\ Pending(s) \subseteq Saves
    BY Types, SaveFacts DEF Pending, Waits, Runs, Made
  <2>4. p \in Pending(s)
    BY <2>2, <2>3, LastOf DEF Tail
  <2> QED BY <2>3, <2>4, Bounds DEF Saves
<1>5. PICK r : r = [op[o] EXCEPT !.save = p]
  OBVIOUS
<1>6. /\ r \in OpRecords /\ r.session = op[o].session /\ r.form = op[o].form
      /\ r.kind = op[o].kind /\ r.stage = "draining" /\ r.save = p
      /\ r.prior = op[o].prior
  BY <1>1, <1>2, <1>4, <1>5 DEF OpRecords
<1>7. op' = [op EXCEPT ![o] = r]
  BY <1>1, <1>3, <1>5
<1>8. Takings(r)'
  BY <1>6 DEF Takings
<1>9. Asks(r)'
  <2>1. PICK q : q = op[o]
    OBVIOUS
  <2>2. Onward /\ Calm /\ SavedKept /\ session' = session
    BY <1>1, Types, Rest DEF Onward, pane
  <2>3. Fits(q)'
    BY <1>1, <2>1, <2>2, FitsKept
  <2>4. q.kind = "send" /\ q.session = session' => BoundTo(q.session, q.prior)'
    BY <1>1, <2>1, <2>3 DEF Fits, Asks
  <2>5. r.kind = "send" /\ r.session = session' => BoundTo(r.session, r.prior)'
    BY <1>6, <2>1, <2>4 DEF BoundTo, SavedIn, Before
  <2> QED BY <1>4, <1>6, <2>5 DEF Asks
<1> QED BY <1>1, <1>6, <1>7, <1>8, <1>9, OpGoesOn DEF Active

LEMMA CloseEndsKeeps ==
    ASSUME Core, NEW o, CloseEnds(o)
    PROVE  Core'
<1>1. /\ o \in Begun /\ op[o].stage \in Active /\ Release(o)
      /\ op' = [op EXCEPT ![o].stage = "done"]
      /\ UNCHANGED <<queue, ops, drafts, past>>
      /\ ClearForm(op[o].form) \/ UNCHANGED pane
  BY DEF CloseEnds, Waited, Active, Done
<1>2. \/ ClearForm(op[o].form)
      \/ /\ UNCHANGED <<session, form, mounted, words, prior, saved, queuedAs>>
         /\ dialog' \in BOOLEAN
         /\ dialog' => dialog
  BY <1>1, Types DEF pane
<1> QED BY <1>1, <1>2, OpEnds

LEMMA DialogCloseEndsKeeps ==
    ASSUME Core, NEW o, DialogCloseEnds(o)
    PROVE  Core'
<1>1. /\ o \in Begun /\ op[o].stage \in Active /\ Release(o)
      /\ op' = [op EXCEPT ![o].stage = "done"]
      /\ UNCHANGED <<queue, ops, drafts, past>>
  BY DEF DialogCloseEnds, Waited, Active, Done
<1>2. \/ ClearForm(op[o].form)
      \/ /\ UNCHANGED <<session, form, mounted, words, prior, saved, queuedAs>>
         /\ dialog' \in BOOLEAN
         /\ dialog' => dialog
  BY DEF DialogCloseEnds
<1> QED BY <1>1, <1>2, OpEnds

LEMMA GoesOnKeeps ==
    ASSUME Core, NEW o, GoesOn(o)
    PROVE  Core'
<1>1. /\ o \in Begun /\ op[o].stage \in {"saving", "draining"}
      /\ op[o].kind \in {"discard", "send"} /\ UNCHANGED <<queue, ops, drafts, past>>
      /\ op[o].stage = "draining" =>
            op[o].save = None \/ Pending(op[o].session) = {}
  BY DEF GoesOn, Waited
<1>2. CASE /\ Held(o) /\ ~(op[o].kind = "discard" /\ prior = None)
           /\ op' = [op EXCEPT ![o].stage = "requested",
                                ![o].prior = IF op[o].kind = "send" THEN @
                                             ELSE prior]
           /\ UNCHANGED <<gate, pane>>
  <2>1. o \in Ops /\ op[o] \in OpRecords
    BY <1>1, Types, OpFacts
  <2>2. PICK q : q = op[o]
    OBVIOUS
  <2>3. Fits(q) /\ q \in OpRecords
    BY <1>1, <2>1, <2>2, Types, OpInvIs
  <2>4. /\ q.stage = "draining" /\ q.session = session /\ Pending(q.session) = {}
        /\ q.kind \in {"send", "discard"}
        /\ q.kind = "send" => BoundTo(q.session, q.prior)
    <3>1. q.kind \in {"send", "discard"} /\ q.stage = "draining"
      BY <1>1, <2>2, <2>3 DEF Fits, Asks
    <3>2. q.session = session
      BY <1>2, <2>2, <3>1 DEF Held, Owned
    <3>3. q.save = None => Pending(q.session) = {}
      BY <2>3, <3>1 DEF Fits, Asks
    <3>4. q.save # None => Pending(q.session) = {}
      BY <1>1, <2>2, <3>1
    <3>5. q.kind = "send" => BoundTo(q.session, q.prior)
      BY <2>3, <3>1, <3>2 DEF Fits, Asks
    <3> QED BY <3>1, <3>2, <3>3, <3>4, <3>5
  <2>5. PICK p : p = IF q.kind = "send" THEN q.prior ELSE prior
    OBVIOUS
  <2>6. p \in Saves \cup {None}
    BY <2>3, <2>5, Types DEF OpRecords
  <2>7. PICK r : r = [op[o] EXCEPT !.stage = "requested", !.prior = p]
    OBVIOUS
  <2>8. /\ r \in OpRecords /\ r.session = op[o].session /\ r.form = op[o].form
        /\ r.kind = op[o].kind /\ r.stage = "requested" /\ r.prior = p
    BY <2>1, <2>6, <2>7 DEF OpRecords, OpStages
  <2>9. op' = [op EXCEPT ![o] = r]
    BY <1>2, <2>2, <2>5, <2>7
  <2>10. BoundTo(q.session, p)
    <3>1. BoundTo(session, prior)
      BY Types DEF DraftInv, Binding
    <3>2. q.kind = "send" => BoundTo(q.session, p)
      BY <2>4, <2>5
    <3>3. q.kind # "send" => BoundTo(q.session, p)
      BY <2>4, <2>5, <3>1 DEF BoundTo, SavedIn, Before
    <3> QED BY <3>2, <3>3
  <2>11. save' = save /\ saves' = saves /\ session' = session
    BY <1>1, <1>2 DEF queue, pane
  <2>12. q.session = r.session /\ q.kind = r.kind
    BY <2>2, <2>8
  <2>13. Pending(r.session)' = {}
    BY <2>4, <2>11, <2>12 DEF Pending, Waits, Runs, Made
  <2>14. BoundTo(r.session, r.prior)'
    BY <2>8, <2>10, <2>11, <2>12 DEF BoundTo, SavedIn, Before, Made
  <2>15. Asks(r)'
    BY <2>8, <2>13, <2>14 DEF Asks
  <2>16. Takings(r)'
    BY <2>8 DEF Takings
  <2> QED BY <1>1, <1>2, <2>8, <2>9, <2>15, <2>16, OpGoesOn DEF Active
<1>3. CASE /\ Release(o) /\ Done(o)
           /\ ClearForm(op[o].form) \/ UNCHANGED pane
  <2>1. op[o].stage \in Active
    BY <1>1 DEF Active
  <2>2. \/ ClearForm(op[o].form)
        \/ /\ UNCHANGED <<session, form, mounted, words, prior, saved, queuedAs>>
           /\ dialog' \in BOOLEAN
           /\ dialog' => dialog
    BY <1>3, Types DEF pane
  <2>3. op' = [op EXCEPT ![o].stage = "done"]
    BY <1>3 DEF Done
  <2> QED BY <1>1, <1>3, <2>1, <2>2, <2>3, OpEnds
<1> QED BY <1>2, <1>3 DEF GoesOn

\* The server takes what was drained.
LEMMA ServerTakesKeeps ==
    ASSUME Core, NEW o, ServerTakes(o)
    PROVE  Core'
<1>1. /\ o \in Begun /\ op[o].stage = "requested"
      /\ op' = [op EXCEPT ![o].stage = "accepted"]
      /\ drafts' = drafts \ {op[o].prior}
      /\ UNCHANGED <<pane, gate, queue, ops, past>>
  BY DEF ServerTakes
<1>2. o \in Ops /\ op[o] \in OpRecords
  BY <1>1, Types, OpFacts
<1>3. PICK q : q = op[o]
  OBVIOUS
<1>4. Fits(q)
  BY <1>1, <1>3, Types, OpInvIs
<1>5. PICK r : r = [op[o] EXCEPT !.stage = "accepted"]
  OBVIOUS
<1>6. /\ r \in OpRecords /\ r.session = op[o].session /\ r.form = op[o].form
      /\ r.kind = op[o].kind /\ r.stage = "accepted"
  BY <1>2, <1>5 DEF OpRecords, OpStages
<1>7. op' = [op EXCEPT ![o] = r]
  BY <1>5, <1>1
<1>8. save' = save /\ saves' = saves /\ session' = session
  BY <1>1 DEF queue, pane
<1>9. q.session = r.session /\ q.kind = r.kind /\ q.stage = "requested"
      /\ q.prior = op[o].prior
  BY <1>1, <1>3, <1>6
<1>10. r.kind \in {"send", "discard"} => Pending(r.session) = {} /\ BoundTo(r.session, q.prior)
  <2>1. q.kind \in {"send", "discard"} => Pending(q.session) = {} /\ BoundTo(q.session, q.prior)
    BY <1>4, <1>9 DEF Fits, Asks
  <2> QED BY <1>9, <2>1 DEF Pending, Waits, Runs, BoundTo, SavedIn, Before
<1>11. Asks(r)'
  <2>1. r.kind \in {"send", "discard"} => Pending(r.session)' = {}
    BY <1>8, <1>10 DEF Pending, Waits, Runs, Made
  <2> QED BY <1>6, <2>1 DEF Asks
<1>12. Takings(r)'
  <2> SUFFICES ASSUME r.kind \in {"send", "discard"}, NEW d \in drafts',
                      save[d].session = r.session, ~Unheard(r.session)
               PROVE  FALSE
    BY <1>8 DEF Takings, Unheard, Made
  <2>1. d \in drafts /\ d # q.prior /\ d \in Made
    BY <1>1, <1>9, Types
  <2>2. save[d].stage \in {"stored", "saved", "lost"}
    BY <2>1, Types DEF DraftInv, Folder
  <2>3. save[d].stage = "saved"
    BY <1>10, <2>1, <2>2 DEF Pending, Runs, Unheard
  <2>4. d \in SavedIn(r.session)
    BY <2>1, <2>3 DEF SavedIn
  <2>5. q.prior \in SavedIn(r.session) /\ d <= q.prior
    BY <1>10, <2>4 DEF BoundTo
  <2>6. ~Unheard(save[d].session)
    BY DEF Unheard
  <2>7. \A t \in Made : save[t].session = save[d].session
           /\ save[t].stage \in {"stored", "saved"} => t <= d
    BY <2>1, <2>6, Types DEF DraftInv, Folder
  <2>8. q.prior <= d
    BY <2>5, <2>7 DEF SavedIn
  <2>9. q.prior \in Nat /\ d \in Nat
    BY <2>1, <2>5, Types, SaveFacts DEF SavedIn
  <2> QED BY <2>1, <2>5, <2>8, <2>9
<1>13. drafts' \subseteq drafts
  BY <1>1
<1> QED BY <1>1, <1>6, <1>7, <1>11, <1>12, <1>13, OpGoesOn DEF Active

LEMMA EndsKeeps ==
    ASSUME Core, NEW o, Ends(o)
    PROVE  Core'
<1>1. /\ o \in Begun /\ op[o].stage = "accepted" /\ Release(o)
      /\ op' = [op EXCEPT ![o].stage = "finished"]
      /\ UNCHANGED <<queue, ops, drafts, past>>
      /\ IF op[o].session = session THEN ClearForm(op[o].form) ELSE UNCHANGED pane
  BY DEF Ends, Owned
<1>2. \/ ClearForm(op[o].form)
      \/ /\ UNCHANGED <<session, form, mounted, words, prior, saved, queuedAs>>
         /\ dialog' \in BOOLEAN
         /\ dialog' => dialog
  BY <1>1, Types DEF pane
<1>3. op[o].stage \in Active /\ (op[o].session # session \/ ClearForm(op[o].form))
  BY <1>1 DEF Active
<1> QED BY <1>1, <1>2, <1>3, OpEnds

LEMMA FailsKeeps ==
    ASSUME Core, NEW o, Fails(o)
    PROVE  Core'
<1>1. /\ o \in Begun /\ op[o].stage \in Active /\ Release(o)
      /\ op' = [op EXCEPT ![o].stage = "done"]
      /\ UNCHANGED <<pane, queue, ops, drafts, past>>
  BY DEF Fails, Done, Active
<1>2. /\ UNCHANGED <<session, form, mounted, words, prior, saved, queuedAs>>
      /\ dialog' \in BOOLEAN
      /\ dialog' => dialog
  BY <1>1, Types DEF pane
<1> QED BY <1>1, <1>2, OpEnds

(***************************************************************************)
(* The theorems.                                                           *)
(***************************************************************************)

LEMMA InitInv == Init => Core
<1> SUFFICES ASSUME Init PROVE Core
  OBVIOUS
<1>1. saves = 0 /\ ops = 0 /\ Made = {} /\ Begun = {} /\ drafts = {} /\ adrift = {}
  BY DEF Init, Made, Begun
<1>2. TypeOK
  <2>1. save \in [Saves -> SaveRecords \cup {NoSave}]
    BY DEF Init
  <2>2. op \in [Ops -> OpRecords \cup {NoOp}]
    BY DEF Init
  <2>3. 0 \in Nat /\ 0 <= MaxSaves /\ 0 <= MaxOps
    BY Bounds
  <2> QED BY <1>1, <2>1, <2>2, <2>3 DEF Init, TypeOK
<1>3. Binding
  BY <1>1 DEF Init, Binding, BoundTo, SavedIn, Before
<1>4. GateInv
  BY <1>1 DEF Init, GateInv
<1> QED BY <1>1, <1>2, <1>3, <1>4 DEF Core, Ages, OneRuns, Folder, OneDraft, Asking,
          NoDraftLeftBehind

LEMMA NextInv == Core /\ [Next]_vars => Core'
<1> SUFFICES ASSUME Core, [Next]_vars PROVE Core'
  OBVIOUS
<1>1. CASE User
  <2>1. CASE \E d \in drafts \cup {None} : Opens(d)
    BY <2>1, OpensKeeps
  <2>2. CASE Edits
    BY <2>2, EditsKeeps
  <2>3. CASE ManualSave
    BY <2>3, PlainSaveKeeps DEF ManualSave, SaveKinds
  <2>4. CASE \E reason \in {"idle", "leave"} : TimedSave(reason)
    BY <2>4, PlainSaveKeeps DEF TimedSave, SaveKinds
  <2>5. CASE Closes
    BY <2>5, ClosesKeeps
  <2>6. CASE Deletes
    BY <2>6, DeletesKeeps
  <2>7. CASE DialogSaves
    BY <2>7, CloseBegins, Types DEF DialogSaves
  <2>8. CASE KeepsEditing
    BY <2>8, KeepsEditingKeeps
  <2>9. CASE Leaves
    BY <2>9, LeavesKeeps
  <2>10. CASE Sends
    BY <2>10, SendsKeeps
  <2> QED BY <1>1, <2>1, <2>2, <2>3, <2>4, <2>5, <2>6, <2>7, <2>8, <2>9, <2>10 DEF User
<1>2. CASE Server
  BY <1>2, StoresKeeps, ServerTakesKeeps DEF Server
<1>3. CASE \E t \in Saves : Answers(t)
  BY <1>3, SavedKeeps, SaveFailsKeeps, SaveFindsNoDraftKeeps DEF Answers
<1>4. CASE \E o \in Ops : Replies(o)
  BY <1>4, EndsKeeps, FailsKeeps DEF Replies
<1>5. CASE \E o \in Ops : Continues(o)
  BY <1>5, DrainsOnKeeps, CloseEndsKeeps, DialogCloseEndsKeeps, GoesOnKeeps DEF Continues
<1>6. CASE UNCHANGED vars
  BY <1>6, Types, PaneAlone DEF vars, queue, work, GateInv
<1> QED BY <1>1, <1>2, <1>3, <1>4, <1>5, <1>6 DEF Next

\* The saves of a session run one at a time and none waits for ever for its turn,
\* the pane is bound to the draft its saves ended on, and the gate is shut by
\* exactly what is at work.
THEOREM CoreInvariance == Spec => []Core
  BY InitInv, NextInv, PTL DEF Spec

\* A composer leaves one draft, not a trail of them.
THEOREM DraftsOnce == Spec => []OneDraft
<1>1. Core => OneDraft
  BY DEF Core
<1> QED BY <1>1, CoreInvariance, PTL

\* What was sent or thrown away leaves no draft behind.
THEOREM NothingLeft == Spec => []NoDraftLeftBehind
<1>1. Core => NoDraftLeftBehind
  BY DEF Core
<1> QED BY <1>1, CoreInvariance, PTL
=============================================================================
