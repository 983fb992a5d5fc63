--------------------------- MODULE PlatformProofs ---------------------------
(***************************************************************************)
(* Parts of the service that share no state, each with its own invariant,  *)
(* for any requests, scopes, pages, batches and numbers of processes: the  *)
(* explanation cache, the tunables of a query, the paging of adapters, the *)
(* embedding of inserted lines.                                            *)
(***************************************************************************)
EXTENDS ExplainCache, QueryOverrides, AdapterPaging, LogEmbeddings, FiniteSetTheorems,
        SequenceTheorems, WellFoundedInduction, TLAPS
-----------------------------------------------------------------------------
(* The explanation cache.  A row does not say when its computation began;  *)
(* that a slow computation cannot bury a later refresh rests on created_at *)
(* being the start of the transaction, which orders computations as it     *)
(* orders the lines they could see.                                        *)

SavedRow == [key : CacheKeys, created : Nat, scope : LogScopes, total : Nat, mode : {"rules"},
             text : {"template"},
             confidence : [label : {"high", "low"}, score : {"rank", "probability"},
                           calibrated : BOOLEAN]]

Active(a) == a.pc # "idle"

AskerState == [pc : {"idle", "reading", "rendering"}, key : CacheKeys, structural : BOOLEAN,
               created : Nat, before : Nat, total : Nat]

\* A computation began before it read, and saw at least the lines there were.
Began(a) ==
  Active(a) => /\ a.created <= started /\ a.before <= lines[a.key.scope]
               /\ a.pc = "rendering" => a.before <= a.total

CacheTypes ==
  /\ calibrator \in BOOLEAN /\ lines \in [LogScopes -> Nat] /\ started \in Nat
  /\ refreshed \in [CacheKeys -> Nat]
  /\ asking \in [Askers -> AskerState]
  /\ \A q \in Askers : Began(asking[q])
  /\ rows \subseteq SavedRow

\* created_at tells computations apart and orders what they could have seen.
Ordered ==
  /\ \A q, o \in Askers : Active(asking[q]) /\ Active(asking[o]) /\ q # o =>
        /\ asking[q].created # asking[o].created
        /\ asking[q].key.scope = asking[o].key.scope /\ asking[q].created < asking[o].created
             => asking[q].before <= asking[o].before
  /\ \A r \in rows : r.created <= started /\ r.scope = r.key.scope
  /\ \A r \in rows, q \in Askers : Active(asking[q]) => r.created # asking[q].created

\* What a refresh left behind, for the rows and for the computations under way.
Refreshed ==
  /\ \A k \in CacheKeys : refreshed[k] <= lines[k.scope]
  /\ \A k \in CacheKeys : \A r \in load_from_cache(k) : r.total >= refreshed[k]
  /\ \A q \in Askers : Active(asking[q]) =>
        \/ refreshed[asking[q].key] <= asking[q].before
        \/ \E r \in rows : r.key = asking[q].key /\ r.created > asking[q].created
  /\ \A q \in Askers, r \in rows :
        Active(asking[q]) /\ r.key = asking[q].key /\ r.created > asking[q].created
          => asking[q].before <= refreshed[r.key]

CacheInv == CacheTypes /\ Ordered /\ Refreshed /\ RepliesAreRight

CoreInv == CacheTypes /\ Ordered /\ Refreshed

USE ExplainConstants

LEMMA WaitingType == Waiting \in AskerState
<1>1. CacheKeys # {}
  <2>1. PICK s \in LogScopes : TRUE
    OBVIOUS
  <2>2. [scope |-> s, llm |-> TRUE] \in CacheKeys
    BY DEF CacheKeys
  <2> QED
    BY <2>2
<1>2. Waiting.key \in CacheKeys
  BY <1>1 DEF Waiting
<1> QED
  BY <1>2 DEF Waiting, AskerState

LEMMA WaitingIdle == ~Active(Waiting) /\ ~NoReply.cached /\ NoReply.mode = "none"
                     /\ NoReply.text = "none" /\ NoReply.confidence.calibrated = FALSE
                     /\ NoReply.confidence.score = "rank"
  BY DEF Active, Waiting, NoReply

LEMMA NoReplyIsRight == ASSUME reply' = NoReply PROVE RepliesAreRight'
  BY WaitingIdle DEF RepliesAreRight, ReplyFitsRequest, RefreshNotUndone, CalibratedIsProbability

\* A request that ends leaves the others' order as it was.
LEMMA AskerEnds ==
  ASSUME CoreInv, NEW q \in Askers, asking' = [asking EXCEPT ![q] = Waiting],
         UNCHANGED <<calibrator, lines, started, rows, refreshed>>
  PROVE  CoreInv'
<1>1. \A o \in Askers : Active(asking'[o]) => o # q /\ asking'[o] = asking[o]
  BY WaitingIdle DEF CoreInv, CacheTypes
<1>2. CacheTypes'
  <2>1. asking' \in [Askers -> AskerState]
    BY WaitingType DEF CoreInv, CacheTypes
  <2>2. ASSUME NEW o \in Askers PROVE Began(asking[o])'
    <3>1. CASE Active(asking'[o])
      BY <1>1, <3>1 DEF CoreInv, CacheTypes, Began
    <3>2. CASE ~Active(asking'[o])
      BY <3>2 DEF Began, Active
    <3> QED
      BY <3>1, <3>2
  <2> QED
    BY <2>1, <2>2 DEF CoreInv, CacheTypes
<1>3. Ordered'
  BY <1>1 DEF CoreInv, Ordered, Active
<1>4. Refreshed'
  BY <1>1 DEF CoreInv, Refreshed, Active, load_from_cache
<1> QED
  BY <1>2, <1>3, <1>4 DEF CoreInv

\* A computation begins: the latest, with all the lines there are in sight.
LEMMA BeginCore ==
  ASSUME CoreInv, NEW q \in Askers, NEW k \in CacheKeys, NEW force \in BOOLEAN,
         NEW structural \in BOOLEAN, BeginExplain(q, k, force, structural)
  PROVE  CoreInv'
<1> DEFINE c == started + 1
           a == [pc |-> "reading", key |-> k, structural |-> structural, created |-> c,
                 before |-> lines[k.scope], total |-> 0]
<1>1. /\ started' = c /\ asking' = [asking EXCEPT ![q] = a]
      /\ calibrator' = calibrator /\ lines' = lines /\ rows' = rows /\ refreshed' = refreshed
  BY DEF BeginExplain
<1>2. /\ a.pc = "reading" /\ a.key = k /\ a.structural = structural /\ a.created = c
      /\ a.before = lines[k.scope] /\ a.total = 0
  OBVIOUS
<1>3. c \in Nat /\ started < c /\ started \in Nat
  BY DEF CoreInv, CacheTypes
<1>4. k.scope \in LogScopes /\ lines[k.scope] \in Nat
  BY DEF CacheKeys, CoreInv, CacheTypes
<1> HIDE DEF c
<1>type. a \in AskerState
  BY <1>3, <1>4 DEF AskerState
<1> HIDE DEF a
<1>5. asking'[q] = a /\ \A o \in Askers : o # q => asking'[o] = asking[o]
  BY <1>1 DEF CoreInv, CacheTypes
<1>6. \A o \in Askers : Active(asking[o]) =>
        /\ asking[o].created \in Nat /\ asking[o].created < c /\ asking[o].before \in Nat
        /\ asking[o].key \in CacheKeys /\ asking[o].before <= lines[asking[o].key.scope]
  BY <1>3 DEF CoreInv, CacheTypes, AskerState, Began
<1>7. \A r \in rows : r.created \in Nat /\ r.created < c
  BY <1>3 DEF CoreInv, CacheTypes, Ordered, SavedRow
<1>8. CacheTypes'
  <2>1. asking' \in [Askers -> AskerState]
    BY <1>1, <1>type DEF CoreInv, CacheTypes
  <2>2. ASSUME NEW o \in Askers PROVE Began(asking[o])'
    <3>1. CASE o = q
      BY <1>1, <1>2, <1>3, <1>4, <1>5, <3>1 DEF Began
    <3>2. CASE o # q
      BY <1>1, <1>3, <1>5, <1>6, <3>2 DEF CoreInv, CacheTypes, Began, Active
    <3> QED
      BY <3>1, <3>2
  <2> QED
    BY <1>1, <1>3, <2>1, <2>2 DEF CoreInv, CacheTypes
<1>9. Ordered'
  <2>1. ASSUME NEW u \in Askers, NEW o \in Askers, Active(asking'[u]), Active(asking'[o]), u # o
        PROVE  /\ asking'[u].created # asking'[o].created
               /\ asking'[u].key.scope = asking'[o].key.scope
                  /\ asking'[u].created < asking'[o].created
                  => asking'[u].before <= asking'[o].before
    <3>1. CASE u = q
      BY <1>2, <1>3, <1>5, <1>6, <2>1, <3>1
    <3>2. CASE o = q
      BY <1>2, <1>3, <1>5, <1>6, <2>1, <3>2
    <3>3. CASE u # q /\ o # q
      BY <1>5, <2>1, <3>3 DEF CoreInv, Ordered
    <3> QED
      BY <3>1, <3>2, <3>3
  <2>2. ASSUME NEW r \in rows, NEW o \in Askers, Active(asking'[o])
        PROVE  r.created # asking'[o].created
    BY <1>2, <1>3, <1>5, <1>7, <2>2 DEF CoreInv, Ordered
  <2>3. \A r \in rows : r.created <= c /\ r.scope = r.key.scope
    BY <1>3, <1>7 DEF CoreInv, Ordered
  <2> QED
    BY <1>1, <2>1, <2>2, <2>3 DEF Ordered, Active
<1>10. Refreshed'
  <2>1. \A o \in Askers : Active(asking'[o]) =>
          \/ refreshed[asking'[o].key] <= asking'[o].before
          \/ \E r \in rows : r.key = asking'[o].key /\ r.created > asking'[o].created
    BY <1>2, <1>4, <1>5 DEF CoreInv, Refreshed
  <2>2. \A o \in Askers, r \in rows :
          Active(asking'[o]) /\ r.key = asking'[o].key /\ r.created > asking'[o].created
            => asking'[o].before <= refreshed[r.key]
    BY <1>2, <1>3, <1>5, <1>7 DEF CoreInv, Refreshed
  <2> QED
    BY <1>1, <2>1, <2>2 DEF CoreInv, Refreshed, Active, load_from_cache
<1> QED
  BY <1>8, <1>9, <1>10 DEF CoreInv

\* A computation reads the window: at least the lines there were before.
LEMMA ReadCore ==
  ASSUME CoreInv, NEW q \in Askers, ReadWindow(q)
  PROVE  CoreInv'
<1> DEFINE a == asking[q]
           b == [a EXCEPT !.pc = "rendering", !.total = lines[a.key.scope]]
<1>1. /\ a.pc = "reading" /\ asking' = [asking EXCEPT ![q] = b]
      /\ UNCHANGED <<calibrator, lines, started, rows, refreshed>>
  BY DEF ReadWindow, CoreInv, CacheTypes
<1>2. /\ a \in AskerState /\ Began(a) /\ Active(a)
      /\ lines \in [LogScopes -> Nat] /\ a.key.scope \in LogScopes
  BY <1>1 DEF CoreInv, CacheTypes, Active, AskerState, CacheKeys
<1>3. b \in AskerState
  BY <1>2 DEF AskerState
<1>4. /\ b.key = a.key /\ b.created = a.created /\ b.before = a.before
      /\ b.total = lines[a.key.scope] /\ b.pc = "rendering"
  BY <1>2 DEF AskerState
<1> HIDE DEF a, b
<1>5. asking'[q] = b /\ asking[q] = a /\ \A o \in Askers : o # q => asking'[o] = asking[o]
  BY <1>1 DEF CoreInv, CacheTypes, a
<1>6. \A o \in Askers : /\ asking'[o].key = asking[o].key
                        /\ asking'[o].created = asking[o].created
                        /\ asking'[o].before = asking[o].before
                        /\ Active(asking'[o]) <=> Active(asking[o])
  BY <1>2, <1>4, <1>5 DEF Active
<1>7. CacheTypes'
  <2>1. asking' \in [Askers -> AskerState]
    BY <1>1, <1>3 DEF CoreInv, CacheTypes
  <2>2. ASSUME NEW o \in Askers PROVE Began(asking[o])'
    BY <1>1, <1>2, <1>4, <1>5 DEF CoreInv, CacheTypes, Began, Active
  <2> QED
    BY <1>1, <2>1, <2>2 DEF CoreInv, CacheTypes
<1>8. Ordered'
  BY <1>1, <1>6 DEF CoreInv, Ordered, Active
<1>9. Refreshed'
  BY <1>1, <1>6 DEF CoreInv, Refreshed, Active, load_from_cache
<1> QED
  BY <1>7, <1>8, <1>9 DEF CoreInv

\* A new line is one that nobody who read before has seen.
LEMMA AddCore ==
  ASSUME CoreInv, NEW s \in LogScopes, AddLine(s)
  PROVE  CoreInv'
<1> DEFINE n == lines[s] + 1
<1>1. /\ lines' = [lines EXCEPT ![s] = n]
      /\ UNCHANGED <<calibrator, started, asking, rows, refreshed>>
  BY DEF AddLine, CoreInv, CacheTypes
<1>2. n \in Nat /\ lines[s] <= n /\ lines \in [LogScopes -> Nat]
  BY DEF CoreInv, CacheTypes
<1> HIDE DEF n
<1>3. lines' \in [LogScopes -> Nat] /\ \A o \in LogScopes : lines[o] <= lines'[o]
  BY <1>1, <1>2
<1>4. \A k \in CacheKeys : k.scope \in LogScopes
  BY DEF CacheKeys
<1>5. CacheTypes'
  <2>1. ASSUME NEW q \in Askers PROVE Began(asking[q])'
    <3>1. /\ asking[q].before \in Nat /\ asking[q].key.scope \in LogScopes
          /\ Began(asking[q])
      BY <1>4 DEF CoreInv, CacheTypes, AskerState
    <3> QED
      BY <1>1, <1>2, <1>3, <3>1 DEF Began, Active
  <2> QED
    BY <1>1, <1>3, <2>1 DEF CoreInv, CacheTypes
<1>6. Ordered'
  BY <1>1 DEF CoreInv, Ordered, Active
<1>7. Refreshed'
  <2>1. \A k \in CacheKeys : refreshed[k] <= lines'[k.scope]
    BY <1>2, <1>3, <1>4 DEF CoreInv, CacheTypes, Refreshed
  <2> QED
    BY <1>1, <2>1 DEF CoreInv, Refreshed, Active, load_from_cache
<1> QED
  BY <1>5, <1>6, <1>7 DEF CoreInv

\* Retention takes the oldest row: never the latest of a key that has another.
LEMMA ExpireCore ==
  ASSUME CoreInv, ExpireRow
  PROVE  CoreInv'
<1>1. PICK r \in rows : /\ \A o \in rows : r.created <= o.created
                        /\ \A q \in Askers : asking[q].pc # "idle" => r.created < asking[q].created
                        /\ rows' = rows \ {r}
  BY DEF ExpireRow
<1>2. UNCHANGED <<calibrator, lines, started, asking, refreshed>>
  BY DEF ExpireRow
<1>3. CacheTypes'
  BY <1>1, <1>2 DEF CoreInv, CacheTypes, Began, Active
<1>4. Ordered'
  BY <1>1, <1>2 DEF CoreInv, Ordered, Active
<1>5. \A o \in rows : o.created \in Nat
  BY DEF CoreInv, CacheTypes, SavedRow
<1>6. \A q \in Askers : asking[q].created \in Nat
  BY DEF CoreInv, CacheTypes, AskerState
<1>7. Refreshed'
  <2>1. \A k \in CacheKeys : \A o \in rows' :
          /\ cache_key(o.key) = cache_key(k)
          /\ \A u \in rows' : cache_key(u.key) = cache_key(k) => u.created <= o.created
          => o.total >= refreshed[k]
    BY <1>1 DEF CoreInv, Refreshed, load_from_cache
  <2>2. \A q \in Askers : Active(asking[q]) =>
          \/ refreshed[asking[q].key] <= asking[q].before
          \/ \E o \in rows' : o.key = asking[q].key /\ o.created > asking[q].created
    <3> SUFFICES ASSUME NEW q \in Askers, Active(asking[q]),
                        ~(refreshed[asking[q].key] <= asking[q].before)
                 PROVE  \E o \in rows' : o.key = asking[q].key /\ o.created > asking[q].created
      OBVIOUS
    <3>1. PICK o \in rows : o.key = asking[q].key /\ o.created > asking[q].created
      BY DEF CoreInv, Refreshed
    <3>2. o # r
      BY <1>1, <1>5, <1>6, <3>1 DEF Active
    <3> QED
      BY <1>1, <3>1, <3>2
  <2>3. \A k \in CacheKeys : \A o \in load_from_cache(k)' : o.total >= refreshed[k]
    BY <2>1 DEF load_from_cache
  <2> QED
    BY <1>1, <1>2, <2>2, <2>3 DEF CoreInv, Refreshed, Active
<1> QED
  BY <1>3, <1>4, <1>7 DEF CoreInv

\* A saved computation: a row of its key, and a refresh if it saw more.
Saves(a, r) ==
  /\ r \in SavedRow /\ r.key = a.key /\ r.scope = a.key.scope
  /\ r.created = a.created /\ r.total = a.total
  /\ rows' = rows \cup {r}
  /\ refreshed' = IF a.before > refreshed[a.key] THEN [refreshed EXCEPT ![a.key] = a.before]
                  ELSE refreshed

\* The row of a slow computation that ends late: either it is the latest of its
\* key and saw every earlier refresh, or a later computation's row is served.
LEMMA SaveCore ==
  ASSUME CoreInv, NEW q \in Askers, asking[q].pc = "rendering", NEW r, Saves(asking[q], r),
         asking' = [asking EXCEPT ![q] = Waiting], UNCHANGED <<calibrator, lines, started>>
  PROVE  CoreInv'
<1> DEFINE a == asking[q]
<1>1. /\ a \in AskerState /\ Began(a) /\ Active(a)
      /\ a.created \in Nat /\ a.before \in Nat /\ a.total \in Nat /\ a.key \in CacheKeys
      /\ a.before <= a.total /\ a.created <= started /\ a.before <= lines[a.key.scope]
  BY DEF CoreInv, CacheTypes, AskerState, Began, Active
<1>2. \A o \in Askers : Active(asking'[o]) => o # q /\ asking'[o] = asking[o]
  BY WaitingIdle DEF CoreInv, CacheTypes
<1>3. \A o \in rows : o.created \in Nat /\ o.total \in Nat /\ o.key \in CacheKeys
  BY DEF CoreInv, CacheTypes, SavedRow
<1>4. \A o \in Askers : /\ asking[o].created \in Nat /\ asking[o].before \in Nat
                        /\ asking[o].key \in CacheKeys
  BY DEF CoreInv, CacheTypes, AskerState
<1>5. /\ refreshed \in [CacheKeys -> Nat] /\ refreshed' \in [CacheKeys -> Nat]
      /\ \A k \in CacheKeys : k # a.key => refreshed'[k] = refreshed[k]
      /\ a.before <= refreshed'[a.key] /\ refreshed[a.key] <= refreshed'[a.key]
      /\ refreshed'[a.key] \in {a.before, refreshed[a.key]}
  BY <1>1 DEF Saves, CoreInv, CacheTypes
<1>6. /\ r \in SavedRow /\ r.key = a.key /\ r.created = a.created /\ r.total = a.total
      /\ r.scope = r.key.scope /\ rows' = rows \cup {r}
  BY DEF Saves
<1>7. started \in Nat /\ lines \in [LogScopes -> Nat] /\ \A k \in CacheKeys : k.scope \in LogScopes
  BY DEF CoreInv, CacheTypes, CacheKeys
<1>8. CacheTypes'
  <2>1. asking' \in [Askers -> AskerState]
    BY WaitingType DEF CoreInv, CacheTypes
  <2>2. ASSUME NEW o \in Askers PROVE Began(asking[o])'
    BY <1>2 DEF CoreInv, CacheTypes, Began, Active
  <2> QED
    BY <1>5, <1>6, <2>1, <2>2 DEF CoreInv, CacheTypes
<1>9. Ordered'
  <2>1. \A o \in Askers : Active(asking'[o]) => r.created # asking'[o].created
    BY <1>1, <1>2, <1>6 DEF CoreInv, Ordered
  <2>2. r.created <= started /\ r.scope = r.key.scope
    BY <1>1, <1>6
  <2> QED
    BY <1>2, <1>6, <2>1, <2>2 DEF CoreInv, Ordered, Active
<1> HIDE DEF a
<1>10. ASSUME NEW o \in Askers, Active(asking'[o])
       PROVE  /\ asking'[o] = asking[o] /\ asking[o].created # a.created
              /\ asking[o].key = a.key =>
                   /\ asking[o].created < a.created => asking[o].before <= a.before
                   /\ a.created < asking[o].created => a.before <= asking[o].before
  BY <1>1, <1>2, <1>10 DEF CoreInv, Ordered, a
<1>11. \A o \in rows : o.key = a.key => o.created # a.created
                         /\ (o.created > a.created => a.before <= refreshed[a.key])
  BY <1>1 DEF CoreInv, Ordered, Refreshed, a
<1>12. Refreshed'
  <2>1. \A k \in CacheKeys : refreshed'[k] <= lines[k.scope]
    BY <1>1, <1>5, <1>7 DEF CoreInv, Refreshed
  <2>2. ASSUME NEW k \in CacheKeys, NEW o \in load_from_cache(k)' PROVE o.total >= refreshed'[k]
    <3>1. /\ o \in rows \cup {r} /\ o.key = k
          /\ \A u \in rows \cup {r} : u.key = k => u.created <= o.created
      BY <1>6, <2>2 DEF load_from_cache, cache_key
    <3>2. CASE k # a.key
      <4>1. o \in load_from_cache(k)
        BY <1>6, <3>1, <3>2 DEF load_from_cache, cache_key
      <4> QED
        BY <1>5, <3>2, <4>1 DEF CoreInv, Refreshed
    <3>3. CASE k = a.key /\ o = r
      <4>1. refreshed[k] <= a.before
        <5>1. SUFFICES ASSUME NEW u \in rows, u.key = k, u.created > a.created PROVE FALSE
          BY <1>1, <3>3 DEF CoreInv, Refreshed, a
        <5> QED
          BY <1>1, <1>3, <1>6, <3>1, <3>3, <5>1
      <4> QED
        BY <1>1, <1>5, <1>6, <3>3, <4>1
    <3>4. CASE k = a.key /\ o # r
      <4>1. o \in rows /\ o \in load_from_cache(k)
        BY <1>6, <3>1, <3>4 DEF load_from_cache, cache_key
      <4>2. o.created > a.created
        BY <1>1, <1>3, <1>6, <1>11, <3>1, <3>4, <4>1
      <4>3. refreshed'[k] = refreshed[k]
        BY <1>1, <1>5, <1>11, <3>1, <3>4, <4>1, <4>2
      <4> QED
        BY <4>1, <4>3 DEF CoreInv, Refreshed
    <3> QED
      BY <3>2, <3>3, <3>4
  <2>3. ASSUME NEW o \in Askers, Active(asking'[o])
        PROVE  \/ refreshed'[asking'[o].key] <= asking'[o].before
               \/ \E u \in rows' : u.key = asking'[o].key /\ u.created > asking'[o].created
    <3>1. asking'[o] = asking[o] /\ Active(asking[o])
      BY <1>10, <2>3
    <3>2. CASE \E u \in rows : u.key = asking[o].key /\ u.created > asking[o].created
      BY <1>6, <3>1, <3>2
    <3>3. CASE ~\E u \in rows : u.key = asking[o].key /\ u.created > asking[o].created
      <4>1. refreshed[asking[o].key] <= asking[o].before
        BY <3>1, <3>3 DEF CoreInv, Refreshed
      <4>2. CASE asking[o].key = a.key /\ asking[o].created < a.created
        BY <1>6, <3>1, <4>2
      <4>3. CASE asking[o].key = a.key /\ a.created < asking[o].created
        BY <1>4, <1>5, <1>10, <2>3, <3>1, <4>1, <4>3
      <4>4. CASE asking[o].key # a.key
        BY <1>4, <1>5, <3>1, <4>1, <4>4
      <4> QED
        BY <1>1, <1>4, <1>10, <2>3, <4>2, <4>3, <4>4
    <3> QED
      BY <3>2, <3>3
  <2>4. ASSUME NEW o \in Askers, NEW u \in rows', Active(asking'[o]), u.key = asking'[o].key,
               u.created > asking'[o].created
        PROVE  asking'[o].before <= refreshed'[u.key]
    <3>1. asking'[o] = asking[o] /\ Active(asking[o])
      BY <1>10, <2>4
    <3>2. CASE u \in rows
      <4>1. asking[o].before <= refreshed[u.key] /\ u.key \in CacheKeys
        BY <1>3, <2>4, <3>1, <3>2 DEF CoreInv, Refreshed
      <4>2. refreshed[u.key] <= refreshed'[u.key]
        BY <1>5, <4>1
      <4>3. refreshed[u.key] \in Nat /\ refreshed'[u.key] \in Nat /\ asking[o].before \in Nat
        BY <1>4, <1>5, <4>1
      <4> QED
        BY <3>1, <4>1, <4>2, <4>3
    <3>3. CASE u = r
      BY <1>1, <1>4, <1>5, <1>6, <1>10, <2>4, <3>1, <3>3
    <3> QED
      BY <1>6, <3>2, <3>3
  <2> QED
    BY <2>1, <2>2, <2>3, <2>4 DEF Refreshed, Active
<1> QED
  BY <1>8, <1>9, <1>12 DEF CoreInv

\* What a computation answers, and what it saves.
LEMMA ResultFacts ==
  ASSUME NEW a \in AskerState, NEW mode \in {"llm", "rules"}, calibrator \in BOOLEAN,
         mode = "llm" => a.key.llm, a.key.llm \in BOOLEAN
  PROVE  LET made == explain_from_result(a, mode)
         IN /\ ~made.cached /\ made.asked = a.key /\ made.scope = a.key.scope /\ made.mode = mode
            /\ made.total = a.total /\ made.text = IF mode = "llm" THEN "llm" ELSE "template"
            /\ made.fell_back = (a.key.llm /\ made.text = "template")
            /\ made.confidence \in [label : {"high", "low"}, score : {"rank", "probability"},
                                    calibrated : BOOLEAN]
            /\ made.confidence.calibrated <=> made.confidence.score = "probability"
<1> DEFINE cal == calibrator /\ a.total > 0
           conf == [label |-> IF a.total > 0 THEN "high" ELSE "low",
                    score |-> IF cal THEN "probability" ELSE "rank", calibrated |-> cal]
           made == explain_from_result(a, mode)
<1>1. cal \in BOOLEAN
  OBVIOUS
<1>2. /\ ~made.cached /\ made.asked = a.key /\ made.scope = a.key.scope /\ made.mode = mode
      /\ made.total = a.total /\ made.text = IF mode = "llm" THEN "llm" ELSE "template"
  BY DEF explain_from_result
<1>3. made.fell_back = (a.key.llm /\ mode # "llm")
  BY DEF explain_from_result, fell_back
<1>4. made.confidence = conf
  BY DEF explain_from_result
<1> HIDE DEF cal, made
<1>5. /\ conf \in [label : {"high", "low"}, score : {"rank", "probability"}, calibrated : BOOLEAN]
      /\ conf.calibrated <=> conf.score = "probability"
  BY <1>1
<1>6. made.fell_back = (a.key.llm /\ made.text = "template")
  BY <1>2, <1>3
<1> HIDE DEF conf
<1> QED
  BY <1>2, <1>4, <1>5, <1>6 DEF made

\* A finished computation answers its own request and may leave a row.
LEMMA FinishBoth ==
  ASSUME CoreInv, NEW q \in Askers, FinishExplain(q)
  PROVE  CoreInv' /\ RepliesAreRight'
<1> DEFINE a == asking[q]
<1>1. /\ a.pc = "rendering" /\ asking' = [asking EXCEPT ![q] = Waiting]
      /\ UNCHANGED <<calibrator, lines, started>>
  BY DEF FinishExplain
<1>2. a \in AskerState /\ a.key \in CacheKeys /\ a.key.llm \in BOOLEAN /\ calibrator \in BOOLEAN
  BY DEF CoreInv, CacheTypes, AskerState, CacheKeys
<1>3. PICK mode \in {"llm", "rules"} :
        /\ mode = "llm" => a.key.llm
        /\ reply' = explain_from_result(a, mode)
        /\ rows' = IF saves(a, mode)
                   THEN rows \cup {[key |-> a.key, created |-> a.created,
                          scope |-> explain_from_result(a, mode).scope,
                          total |-> explain_from_result(a, mode).total, mode |-> mode,
                          text |-> explain_from_result(a, mode).text,
                          confidence |-> explain_from_result(a, mode).confidence]}
                   ELSE rows
        /\ refreshed' = IF saves(a, mode) /\ a.before > refreshed[a.key]
                        THEN [refreshed EXCEPT ![a.key] = a.before] ELSE refreshed
  BY DEF FinishExplain
<1> DEFINE made == explain_from_result(a, mode)
           r == [key |-> a.key, created |-> a.created, scope |-> made.scope, total |-> made.total,
                 mode |-> mode, text |-> made.text, confidence |-> made.confidence]
<1>4. /\ ~made.cached /\ made.asked = a.key /\ made.scope = a.key.scope /\ made.mode = mode
      /\ made.total = a.total /\ made.text = IF mode = "llm" THEN "llm" ELSE "template"
      /\ made.fell_back = (a.key.llm /\ made.text = "template")
      /\ made.confidence \in [label : {"high", "low"}, score : {"rank", "probability"},
                              calibrated : BOOLEAN]
      /\ made.confidence.calibrated <=> made.confidence.score = "probability"
  BY <1>2, <1>3, ResultFacts
<1>5. reply' = made
  BY <1>3
<1> HIDE DEF made
<1>6. RepliesAreRight'
  BY <1>2, <1>3, <1>4, <1>5
  DEF RepliesAreRight, ReplyFitsRequest, RefreshNotUndone, CalibratedIsProbability
<1>7. CoreInv'
  <2>1. CASE saves(a, mode)
    <3>1. mode = "rules" /\ rows' = rows \cup {r}
      BY <1>3, <2>1 DEF saves, made
    <3>2. a.created \in Nat /\ a.total \in Nat /\ a.key.scope \in LogScopes
      BY <1>2 DEF AskerState, CacheKeys
    <3> HIDE DEF a
    <3>3. r \in SavedRow
      BY <1>2, <1>4, <3>1, <3>2 DEF SavedRow
    <3>4. r.key = a.key /\ r.scope = a.key.scope /\ r.created = a.created /\ r.total = a.total
      BY <1>4
    <3> HIDE DEF r
    <3>5. refreshed' = IF a.before > refreshed[a.key] THEN [refreshed EXCEPT ![a.key] = a.before]
                       ELSE refreshed
      BY <1>3, <2>1
    <3>6. Saves(a, r)
      BY <3>1, <3>3, <3>4, <3>5 DEF Saves
    <3> QED
      BY <1>1, <3>6, SaveCore DEF a
  <2>2. CASE ~saves(a, mode)
    <3>1. rows' = rows /\ refreshed' = refreshed
      BY <1>3, <2>2
    <3> QED
      BY <1>1, <3>1, AskerEnds
  <2> QED
    BY <2>1, <2>2
<1> QED
  BY <1>6, <1>7

\* A row of the table is a template without a calibrated flag that was computed
\* for the key's scope, from no fewer lines than the latest refresh saw.
LEMMA ServeBoth ==
  ASSUME CoreInv, NEW q \in Askers, NEW k \in CacheKeys, ServeCached(q, k)
  PROVE  CoreInv' /\ RepliesAreRight'
<1>1. PICK r \in load_from_cache(k) : reply' = explain_from_cached(r, k)
  BY DEF ServeCached
<1>2. r \in rows /\ r.key = k /\ r.total >= refreshed[k]
  BY DEF load_from_cache, cache_key, CoreInv, Refreshed
<1>3. /\ r.mode = "rules" /\ r.text = "template" /\ r.scope = k.scope
  BY <1>2 DEF CoreInv, CacheTypes, SavedRow, Ordered
<1>4. /\ reply'.cached /\ reply'.asked = k /\ reply'.scope = r.scope /\ reply'.total = r.total
      /\ reply'.mode = "rules" /\ reply'.text = "template" /\ reply'.floor = refreshed[k]
      /\ reply'.fell_back = (k.llm /\ "rules" # "llm")
      /\ ~reply'.confidence.calibrated
  BY <1>1, <1>3 DEF explain_from_cached, fell_back, confidence_from_value
<1>5. RepliesAreRight'
  BY <1>2, <1>3, <1>4
  DEF RepliesAreRight, ReplyFitsRequest, RefreshNotUndone, CalibratedIsProbability
<1>6. UNCHANGED <<calibrator, lines, started, asking, rows, refreshed>>
  BY DEF ServeCached
<1> QED
  BY <1>5, <1>6 DEF CoreInv, CacheTypes, Ordered, Refreshed, Began, Active, load_from_cache

LEMMA CacheStep == CacheInv /\ [ExplainNext]_explainVars => CacheInv'
<1> SUFFICES ASSUME CacheInv, [ExplainNext]_explainVars PROVE CoreInv' /\ RepliesAreRight'
  BY DEF CacheInv, CoreInv
<1>0. CoreInv
  BY DEF CacheInv, CoreInv
<1>1. CASE UNCHANGED explainVars
  BY <1>1 DEF explainVars, CacheInv, CoreInv, CacheTypes, Ordered, Refreshed, Began, Active,
      load_from_cache, RepliesAreRight, ReplyFitsRequest, RefreshNotUndone, CalibratedIsProbability
<1>2. ASSUME NEW q \in Askers, NEW k \in CacheKeys, ServeCached(q, k)
      PROVE  CoreInv' /\ RepliesAreRight'
  BY <1>0, <1>2, ServeBoth
<1>3. ASSUME NEW q \in Askers, NEW k \in CacheKeys, NEW force \in BOOLEAN,
             NEW structural \in BOOLEAN, BeginExplain(q, k, force, structural)
      PROVE  CoreInv' /\ RepliesAreRight'
  BY <1>0, <1>3, BeginCore, NoReplyIsRight DEF BeginExplain
<1>4. ASSUME NEW q \in Askers, ReadWindow(q) \/ FinishExplain(q) \/ FailExplain(q)
      PROVE  CoreInv' /\ RepliesAreRight'
  BY <1>0, <1>4, ReadCore, FinishBoth, AskerEnds, NoReplyIsRight DEF ReadWindow, FailExplain
<1>5. ASSUME NEW s \in LogScopes, AddLine(s) PROVE CoreInv' /\ RepliesAreRight'
  BY <1>0, <1>5, AddCore, NoReplyIsRight DEF AddLine
<1>6. CASE ExpireRow
  BY <1>0, <1>6, ExpireCore, NoReplyIsRight DEF ExpireRow
<1> QED
  BY <1>1, <1>2, <1>3, <1>4, <1>5, <1>6 DEF ExplainNext

LEMMA CacheInit == ExplainInit => CacheInv
<1> SUFFICES ASSUME ExplainInit PROVE CacheInv
  OBVIOUS
<1>1. CacheTypes /\ Ordered /\ Refreshed
  BY WaitingType, WaitingIdle
  DEF ExplainInit, CacheTypes, Ordered, Refreshed, Began, CacheKeys, load_from_cache
<1>2. RepliesAreRight
  BY WaitingIdle
  DEF ExplainInit, RepliesAreRight, ReplyFitsRequest, RefreshNotUndone, CalibratedIsProbability
<1> QED
  BY <1>1, <1>2 DEF CacheInv

\* Every response is right for who gets it, whatever computations, commits,
\* ingestion, expiry and failures happen meanwhile and in whatever order.
THEOREM RepliesRight == ExplainSpec => []RepliesAreRight
<1>1. CacheInv => RepliesAreRight
  BY DEF CacheInv
<1> QED
  BY <1>1, CacheInit, CacheStep, PTL DEF ExplainSpec
-----------------------------------------------------------------------------
(* The tunables of a query.  Every value a key's defaults hold was checked  *)
(* when it was stored, the principal is a copy of those defaults, and what  *)
(* a request was answered is what its layers resolve to.                   *)

\* Tunables in bounds, or nothing said of them.
Checked(layer) == \A f \in Tunables : layer[f] = Omitted \/ accepted(f, layer[f])

Answered == resolved.status # "open" /\ resolved.status # "idle"

OverrideInv ==
  /\ server \in Servers
  /\ Checked(stored) /\ stored["llm_enabled"] \in Switch
  /\ Checked(principal) /\ principal["llm_enabled"] \in Switch
  /\ body.layer["llm_enabled"] \in Switch /\ body.no_llm \in Switch
  /\ Answered => resolved = resolve_query_overrides(body)

LEMMA NothingSaid ==
  /\ Checked(NoDefaults) /\ NoDefaults["llm_enabled"] = Omitted
  /\ \A f \in Tunables : NoDefaults[f] = Omitted
BY DEF Checked, NoDefaults, Tunables

LEMMA OverrideStart == OverrideInit => OverrideInv
<1> SUFFICES ASSUME OverrideInit PROVE OverrideInv
  OBVIOUS
<1>1. ~Answered
  BY DEF OverrideInit, Answered, Outcome
<1> QED
  BY <1>1, NothingSaid DEF OverrideInit, OverrideInv, NoBody, Switch

\* A merge keeps what was checked and checks what it takes.
LEMMA MergeChecked ==
  ASSUME NEW u \in Updates, NEW old, Checked(old), old["llm_enabled"] \in Switch,
         NEW new \in merge_key_config(u, old)
  PROVE  Checked(new) /\ new["llm_enabled"] \in Switch
<1>1. new = [f \in Tunables |-> IF u[f] # Omitted THEN u[f] ELSE old[f]]
  BY DEF merge_key_config
<1>2. \A f \in Tunables : u[f] # Omitted => accepted(f, u[f])
  BY DEF merge_key_config
<1>3. Checked(new)
  BY <1>1, <1>2 DEF Checked
<1>4. "llm_enabled" \in Tunables
  BY DEF Tunables
<1>5. u["llm_enabled"] \in Switch
  BY OverrideConstants
<1> QED
  BY <1>1, <1>3, <1>4, <1>5

LEMMA OverrideStep == OverrideInv /\ [OverrideNext]_overrideVars => OverrideInv'
<1> SUFFICES ASSUME OverrideInv, [OverrideNext]_overrideVars PROVE OverrideInv'
  OBVIOUS
<1>1. CASE UNCHANGED overrideVars
  BY <1>1 DEF overrideVars, OverrideInv, Answered, resolve_query_overrides, key_layer
<1>2. ASSUME NEW u \in Updates, set_api_key_defaults(u) PROVE OverrideInv'
  <2>1. UNCHANGED <<server, principal, body, resolved>> /\ stored' \in merge_key_config(u, stored)
    BY <1>2 DEF set_api_key_defaults
  <2>2. Checked(stored') /\ stored'["llm_enabled"] \in Switch
    BY <2>1, MergeChecked DEF OverrideInv
  <2> QED
    BY <2>1, <2>2 DEF OverrideInv, Answered, resolve_query_overrides, key_layer
<1>3. CASE clear_api_key_defaults
  BY <1>3, NothingSaid, ZenonT(40)
  DEF clear_api_key_defaults, OverrideInv, Answered, resolve_query_overrides, key_layer, Switch
<1>4. ASSUME NEW b \in Bodies, Arrive(b) PROVE OverrideInv'
  <2>1. ~Answered'
    BY <1>4 DEF Arrive, Answered, Outcome
  <2>2. b.layer["llm_enabled"] \in Switch /\ b.no_llm \in Switch
    BY OverrideConstants
  <2> QED
    BY <1>4, <2>1, <2>2 DEF Arrive, OverrideInv
<1>5. CASE Resolve
  BY <1>5 DEF Resolve, OverrideInv, resolve_query_overrides, key_layer
<1> QED
  BY <1>1, <1>2, <1>3, <1>4, <1>5 DEF OverrideNext

Settled == Tunables \ {"llm_enabled"}

Raw(layer, key, below) == [f \in Settled |-> coalesce(layer[f], key[f], below[f])]

\* With nothing in the request, each tunable is the key's checked default or
\* the server's setting, which is in bounds.
LEMMA KeyUsable == OverrideInv => KeyStaysUsable
<1> SUFFICES ASSUME OverrideInv, \A f \in Settled : accepted(f, server.layer[f]), body = NoBody
             PROVE  resolved.status # "refused"
  BY DEF KeyStaysUsable, Settled
<1>1. CASE ~Answered
  BY <1>1 DEF Answered
<1>2. CASE Answered
  <2> DEFINE raw == Raw(body.layer, key_layer, server.layer)
  <2>1. \A f \in Settled : body.layer[f] = Omitted
    BY NothingSaid DEF NoBody, Settled
  <2>2. \A f \in Settled : key_layer[f] = Omitted \/ accepted(f, key_layer[f])
    BY NothingSaid DEF OverrideInv, Checked, key_layer, Settled
  <2>3. \A f \in Settled : raw[f] = (IF key_layer[f] # Omitted THEN key_layer[f] ELSE server.layer[f])
    BY <2>1 DEF Raw, coalesce
  <2>4. \A f \in Settled : accepted(f, raw[f])
    BY <2>2, <2>3
  <2>5. {f \in DOMAIN raw : ~accepted(f, raw[f])} = {}
    BY <2>4 DEF Raw
  <2>6. resolved = resolve_query_overrides(body)
    BY <1>2 DEF OverrideInv
  <2> QED
    BY <2>5, <2>6 DEF resolve_query_overrides, Raw, Settled, Outcome
<1> QED
  BY <1>1, <1>2

\* What a layer says of the LLM, and what it wants.
Says(layer) == layer["llm_enabled"] # Omitted \/ layer["llm_provider"] # Omitted
Wants(layer) == IF layer["llm_enabled"] # Omitted THEN layer["llm_enabled"]
                ELSE layer["llm_provider"] # "disabled"

LEMMA LayerSwitch ==
  ASSUME NEW layer, layer["llm_enabled"] \in Switch, NEW no_llm \in Switch
  PROVE  /\ Says(layer) => /\ enabled_from_layer(layer, no_llm) = Wants(layer)
                           /\ enabled_from_layer(layer, no_llm) # Omitted
         /\ ~Says(layer) /\ no_llm # Omitted =>
               /\ enabled_from_layer(layer, no_llm) = (no_llm = FALSE)
               /\ enabled_from_layer(layer, no_llm) # Omitted
         /\ ~Says(layer) /\ no_llm = Omitted => enabled_from_layer(layer, no_llm) = Omitted
<1>1. CASE layer["llm_enabled"] # Omitted
  BY <1>1 DEF Says, Wants, enabled_from_layer
<1>2. CASE layer["llm_enabled"] = Omitted /\ layer["llm_provider"] # Omitted
  <2>1. (layer["llm_provider"] # "disabled") # Omitted
    BY OverrideConstants
  <2> QED
    BY <1>2, <2>1 DEF Says, Wants, enabled_from_layer
<1>3. CASE ~Says(layer) /\ no_llm # Omitted
  <2>1. no_llm \in BOOLEAN
    BY <1>3 DEF Switch
  <2>2. enabled_from_layer(layer, no_llm) = ~no_llm
    BY <1>3 DEF Says, enabled_from_layer
  <2>3. (~no_llm) = (no_llm = FALSE) /\ (~no_llm) # Omitted
    BY <2>1, OverrideConstants
  <2> QED
    BY <1>3, <2>2, <2>3
<1>4. CASE ~Says(layer) /\ no_llm = Omitted
  BY <1>4 DEF Says, enabled_from_layer
<1> QED
  BY <1>1, <1>2, <1>3, <1>4 DEF Says

LEMMA LlmSwitched == OverrideInv => LlmSwitchedByNearestLayer
<1> SUFFICES ASSUME OverrideInv, resolved.status = "resolved"
             PROVE  LlmSwitchedByNearestLayer
  BY DEF LlmSwitchedByNearestLayer
<1> DEFINE provider == coalesce(body.layer["llm_provider"], key_layer["llm_provider"],
                                server.layer["llm_provider"])
           mine == enabled_from_layer(body.layer, body.no_llm)
           keys == enabled_from_layer(key_layer, Omitted)
           below == server.layer["llm_provider"] # "disabled"
           flag == coalesce(mine, keys, below)
<1>1. resolved = resolve_query_overrides(body)
  BY DEF OverrideInv, Answered
<1>2. resolved.values["llm_provider"] = provider
  BY <1>1 DEF resolve_query_overrides, Outcome, Tunables
<1>3. resolved.values["llm_enabled"] = (flag /\ provider # "disabled")
  BY <1>1 DEF resolve_query_overrides, Outcome, Tunables
<1>4. key_layer["llm_enabled"] \in Switch /\ Omitted \in Switch
  BY NothingSaid DEF key_layer, OverrideInv, Switch
<1>5. ~server.auth => ~Says(key_layer)
  BY NothingSaid DEF key_layer, Says, Tunables
<1>6. server.auth => key_layer = principal
  BY DEF key_layer
<1>7. keys = IF Says(key_layer) THEN Wants(key_layer) ELSE Omitted
  BY <1>4, LayerSwitch
<1>8. flag = IF Says(body.layer) THEN Wants(body.layer)
             ELSE IF body.no_llm # Omitted THEN body.no_llm = FALSE
             ELSE IF Says(key_layer) THEN Wants(key_layer) ELSE below
  BY <1>4, LayerSwitch DEF coalesce, OverrideInv
<1> DEFINE verdict == IF Says(body.layer) THEN Wants(body.layer)
                      ELSE IF body.no_llm # Omitted THEN body.no_llm = FALSE
                      ELSE IF server.auth /\ Says(principal) THEN Wants(principal)
                      ELSE below
<1>9. flag = verdict
  <2> HIDE DEF flag, below
  <2>1. CASE server.auth
    BY <1>6, <1>8, <2>1
  <2>2. CASE ~server.auth
    BY <1>5, <1>8, <2>2
  <2> QED
    BY <2>1, <2>2
<1>10. resolved.values["llm_enabled"] = (resolved.values["llm_provider"] # "disabled" /\ verdict)
  <2> HIDE DEF flag, verdict, provider
  <2> QED
    BY <1>2, <1>3, <1>9
<1> HIDE DEF provider, mine, keys, flag
<1> QED
  BY <1>10, Zenon DEF LlmSwitchedByNearestLayer, Says, Wants

\* Whatever an administrator changes, in whatever order and between whichever
\* requests, a key's plain requests are never refused, and of the layers that
\* speak of the LLM the nearest one wins.
THEOREM OverridesHold == OverrideSpec => []OverridesKeepTheirWord
<1>1. OverrideInv => OverridesKeepTheirWord
  BY KeyUsable, LlmSwitched DEF OverridesKeepTheirWord
<1> QED
  BY <1>1, OverrideStep, OverrideStart, PTL DEF OverrideSpec
-----------------------------------------------------------------------------
(* The paging of adapters.  The cursor, or the start of the window without  *)
(* one, splits the lines: those before it have been given once, but for     *)
(* Loki's lines of a nanosecond at which a full page ended, the others not. *)

PageTokens == [at : Nat, hop : Nat]

\* Where a resumed read starts.
From == IF cursor = NoCursor THEN WindowStart ELSE cursor

Reads == [pc : {"idle", "read", "failed", "ended"}, yielded : Nat, resumes : Nat,
          at : Nat, hop : Nat]

PagingTypes ==
  /\ feed.adapter \in {"loki", "datadog", "cloudwatch"} /\ feed.ts \in Feeds
  /\ reading \in Reads
  /\ cursor \in PageTokens \cup {NoCursor}
  /\ got \in [Positions -> Nat]

\* A line given once, or left out at the seam of two Loki pages.
Covered(l) ==
  \/ got[l] = 1
  \/ /\ got[l] = 0 /\ feed.adapter = "loki"
     /\ \E k \in Positions : k < l /\ got[k] = 1 /\ feed.ts[k] = feed.ts[l]

Before(l, at) == IF feed.adapter = "loki" THEN feed.ts[l] < at ELSE l < at

Split(at) ==
  \A l \in Positions : IF Before(l, at) THEN Covered(l) ELSE got[l] = 0

\* A read under way or broken off stands at the cursor.
ReadStands ==
  /\ reading.pc # "ended" => reading.at = From.at /\ reading.hop = From.hop
  /\ feed.adapter = "datadog" /\ reading.pc \in {"idle", "read"} => reading.yielded < MaxRows

\* A token adapter's cursor is a line or the end, and only CloudWatch answers
\* empty pages on the way; only Loki's own loop condition and Datadog's max_rows
\* end a read with a cursor.
CursorPlace ==
  /\ feed.adapter # "loki" => From.at \in 1 .. Len(feed.ts) + 1
  /\ feed.adapter # "cloudwatch" => From.hop = 0
  /\ reading.pc = "ended" /\ cursor # NoCursor =>
       \/ feed.adapter = "datadog"
       \/ feed.adapter = "loki" /\ cursor.at >= EndNs

PagingInv ==
  /\ PagingTypes /\ ReadStands /\ CursorPlace
  /\ reading.pc # "ended" \/ cursor # NoCursor => Split(From.at)
  /\ reading.pc = "ended" /\ cursor = NoCursor => \A l \in Positions : Covered(l)

LEMMA LeastOf ==
  ASSUME NEW T, T \subseteq Nat, T # {}
  PROVE  \E x \in T : \A y \in T : x <= y
<1>1. PICK x \in T : \A y \in T : ~(<<y, x>> \in OpToRel(<, Nat))
  BY WFMin, NatLessThanWellFounded
<1>2. \A y \in T : ~(y < x)
  BY <1>1 DEF OpToRel
<1> QED
  BY <1>2

\* What the feed is: times of the window, in order.
LEMMA FeedFacts ==
  ASSUME PagingTypes
  PROVE  /\ Len(feed.ts) \in Nat
         /\ \A l \in Positions : feed.ts[l] \in Nat /\ feed.ts[l] < EndNs
         /\ \A i, j \in Positions : i < j => feed.ts[i] <= feed.ts[j]
<1>1. feed.ts \in Seq(0 .. EndNs - 1) /\ \A i, j \in DOMAIN feed.ts : i < j => feed.ts[i] <= feed.ts[j]
  BY PagingConstants DEF PagingTypes
<1>2. DOMAIN feed.ts = Positions /\ Len(feed.ts) \in Nat
  BY <1>1 DEF Positions
<1>3. \A l \in Positions : feed.ts[l] \in 0 .. EndNs - 1
  <2> DEFINE W == 0 .. EndNs - 1
  <2>1. feed.ts \in Seq(W)
    BY <1>1
  <2> HIDE DEF W
  <2>2. \A l \in 1 .. Len(feed.ts) : feed.ts[l] \in W
    BY <2>1
  <2> QED
    BY <2>2 DEF W, Positions
<1> QED
  BY <1>1, <1>2, <1>3, PagingConstants

\* Positions asked for from a line on, as many as there are.
LEMMA TokenPage ==
  ASSUME PagingTypes, NEW at \in 1 .. Len(feed.ts) + 1, NEW size \in Nat
  PROVE  LET page == DatadogPage(at, size)
         IN /\ page = {} <=> (size = 0 \/ at = Len(feed.ts) + 1)
            /\ Cardinality(page) \in Nat
            /\ Cardinality(page) = IF at + size > Len(feed.ts) THEN Len(feed.ts) + 1 - at ELSE size
<1> DEFINE n == Len(feed.ts)
           last == IF at + size > n THEN n ELSE at + size - 1
<1>0. n \in Nat
  BY FeedFacts
<1>1. DatadogPage(at, size) = at .. last
  BY <1>0 DEF DatadogPage, Positions
<1>2. last \in Int /\ at \in Int
  BY <1>0
<1>3. Cardinality(at .. last) = (IF at > last THEN 0 ELSE last - at + 1)
      /\ ((at .. last = {}) <=> at > last)
  <2> HIDE DEF last
  <2>1. Cardinality(at .. last) = (IF at > last THEN 0 ELSE last - at + 1)
    BY <1>2, FS_Interval
  <2>2. (at .. last = {}) <=> at > last
    BY <1>2
  <2> QED
    BY <2>1, <2>2
<1>4. at > last <=> (size = 0 \/ at = n + 1)
  BY <1>0
<1>5. (IF at > last THEN 0 ELSE last - at + 1) = (IF at + size > n THEN n + 1 - at ELSE size)
  BY <1>0
<1>6. (IF at + size > n THEN n + 1 - at ELSE size) \in Nat
  BY <1>0
<1> HIDE DEF last
<1> QED
  BY <1>1, <1>3, <1>4, <1>5, <1>6

\* Yielding what lies between two places of a token adapter moves the split.
LEMMA YieldSplit ==
  ASSUME PagingTypes, feed.adapter # "loki", Split(reading.at), feed' = feed,
         NEW at \in Nat, NEW size \in Nat, reading.at <= at,
         Yield(DatadogPage(reading.at, size)),
         \A l \in Positions : l \in DatadogPage(reading.at, size) <=> (reading.at <= l /\ l < at)
  PROVE  /\ got' \in [Positions -> Nat]
         /\ \A l \in Positions : IF l < at THEN got'[l] = 1 ELSE got'[l] = 0
<1> DEFINE page == DatadogPage(reading.at, size)
<1>1. \A l \in Positions : IF l < reading.at THEN got[l] = 1 ELSE got[l] = 0
  BY DEF Split, Before, Covered
<1>2. got' = [l \in Positions |-> got[l] + IF l \in page THEN 1 ELSE 0]
  BY DEF Yield
<1>3. \A l \in Positions : got[l] \in Nat /\ l \in Nat
  BY DEF PagingTypes, Positions
<1>4. reading.at \in Nat
  BY DEF PagingTypes, Reads
<1> HIDE DEF page
<1>5. \A l \in Positions : got'[l] = (IF l \in page THEN got[l] + 1 ELSE got[l])
  BY <1>2, <1>3
<1>6. got' \in [Positions -> Nat]
  <2>1. got' = [l \in Positions |-> got'[l]]
    BY <1>2
  <2>2. \A l \in Positions : got'[l] \in Nat
    BY <1>3, <1>5
  <2> QED
    BY <2>1, <2>2
<1> QED
  BY <1>1, <1>3, <1>4, <1>5, <1>6 DEF page

LEMMA TokenFacts ==
  ASSUME NEW at \in Nat, NEW hop \in Nat
  PROVE  /\ Token(at, hop) \in PageTokens /\ Token(at, hop) # NoCursor
         /\ Token(at, hop).at = at /\ Token(at, hop).hop = hop
BY PagingConstants DEF Token, PageTokens

\* After a page of a token adapter: the cursor stands where the given lines
\* end, or there is none and no line is left.
LEMMA TokenSettles ==
  ASSUME PagingTypes, feed' = feed, feed.adapter # "loki",
         NEW at \in 1 .. Len(feed.ts) + 1, NEW hop \in Nat,
         got' \in [Positions -> Nat],
         \A l \in Positions : IF l < at THEN got'[l] = 1 ELSE got'[l] = 0,
         reading' \in Reads,
         feed.adapter # "cloudwatch" => hop = 0,
         feed.adapter = "datadog" /\ reading'.pc \in {"idle", "read"} => reading'.yielded < MaxRows,
         \/ /\ cursor' = Token(at, hop)
            /\ reading'.pc # "ended" => reading'.at = at /\ reading'.hop = hop
            /\ reading'.pc = "ended" => feed.adapter = "datadog"
         \/ cursor' = NoCursor /\ reading'.pc = "ended" /\ at = Len(feed.ts) + 1
  PROVE  PagingInv'
<1>0. Len(feed.ts) \in Nat /\ at \in Nat /\ Positions' = Positions
  BY FeedFacts DEF Positions
<1>1. PagingTypes'
  BY <1>0, TokenFacts DEF PagingTypes
<1>2. CASE cursor' = Token(at, hop) /\ (reading'.pc # "ended" => reading'.at = at /\ reading'.hop = hop)
           /\ (reading'.pc = "ended" => feed.adapter = "datadog")
  <2>1. cursor' # NoCursor /\ From' = cursor' /\ From'.at = at /\ From'.hop = hop
    BY <1>0, <1>2, TokenFacts DEF From
  <2>2. ReadStands' /\ CursorPlace'
    BY <1>2, <2>1 DEF ReadStands, CursorPlace
  <2>3. Split(at)'
    BY <1>0 DEF Split, Before, Covered
  <2>4. Split(From.at)'
    BY <2>1, <2>3 DEF Split, Before
  <2> QED
    BY <1>1, <2>1, <2>2, <2>4 DEF PagingInv
<1>3. CASE cursor' = NoCursor /\ reading'.pc = "ended" /\ at = Len(feed.ts) + 1
  <2>1. From' = Token(1, 0) /\ From'.at = 1 /\ From'.hop = 0
    BY <1>3, TokenFacts DEF From, WindowStart
  <2>2. ReadStands' /\ CursorPlace'
    BY <1>0, <1>3, <2>1 DEF ReadStands, CursorPlace
  <2>3. \A l \in Positions : Covered(l)'
    BY <1>0, <1>3 DEF Covered, Positions
  <2> QED
    BY <1>0, <1>1, <1>3, <2>2, <2>3 DEF PagingInv
<1> QED
  BY <1>2, <1>3

\* A page of a token adapter gives the lines up to its own end.
LEMMA PageGives ==
  ASSUME PagingInv, feed.adapter # "loki", reading.pc = "read", feed' = feed,
         NEW size \in Nat, Yield(DatadogPage(reading.at, size))
  PROVE  LET n == Cardinality(DatadogPage(reading.at, size))
             at == reading.at + n
         IN /\ reading.at \in 1 .. Len(feed.ts) + 1 /\ n \in Nat /\ at \in 1 .. Len(feed.ts) + 1
            /\ got' \in [Positions -> Nat]
            /\ \A l \in Positions : IF l < at THEN got'[l] = 1 ELSE got'[l] = 0
            /\ n = (IF reading.at + size > Len(feed.ts) THEN Len(feed.ts) + 1 - reading.at ELSE size)
            /\ DatadogPage(reading.at, size) = {} <=> n = 0
<1> DEFINE page == DatadogPage(reading.at, size)
           n == Cardinality(page)
           at == reading.at + n
<1>1. reading.at \in 1 .. Len(feed.ts) + 1 /\ Len(feed.ts) \in Nat /\ Split(reading.at)
  BY FeedFacts DEF PagingInv, CursorPlace, ReadStands
<1>2. /\ page = {} <=> (size = 0 \/ reading.at = Len(feed.ts) + 1)
      /\ n \in Nat
      /\ n = (IF reading.at + size > Len(feed.ts) THEN Len(feed.ts) + 1 - reading.at ELSE size)
  BY <1>1, TokenPage DEF PagingInv
<1>3. \A l \in Positions : l \in page <=> (reading.at <= l /\ l < at)
  <2> HIDE DEF n
  <2> QED
    BY <1>1, <1>2, SMTT(30) DEF DatadogPage, Positions
<1>4. page = {} <=> n = 0
  <2> HIDE DEF n, page
  <2> QED
    BY <1>1, <1>2
<1>5. at \in 1 .. Len(feed.ts) + 1 /\ reading.at <= at /\ at \in Nat
  <2> HIDE DEF n
  <2> QED
    BY <1>1, <1>2, SMTT(30)
<1>6. got' \in [Positions -> Nat] /\ \A l \in Positions : IF l < at THEN got'[l] = 1 ELSE got'[l] = 0
  <2> HIDE DEF at
  <2> QED
    BY <1>1, <1>3, <1>5, YieldSplit DEF PagingInv
<1> QED
  BY <1>1, <1>2, <1>4, <1>5, <1>6

LEMMA DatadogStep == PagingInv /\ ReadDatadogPage => PagingInv'
<1> SUFFICES ASSUME PagingInv, ReadDatadogPage PROVE PagingInv'
  OBVIOUS
<1> DEFINE n == Len(feed.ts)
           size == Smaller(PageLimit, MaxRows - reading.yielded)
           page == DatadogPage(reading.at, size)
           at == reading.at + Cardinality(page)
           yielded == reading.yielded + Cardinality(page)
           full == yielded >= MaxRows
<1>0. feed.adapter = "datadog" /\ reading.pc = "read" /\ feed' = feed /\ Yield(page)
  BY DEF ReadDatadogPage
<1>1. /\ PagingTypes /\ reading \in Reads /\ reading.yielded \in Nat /\ reading.yielded < MaxRows
      /\ reading.hop = 0 /\ n \in Nat
  BY <1>0, FeedFacts DEF PagingInv, PagingTypes, ReadStands, CursorPlace, Reads
<1>2. size \in Nat /\ size # 0
  BY <1>1, PagingConstants DEF Smaller
<1>3. PICK after \in (IF reading.at + size > n THEN {NoCursor, Token(n + 1, 0)}
                      ELSE {Token(reading.at + size, 0)}) :
        IF page = {}
        THEN cursor' = NoCursor /\ reading' = [reading EXCEPT !.pc = "ended"]
        ELSE IF after = NoCursor \/ after = Token(reading.at, 0) \/ full
        THEN /\ cursor' = datadog_cursor(after, full, after = Token(reading.at, 0))
             /\ reading' = [reading EXCEPT !.pc = "ended", !.yielded = yielded]
        ELSE cursor' = after /\ reading' = [reading EXCEPT !.at = after.at, !.yielded = yielded]
  BY DEF ReadDatadogPage
<1> HIDE DEF size
<1>4. /\ reading.at \in 1 .. n + 1 /\ Cardinality(page) \in Nat /\ at \in 1 .. n + 1
      /\ got' \in [Positions -> Nat]
      /\ \A l \in Positions : IF l < at THEN got'[l] = 1 ELSE got'[l] = 0
      /\ Cardinality(page) = (IF reading.at + size > n THEN n + 1 - reading.at ELSE size)
      /\ page = {} <=> Cardinality(page) = 0
  BY <1>0, <1>2, PageGives
<1> HIDE DEF page
<1>5. yielded \in Nat /\ at \in Nat /\ 0 \in Nat
  BY <1>1, <1>4
<1>6. reading.at + size > n => at = n + 1
  BY <1>1, <1>2, <1>4
<1>7. /\ reading.at + size > n => after = NoCursor \/ after = Token(n + 1, 0)
      /\ ~(reading.at + size > n) => after = Token(reading.at + size, 0) /\ at = reading.at + size
  BY <1>3, <1>4
<1>8. /\ after = NoCursor => at = n + 1
      /\ after # NoCursor => after = Token(at, 0) /\ after.at = at
  <2>1. Token(at, 0) # NoCursor /\ Token(at, 0).at = at
    BY <1>5, TokenFacts
  <2>2. CASE reading.at + size > n
    BY <1>6, <1>7, <2>1, <2>2
  <2>3. CASE ~(reading.at + size > n)
    BY <1>7, <2>1, <2>3
  <2> QED
    BY <2>2, <2>3
<1>9. page # {} => after # Token(reading.at, 0)
  <2> SUFFICES ASSUME page # {}, after = Token(reading.at, 0) PROVE FALSE
    OBVIOUS
  <2>1. at # reading.at /\ reading.at \in Nat
    BY <1>1, <1>4
  <2>2. after # NoCursor /\ after.at = reading.at
    BY <2>1, TokenFacts
  <2> QED
    BY <1>8, <2>1, <2>2
<1> HIDE DEF yielded, full, at
<1>10. CASE page = {}
  <2>1. at = n + 1
    BY <1>1, <1>2, <1>4, <1>10 DEF at
  <2>2. cursor' = NoCursor /\ reading' \in Reads /\ reading'.pc = "ended"
    BY <1>1, <1>3, <1>10 DEF Reads
  <2> QED
    BY <1>0, <1>1, <1>4, <2>1, <2>2, TokenSettles
<1>11. CASE page # {} /\ (after = NoCursor \/ full)
  <2>1. reading' \in Reads /\ reading'.pc = "ended"
    BY <1>1, <1>3, <1>5, <1>11 DEF Reads
  <2>2. cursor' = datadog_cursor(after, full, FALSE)
    BY <1>3, <1>9, <1>11
  <2>3. \/ cursor' = Token(at, 0)
        \/ cursor' = NoCursor /\ at = n + 1
    BY <1>8, <1>11, <2>2 DEF datadog_cursor
  <2> QED
    BY <1>0, <1>1, <1>4, <1>5, <2>1, <2>3, TokenSettles
<1>12. CASE page # {} /\ after # NoCursor /\ ~full
  <2>1. cursor' = after /\ reading' = [reading EXCEPT !.at = at, !.yielded = yielded]
    BY <1>3, <1>8, <1>9, <1>12
  <2>2. /\ reading' \in Reads /\ reading'.pc = "read" /\ reading'.at = at /\ reading'.hop = 0
        /\ reading'.yielded = yielded
    BY <1>0, <1>1, <1>5, <2>1 DEF Reads
  <2>3. reading'.yielded < MaxRows
    BY <1>5, <1>12, <2>2, PagingConstants DEF full
  <2> QED
    BY <1>0, <1>1, <1>4, <1>5, <1>8, <1>12, <2>1, <2>2, <2>3, TokenSettles
<1> QED
  BY <1>10, <1>11, <1>12

LEMMA TokensDiffer ==
  ASSUME NEW a \in Nat, NEW h \in Nat, NEW b \in Nat, NEW g \in Nat, Token(a, h) = Token(b, g)
  PROVE  a = b /\ h = g
BY TokenFacts

LEMMA CloudwatchStep == PagingInv /\ ReadCloudwatchPage => PagingInv'
<1> SUFFICES ASSUME PagingInv, ReadCloudwatchPage PROVE PagingInv'
  OBVIOUS
<1> DEFINE len == Len(feed.ts)
           here == Token(reading.at, reading.hop)
<1>0. feed.adapter = "cloudwatch" /\ reading.pc = "read" /\ feed' = feed
  BY DEF ReadCloudwatchPage
<1>1. /\ PagingTypes /\ reading \in Reads /\ reading.hop \in Nat /\ reading.at \in Nat
      /\ len \in Nat
  BY FeedFacts DEF PagingInv, PagingTypes, Reads
<1>2. PICK size \in 0 .. PageLimit :
       LET page == DatadogPage(reading.at, size)
           pos == reading.at + Cardinality(page)
           hop == IF page = {} THEN reading.hop + 1 ELSE 0
           token == IF pos <= len THEN Token(pos, hop)
                    ELSE IF ~feed.repeats THEN NoCursor
                    ELSE IF page = {} THEN Token(reading.at, reading.hop) ELSE Token(pos, 0)
       IN /\ Yield(page)
          /\ cursor' = cloudwatch_cursor(token)
          /\ reading' = IF last_token(token) THEN [reading EXCEPT !.pc = "ended"]
                        ELSE [reading EXCEPT !.at = token.at, !.hop = token.hop]
  BY DEF ReadCloudwatchPage
<1> DEFINE page == DatadogPage(reading.at, size)
           pos == reading.at + Cardinality(page)
           hop == IF page = {} THEN reading.hop + 1 ELSE 0
           token == IF pos <= len THEN Token(pos, hop)
                    ELSE IF ~feed.repeats THEN NoCursor
                    ELSE IF page = {} THEN here ELSE Token(pos, 0)
<1>3. Yield(page) /\ size \in Nat
  BY <1>2, PagingConstants
<1>4. /\ pos \in 1 .. len + 1
      /\ got' \in [Positions -> Nat]
      /\ \A l \in Positions : IF l < pos THEN got'[l] = 1 ELSE got'[l] = 0
      /\ (page = {} <=> Cardinality(page) = 0) /\ Cardinality(page) \in Nat
  BY <1>0, <1>3, PageGives
<1>5. /\ cursor' = IF last_token(token) THEN NoCursor ELSE token
      /\ reading' = IF last_token(token) THEN [reading EXCEPT !.pc = "ended"]
                    ELSE [reading EXCEPT !.at = token.at, !.hop = token.hop]
  BY <1>2 DEF cloudwatch_cursor
<1>6. last_token(token) <=> token = NoCursor \/ token = here
  BY DEF last_token
<1> HIDE DEF page
<1>7. pos \in Nat /\ hop \in Nat /\ (pos = reading.at <=> page = {})
  BY <1>1, <1>4
<1> HIDE DEF pos
<1>8. Token(pos, hop) # here /\ Token(pos, hop) # NoCursor
  <2>1. pos # reading.at \/ hop # reading.hop
    BY <1>1, <1>7
  <2> HIDE DEF hop
  <2> QED
    BY <1>1, <1>7, <2>1, TokensDiffer, TokenFacts
<1>9. page # {} => Token(pos, 0) # here /\ Token(pos, 0) # NoCursor
  <2>1. page # {} => hop = 0
    OBVIOUS
  <2> QED
    BY <1>8, <2>1
\* The next page starts at a new token.
<1>10. ASSUME NEW h \in Nat, token = Token(pos, h), ~last_token(token) PROVE PagingInv'
  <2>1. token.at = pos /\ token.hop = h
    BY <1>7, <1>10, TokenFacts
  <2>2. cursor' = Token(pos, h) /\ reading' = [reading EXCEPT !.at = pos, !.hop = h]
    BY <1>5, <1>10, <2>1
  <2>3. reading' \in Reads /\ reading'.pc = "read" /\ reading'.at = pos /\ reading'.hop = h
    BY <1>0, <1>1, <1>7, <1>10, <2>2 DEF Reads
  <2> QED
    BY <1>0, <1>1, <1>4, <2>2, <2>3, TokenSettles
\* The read ends past the last line.
<1>11. ASSUME pos = len + 1, last_token(token) PROVE PagingInv'
  <2>1. cursor' = NoCursor /\ reading' = [reading EXCEPT !.pc = "ended"]
    BY <1>5, <1>11
  <2>2. reading' \in Reads /\ reading'.pc = "ended"
    BY <1>1, <2>1 DEF Reads
  <2>3. 0 \in Nat
    OBVIOUS
  <2> QED
    BY <1>0, <1>1, <1>4, <1>11, <2>1, <2>2, <2>3, TokenSettles
<1>12. CASE pos <= len
  <2>1. token = Token(pos, hop)
    BY <1>12
  <2> HIDE DEF token, hop
  <2> QED
    BY <1>6, <1>7, <1>8, <1>10, <2>1
<1>13. CASE ~(pos <= len)
  <2>1. pos = len + 1
    BY <1>1, <1>4, <1>13
  <2>2. CASE ~feed.repeats \/ page = {}
    BY <1>6, <1>11, <1>13, <2>1, <2>2
  <2>3. CASE feed.repeats /\ page # {}
    BY <1>6, <1>9, <1>10, <1>13, <2>3
  <2> QED
    BY <2>2, <2>3
<1> QED
  BY <1>12, <1>13

\* The lines a Loki query from a time may return.
Due(from) == {l \in Positions : feed.ts[l] >= from /\ feed.ts[l] < EndNs}

Earlier(from, l) == {k \in Due(from) : k < l}

\* A page is the front of what is due, and all of it when it is not full.
LEMMA LokiPageFacts ==
  ASSUME PagingTypes, NEW from \in Nat
  PROVE  LET page == LokiPage(from)
         IN /\ page \subseteq Due(from)
            /\ \A l \in page, k \in Due(from) : k < l => k \in page
            /\ Cardinality(page) < PageLimit => page = Due(from)
            /\ Cardinality(page) \in Nat
            /\ Cardinality(page) >= PageLimit => page # {}
<1> DEFINE page == LokiPage(from)
           due == Due(from)
<1>0. Len(feed.ts) \in Nat /\ due \subseteq Positions /\ Positions \subseteq Nat
  BY FeedFacts DEF Due, Positions
<1>1. page = {l \in due : Cardinality(Earlier(from, l)) < PageLimit}
  BY DEF LokiPage, Due, Earlier
<1>2. IsFiniteSet(Positions)
  BY <1>0, FS_Interval DEF Positions
<1>3. IsFiniteSet(due) /\ IsFiniteSet(page)
  BY <1>0, <1>1, <1>2, FS_Subset
<1>4. \A l \in due : IsFiniteSet(Earlier(from, l)) /\ Cardinality(Earlier(from, l)) \in Nat
  BY <1>3, FS_Subset, FS_CardinalityType DEF Earlier
<1>5. ASSUME NEW l \in page, NEW k \in due, k < l PROVE k \in page
  <2>1. Earlier(from, k) \subseteq Earlier(from, l)
    <3>1. l \in Nat /\ k \in Nat /\ \A j \in due : j \in Nat
      BY <1>0, <1>1
    <3>2. \A j \in due : j < k => j < l
      BY <1>5, <3>1
    <3> QED
      BY <3>2 DEF Earlier
  <2>2. Cardinality(Earlier(from, k)) <= Cardinality(Earlier(from, l))
    BY <1>1, <1>4, <2>1, FS_Subset
  <2> QED
    BY <1>1, <1>4, <2>2, PagingConstants
<1>6. ASSUME Cardinality(page) < PageLimit PROVE page = due
  <2> SUFFICES ASSUME page # due PROVE FALSE
    OBVIOUS
  <2>1. due \ page # {} /\ due \ page \subseteq Nat
    BY <1>0, <1>1
  <2>2. PICK l \in due \ page : \A y \in due \ page : l <= y
    BY <2>1, LeastOf
  <2>3. Earlier(from, l) \subseteq page
    <3>1. l \in Nat /\ \A j \in due : j \in Nat
      BY <1>0
    <3>2. \A j \in due : j < l => j \in page
      BY <2>2, <3>1
    <3> QED
      BY <3>2 DEF Earlier
  <2>4. Cardinality(Earlier(from, l)) <= Cardinality(page) /\ Cardinality(page) \in Nat
    BY <1>3, <2>3, FS_Subset, FS_CardinalityType
  <2> QED
    BY <1>1, <1>4, <1>6, <2>2, <2>4, PagingConstants
<1>7. Cardinality(page) \in Nat
  BY <1>3, FS_CardinalityType
<1>8. Cardinality(page) >= PageLimit => page # {}
  <2>1. page = {} => Cardinality(page) = 0
    BY <1>3, FS_EmptySet
  <2> HIDE DEF page
  <2> QED
    BY <1>7, <2>1, PagingConstants
<1>9. page \subseteq due
  BY <1>1
<1> QED
  BY <1>5, <1>6, <1>7, <1>8, <1>9

\* The time before the next start is that of a line of the page, and no line of
\* the page is later.
LEMMA NextStart ==
  ASSUME PagingTypes, NEW from \in Nat, NEW page, page # {}, page \subseteq Due(from)
  PROVE  \E m \in page : /\ next_start(from, page) = feed.ts[m] + 1
                         /\ \A l \in page : feed.ts[l] <= feed.ts[m]
<1>0. \A l \in page : l \in Positions /\ feed.ts[l] \in Nat /\ feed.ts[l] >= from /\ feed.ts[l] < EndNs
  BY FeedFacts DEF Due
<1> DEFINE bounds == {t \in Nat : \A l \in page : feed.ts[l] <= t}
<1>1. EndNs \in bounds
  BY <1>0, PagingConstants
<1>2. PICK t \in bounds : \A u \in bounds : t <= u
  BY <1>1, LeastOf
<1>3. \E m \in page : feed.ts[m] = t
  <2> SUFFICES ASSUME \A m \in page : feed.ts[m] # t PROVE FALSE
    OBVIOUS
  <2>1. \A l \in page : feed.ts[l] < t
    BY <1>0, <1>2
  <2>2. t # 0
    BY <1>0, <2>1
  <2>3. t - 1 \in bounds
    BY <1>0, <1>2, <2>1, <2>2
  <2> QED
    BY <1>2, <2>3
<1> DEFINE times == {from} \cup {feed.ts[l] : l \in page}
           late == CHOOSE u \in times : \A l \in page : feed.ts[l] <= u
<1>4. \E u \in times : \A l \in page : feed.ts[l] <= u
  BY <1>2, <1>3
<1>5. late \in times /\ \A l \in page : feed.ts[l] <= late
  BY <1>4
<1>6. next_start(from, page) = 1 + late
  BY DEF next_start
<1> HIDE DEF late
<1>7. \E m \in page : feed.ts[m] = late
  <2>1. CASE late = from
    <3>1. PICK m \in page : TRUE
      OBVIOUS
    <3> QED
      BY <1>0, <1>5, <2>1, <3>1
  <2>2. CASE late # from
    BY <1>5, <2>2
  <2> QED
    BY <2>1, <2>2
<1>8. PICK m \in page : feed.ts[m] = late
  BY <1>7
<1> QED
  BY <1>0, <1>5, <1>6, <1>8

LEMMA YieldFacts ==
  ASSUME PagingTypes, NEW page, Yield(page)
  PROVE  /\ got' \in [Positions -> Nat]
         /\ \A l \in Positions : got'[l] = IF l \in page THEN got[l] + 1 ELSE got[l]
<1>1. got' = [l \in Positions |-> got[l] + IF l \in page THEN 1 ELSE 0]
  BY DEF Yield
<1>2. \A l \in Positions : got[l] \in Nat
  BY DEF PagingTypes
<1>3. \A l \in Positions : got'[l] = IF l \in page THEN got[l] + 1 ELSE got[l]
  BY <1>1, <1>2
<1>4. \A l \in Positions : got'[l] \in Nat
  BY <1>2, <1>3
<1> QED
  BY <1>1, <1>3, <1>4

\* A page that is not full gives the rest of the window.  A full one covers the
\* lines up to its last time: a line of an earlier time that is due is in front
\* of that line and so in the page, and one of the same time is in it or behind.
LEMMA LokiStep == PagingInv /\ ReadLokiPage => PagingInv'
<1> SUFFICES ASSUME PagingInv, ReadLokiPage PROVE PagingInv'
  OBVIOUS
<1> DEFINE page == LokiPage(reading.at)
           next == next_start(reading.at, page)
<1>0. /\ feed.adapter = "loki" /\ reading.pc = "read" /\ feed' = feed /\ Yield(page)
      /\ IF Cardinality(page) < PageLimit \/ next <= reading.at
         THEN cursor' = NoCursor /\ reading' = [reading EXCEPT !.pc = "ended"]
         ELSE cursor' = Token(next, 0) /\ reading' = [reading EXCEPT !.at = next]
  BY DEF ReadLokiPage
<1>1. /\ PagingTypes /\ reading \in Reads /\ reading.at \in Nat /\ reading.hop = 0
      /\ reading.at = From.at /\ Split(reading.at) /\ Positions' = Positions
  BY <1>0 DEF PagingInv, PagingTypes, ReadStands, CursorPlace, Reads, Positions
<1>2. /\ page \subseteq Due(reading.at)
      /\ \A l \in page, k \in Due(reading.at) : k < l => k \in page
      /\ Cardinality(page) < PageLimit => page = Due(reading.at)
      /\ Cardinality(page) \in Nat
      /\ Cardinality(page) >= PageLimit => page # {}
  BY <1>1, LokiPageFacts
<1> HIDE DEF page
<1>3. /\ got' \in [Positions -> Nat]
      /\ \A l \in Positions : got'[l] = IF l \in page THEN got[l] + 1 ELSE got[l]
  BY <1>0, <1>1, YieldFacts
<1>4. \A l \in Positions : /\ l \in Nat /\ feed.ts[l] \in Nat /\ feed.ts[l] < EndNs
                           /\ l \in Due(reading.at) <=> ~(feed.ts[l] < reading.at)
  BY <1>1, FeedFacts DEF Due, Positions
<1>5. \A l \in Positions : IF feed.ts[l] < reading.at THEN Covered(l) ELSE got[l] = 0
  BY <1>0, <1>1 DEF Split, Before
\* What had been covered stays so, and what the page gives is given once.
<1>6. \A l \in Positions : feed.ts[l] < reading.at => got'[l] = got[l]
  BY <1>2, <1>3, <1>4
<1>7. \A l \in Positions : feed.ts[l] < reading.at => Covered(l)'
  <2> SUFFICES ASSUME NEW l \in Positions, feed.ts[l] < reading.at PROVE Covered(l)'
    OBVIOUS
  <2>1. Covered(l) /\ got'[l] = got[l]
    BY <1>5, <1>6
  <2>2. \A k \in Positions : feed.ts[k] = feed.ts[l] => got'[k] = got[k]
    BY <1>6
  <2> QED
    BY <1>0, <1>1, <2>1, <2>2 DEF Covered
<1>8. \A l \in page : l \in Positions /\ got'[l] = 1
  BY <1>2, <1>3, <1>4, <1>5 DEF Due
<1>9. CASE Cardinality(page) < PageLimit
  <2>1. \A l \in Positions : Covered(l)'
    BY <1>2, <1>4, <1>7, <1>8, <1>9 DEF Covered
  <2>2. cursor' = NoCursor /\ reading' = [reading EXCEPT !.pc = "ended"]
    BY <1>0, <1>9
  <2>3. reading' \in Reads /\ reading'.pc = "ended"
    BY <1>1, <2>2 DEF Reads
  <2>4. From' = Token(0, 0) /\ From'.hop = 0
    BY <1>0, <2>2, TokenFacts DEF From, WindowStart
  <2> QED
    BY <1>0, <1>1, <1>3, <2>1, <2>2, <2>3, <2>4
    DEF PagingInv, PagingTypes, ReadStands, CursorPlace
<1>10. CASE ~(Cardinality(page) < PageLimit)
  <2>1. page # {}
    BY <1>2, <1>10, PagingConstants
  <2>2. PICK m \in page : next = feed.ts[m] + 1 /\ \A l \in page : feed.ts[l] <= feed.ts[m]
    BY <1>1, <1>2, <2>1, NextStart
  <2>3. m \in Positions /\ m \in Nat /\ feed.ts[m] \in Nat /\ feed.ts[m] >= reading.at
    BY <1>2, <1>4 DEF Due
  <2> HIDE DEF next
  <2>4. next \in Nat /\ ~(next <= reading.at)
    BY <1>1, <2>2, <2>3
  <2>5. cursor' = Token(next, 0) /\ reading' = [reading EXCEPT !.at = next]
    BY <1>0, <1>10, <2>4
  <2>6. /\ cursor' # NoCursor /\ cursor' \in PageTokens
        /\ From' = cursor' /\ From'.at = next /\ From'.hop = 0
    BY <2>4, <2>5, TokenFacts DEF From
  <2>7. reading' \in Reads /\ reading'.pc = "read" /\ reading'.at = next /\ reading'.hop = 0
    BY <1>0, <1>1, <2>4, <2>5 DEF Reads
  <2>8. ASSUME NEW l \in Positions
        PROVE  IF feed.ts[l] < next THEN Covered(l)' ELSE got'[l] = 0
    <3>1. CASE feed.ts[l] < reading.at
      <4>1. feed.ts[l] < next
        BY <1>1, <1>4, <2>4, <3>1
      <4> QED
        BY <1>7, <3>1, <4>1
    <3>2. CASE l \in page
      <4>1. feed.ts[l] < next
        <5>1. feed.ts[l] \in Nat /\ feed.ts[m] \in Nat
          BY <1>4, <2>3
        <5>2. feed.ts[l] <= feed.ts[m] /\ next = feed.ts[m] + 1
          BY <2>2, <3>2
        <5> QED
          BY <5>1, <5>2
      <4> QED
        BY <1>8, <3>2, <4>1 DEF Covered
    <3>3. CASE l \notin page /\ ~(feed.ts[l] < reading.at) /\ feed.ts[l] < next
      <4>1. l \in Due(reading.at) /\ got'[l] = 0
        BY <1>3, <1>4, <1>5, <3>3
      <4>2. m < l
        <5>1. ~(l < m) /\ l # m
          BY <1>2, <3>3, <4>1
        <5>2. l \in Nat /\ m \in Nat
          BY <1>4, <2>3
        <5> QED
          BY <5>1, <5>2
      <4>3. feed.ts[m] = feed.ts[l]
        BY <1>1, <1>4, <2>2, <2>3, <3>3, <4>2, FeedFacts
      <4>4. got'[m] = 1
        BY <1>8
      <4> QED
        BY <1>0, <1>1, <2>3, <3>3, <4>1, <4>2, <4>3, <4>4 DEF Covered
    <3>4. CASE l \notin page /\ ~(feed.ts[l] < reading.at) /\ ~(feed.ts[l] < next)
      BY <1>3, <1>5, <3>4
    <3> QED
      BY <3>1, <3>2, <3>3, <3>4
  <2>9. Split(From.at)'
    BY <1>0, <1>1, <2>6, <2>8 DEF Split, Before
  <2> QED
    BY <1>0, <1>1, <1>3, <2>6, <2>7, <2>9
    DEF PagingInv, PagingTypes, ReadStands, CursorPlace
<1> QED
  BY <1>9, <1>10

\* Steps that give nothing and leave the cursor.
LEMMA QuietStep ==
  ASSUME PagingInv, UNCHANGED <<feed, cursor, got>>, reading' \in Reads,
         ReadStands', CursorPlace', reading'.pc = "ended" <=> reading.pc = "ended"
  PROVE  PagingInv'
<1>1. /\ From' = From /\ Positions' = Positions
      /\ Split(From.at)' <=> Split(From.at)
      /\ (\A l \in Positions : Covered(l))' <=> \A l \in Positions : Covered(l)
  BY DEF From, WindowStart, Positions, Split, Before, Covered
<1> QED
  BY <1>1 DEF PagingInv, PagingTypes

\* The window is used up: all its lines are earlier than the cursor.
LEMMA WindowEndsStep == PagingInv /\ LokiWindowEnds => PagingInv'
<1> SUFFICES ASSUME PagingInv, LokiWindowEnds PROVE PagingInv'
  OBVIOUS
<1>0. /\ feed.adapter = "loki" /\ reading.pc = "read" /\ reading.at >= EndNs
      /\ reading' = [reading EXCEPT !.pc = "ended"] /\ UNCHANGED <<feed, cursor, got>>
  BY DEF LokiWindowEnds
<1>1. /\ reading \in Reads /\ reading.at \in Nat /\ reading.at = From.at /\ Split(From.at)
      /\ From.hop = 0
  BY <1>0 DEF PagingInv, PagingTypes, ReadStands, CursorPlace, Reads
<1>2. reading' \in Reads /\ reading'.pc = "ended" /\ From' = From /\ Positions' = Positions
  BY <1>0, <1>1 DEF Reads, From, WindowStart, Positions
<1>3. \A l \in Positions : Covered(l)
  <2> SUFFICES ASSUME NEW l \in Positions PROVE Covered(l)
    OBVIOUS
  <2>1. feed.ts[l] \in Nat /\ feed.ts[l] < EndNs
    BY FeedFacts DEF PagingInv
  <2>2. feed.ts[l] < From.at
    BY <1>0, <1>1, <2>1, PagingConstants
  <2> QED
    BY <1>0, <1>1, <2>2 DEF Split, Before
<1>4. (\A l \in Positions : Covered(l))' /\ Split(From.at)'
  BY <1>0, <1>1, <1>2, <1>3 DEF Covered, Split, Before
<1>5. ReadStands' /\ CursorPlace'
  BY <1>0, <1>1, <1>2 DEF ReadStands, CursorPlace, From
<1> QED
  BY <1>0, <1>2, <1>4, <1>5 DEF PagingInv, PagingTypes

LEMMA ResumeStep == PagingInv /\ Resume => PagingInv'
<1> SUFFICES ASSUME PagingInv, Resume PROVE PagingInv'
  OBVIOUS
<1>0. /\ reading.pc = "failed" \/ (reading.pc = "ended" /\ cursor # NoCursor)
      /\ reading' = [pc |-> "read", yielded |-> 0, resumes |-> reading.resumes + 1,
                     at |-> From.at, hop |-> From.hop]
      /\ UNCHANGED <<feed, cursor, got>>
  BY DEF Resume, From
<1>1. From.at \in Nat /\ From.hop \in Nat /\ reading.resumes + 1 \in Nat
  BY TokenFacts DEF PagingInv, PagingTypes, From, WindowStart, PageTokens, Reads
<1>2. reading' \in Reads /\ reading'.pc = "read" /\ reading'.yielded = 0
      /\ reading'.at = From.at /\ reading'.hop = From.hop
  <2> DEFINE n == reading.resumes + 1
  <2> HIDE DEF n
  <2>1. reading' = [pc |-> "read", yielded |-> 0, resumes |-> n, at |-> From.at, hop |-> From.hop]
    BY <1>0 DEF n
  <2>2. n \in Nat
    BY <1>1 DEF n
  <2> QED
    BY <1>1, <2>1, <2>2 DEF Reads
<1>3. From' = From /\ Positions' = Positions
  BY <1>0 DEF From, WindowStart, Positions
<1>4. Split(From.at)'
  BY <1>0, <1>3 DEF PagingInv, Split, Before, Covered
<1>5. ReadStands' /\ CursorPlace'
  BY <1>0, <1>2, <1>3, PagingConstants DEF PagingInv, ReadStands, CursorPlace
<1> QED
  BY <1>0, <1>2, <1>3, <1>4, <1>5 DEF PagingInv, PagingTypes

LEMMA PagingStep == PagingInv /\ [PagingNext]_pagingVars => PagingInv'
<1> SUFFICES ASSUME PagingInv, [PagingNext]_pagingVars PROVE PagingInv'
  OBVIOUS
<1>0. reading \in Reads
  BY DEF PagingInv, PagingTypes
<1>1. CASE UNCHANGED pagingVars
  <2>1. UNCHANGED <<feed, reading, cursor, got>>
    BY <1>1 DEF pagingVars
  <2> QED
    BY <1>0, <2>1, QuietStep DEF PagingInv, ReadStands, CursorPlace, From, WindowStart
<1>2. CASE ReadPage
  BY <1>2, LokiStep, WindowEndsStep, DatadogStep, CloudwatchStep DEF ReadPage
<1>3. CASE StartRead
  <2>1. /\ reading.pc = "idle" /\ reading' = [reading EXCEPT !.pc = "read"]
        /\ UNCHANGED <<feed, cursor, got>>
    BY <1>3 DEF StartRead
  <2>2. /\ reading' \in Reads /\ reading'.pc = "read" /\ reading'.at = reading.at
        /\ reading'.hop = reading.hop /\ reading'.yielded = reading.yielded
    BY <1>0, <2>1 DEF Reads
  <2> QED
    BY <2>1, <2>2, QuietStep DEF PagingInv, ReadStands, CursorPlace, From, WindowStart
<1>4. CASE FetchFails
  <2>1. /\ reading.pc = "read" /\ reading' = [reading EXCEPT !.pc = "failed"]
        /\ UNCHANGED <<feed, cursor, got>>
    BY <1>4 DEF FetchFails
  <2>2. /\ reading' \in Reads /\ reading'.pc = "failed" /\ reading'.at = reading.at
        /\ reading'.hop = reading.hop
    BY <1>0, <2>1 DEF Reads
  <2> QED
    BY <2>1, <2>2, QuietStep DEF PagingInv, ReadStands, CursorPlace, From, WindowStart
<1>5. CASE Resume
  BY <1>5, ResumeStep
<1> QED
  BY <1>1, <1>2, <1>3, <1>4, <1>5 DEF PagingNext

LEMMA PagingStart == PagingInit => PagingInv
<1> SUFFICES ASSUME PagingInit PROVE PagingInv
  OBVIOUS
<1>1. /\ feed.adapter \in {"loki", "datadog", "cloudwatch"} /\ feed.ts \in Feeds
      /\ cursor = NoCursor /\ got = [l \in Positions |-> 0] /\ From = WindowStart
  BY DEF PagingInit, From
<1>2. /\ WindowStart.at = (IF feed.adapter = "loki" THEN 0 ELSE 1) /\ WindowStart.hop = 0
  BY DEF WindowStart, Token
<1>3. /\ reading \in Reads /\ reading.pc = "idle" /\ reading.yielded = 0
      /\ reading.at = WindowStart.at /\ reading.hop = 0
  <2> DEFINE first == WindowStart.at
             hop == WindowStart.hop
  <2>1. first \in Nat /\ hop \in Nat
    BY <1>2
  <2>2. reading = [pc |-> "idle", yielded |-> 0, resumes |-> 0, at |-> first, hop |-> hop]
    BY DEF PagingInit
  <2>3. hop = 0
    BY <1>2
  <2> HIDE DEF first, hop
  <2>4. /\ reading \in Reads /\ reading.pc = "idle" /\ reading.yielded = 0
        /\ reading.at = first /\ reading.hop = hop
    BY <2>1, <2>2 DEF Reads
  <2> QED
    BY <2>3, <2>4 DEF first
<1>4. PagingTypes
  BY <1>1, <1>3 DEF PagingTypes
<1>5. Len(feed.ts) \in Nat /\ \A l \in Positions : l \in Nat /\ l >= 1 /\ feed.ts[l] \in Nat
  BY <1>4, FeedFacts DEF Positions
<1>6. Split(From.at)
  BY <1>1, <1>2, <1>5 DEF Split, Before
<1>7. ReadStands /\ CursorPlace
  BY <1>1, <1>2, <1>3, <1>5, PagingConstants DEF ReadStands, CursorPlace
<1> QED
  BY <1>1, <1>3, <1>4, <1>6, <1>7 DEF PagingInv

LEMMA PagingMeans == PagingInv => PagesMakeTheWindow
<1> SUFFICES ASSUME PagingInv PROVE PagesMakeTheWindow
  OBVIOUS
<1>1. reading.pc # "ended" \/ cursor # NoCursor => Split(From.at)
  BY DEF PagingInv
<1>2. reading.pc = "ended" /\ cursor = NoCursor => \A l \in Positions : Covered(l)
  BY DEF PagingInv
<1>3. CompletedIsComplete
  BY <1>2 DEF CompletedIsComplete, Covered
<1>4. CursorIsHonest
  <2>1. \A l \in Positions : got[l] = 0 \/ got[l] = 1
    BY <1>1, <1>2 DEF Split, Covered
  <2>2. cursor # NoCursor => From = cursor
    BY DEF From
  <2> QED
    BY <1>1, <2>1, <2>2 DEF CursorIsHonest, Split, Before, Covered
<1>5. OpenCursorMeansMore
  <2> SUFFICES ASSUME reading.pc = "ended", cursor # NoCursor, feed.adapter = "datadog",
                      cursor.at # Len(feed.ts) + 1
               PROVE  \E l \in Positions : got[l] = 0
    BY DEF OpenCursorMeansMore, PagingInv, CursorPlace
  <2>1. cursor.at \in 1 .. Len(feed.ts) + 1 /\ Len(feed.ts) \in Nat /\ From = cursor
    BY FeedFacts DEF PagingInv, CursorPlace, From
  <2>2. cursor.at \in Positions /\ ~(cursor.at < cursor.at)
    BY <2>1 DEF Positions
  <2>3. got[cursor.at] = 0
    BY <1>1, <2>1, <2>2 DEF Split, Before
  <2> QED
    BY <2>2, <2>3
<1> QED
  BY <1>3, <1>4, <1>5 DEF PagesMakeTheWindow

\* However a read is cut into pages, fails and is resumed, the cursor covers no
\* line that was not given, a completed stream gave its window once, and one
\* with a cursor has more, but for the named seams.
THEOREM PagesAddUp == PagingSpec => []PagesMakeTheWindow
BY PagingStart, PagingStep, PagingMeans, PTL DEF PagingSpec
-----------------------------------------------------------------------------
(***************************************************************************)
(* Embedding.  The texts of a request and the vectors of its answer keep   *)
(* their places, so that a flush whose vectors are as many as its lines    *)
(* has each of them where its line is.                                     *)
(***************************************************************************)
Lines == UNION {Range(b) : b \in Batches}

Vector == [of : {l.text : l \in Lines}, wide : BOOLEAN]

JobState ==
  [pc : {"read", "embed"}, asked : Nat, provider : {"openai", "local", "disabled"},
   rows : SUBSET Lines, vecs : SUBSET [entry : Lines, of : {l.text : l \in Lines}],
   eligible : Seq(Lines), got : Seq(Vector), sent : Nat, tries : Nat,
   counted : SUBSET Lines, failed : SUBSET Lines, sound : BOOLEAN]

\* What the transaction of the job that is running holds.
JobHolds ==
  /\ embJob.counted \subseteq entries \cup embJob.rows
  /\ \A v \in embJob.vecs : v.entry \in embJob.rows /\ v.of = v.entry.text
  /\ \A l \in embJob.rows : l.text # Blank /\ (\A v \in embJob.vecs : v.entry # l)
       => l \in embJob.failed \/ (embJob.pc = "embed" /\ l \in ToSet(embJob.eligible))

\* The vectors of the flush at hand are those of its first lines, unless some
\* answer was short.
FlushHolds ==
  /\ embJob.eligible \in Seq(embJob.rows)
  /\ Len(embJob.got) <= embJob.sent /\ embJob.sent <= Len(embJob.eligible)
  /\ Len(embJob.got) = embJob.sent => \A i \in 1 .. embJob.sent : embJob.got[i].of = embJob.eligible[i].text
  /\ embJob.sound => Len(embJob.got) = embJob.sent /\ \A i \in 1 .. Len(embJob.got) : embJob.got[i].wide

EmbInv ==
  /\ EmbeddingIsHarmless
  /\ embJob \in JobState \cup [pc : {"none"}, asked : Nat]
  /\ embJob \in JobState => JobHolds
  /\ embJob \in JobState /\ embJob.pc = "embed" => FlushHolds
-----------------------------------------------------------------------------
LEMMA Ranks ==
  ASSUME NEW P, IsFiniteSet(P), NEW key \in Injection(P, Int),
         NEW rank, rank = [i \in P |-> Cardinality({j \in P : key[j] <= key[i]})]
  PROVE  rank \in Bijection(P, 1 .. Cardinality(P))
<1> DEFINE upTo(i) == {j \in P : key[j] <= key[i]}
<1>0. key \in [P -> Int] /\ \A i, j \in P : key[i] = key[j] => i = j
  BY DEF Injection, IsInjective
<1>1. Cardinality(P) \in Nat
  BY FS_CardinalityType
<1>2. ASSUME NEW i \in P
      PROVE  /\ rank[i] = Cardinality(upTo(i)) /\ IsFiniteSet(upTo(i)) /\ Cardinality(upTo(i)) \in Nat
             /\ rank[i] \in 1 .. Cardinality(P)
  <2>1. rank[i] = Cardinality(upTo(i)) /\ upTo(i) \subseteq P /\ i \in upTo(i)
    BY <1>0
  <2> HIDE DEF upTo
  <2>2. IsFiniteSet(upTo(i)) /\ Cardinality(upTo(i)) <= Cardinality(P)
    BY <2>1, FS_Subset
  <2>3. Cardinality(upTo(i)) \in Nat /\ Cardinality(upTo(i)) # 0
    BY <2>1, <2>2, FS_CardinalityType, FS_EmptySet
  <2> QED
    BY <1>1, <2>1, <2>2, <2>3
<1>3. ASSUME NEW i \in P, NEW j \in P, key[i] < key[j] PROVE rank[i] < rank[j]
  <2>1. upTo(i) \subseteq upTo(j) /\ j \in upTo(j) /\ j \notin upTo(i)
    BY <1>0, <1>3
  <2> HIDE DEF upTo
  <2>2. Cardinality(upTo(i)) <= Cardinality(upTo(j)) /\ Cardinality(upTo(i)) # Cardinality(upTo(j))
    BY <1>2, <2>1, FS_Subset
  <2> QED
    BY <1>2, <2>2
<1>4. \A i, j \in P : rank[i] = rank[j] => i = j
  <2> SUFFICES ASSUME NEW i \in P, NEW j \in P, rank[i] = rank[j], i # j PROVE FALSE
    OBVIOUS
  <2>1. key[i] \in Int /\ key[j] \in Int /\ key[i] # key[j]
    BY <1>0
  <2>2. key[i] < key[j] \/ key[j] < key[i]
    BY <2>1
  <2>3. rank[i] \in Int /\ rank[j] \in Int
    <3>1. 1 .. Cardinality(P) \subseteq Int
      BY <1>1
    <3>2. rank[i] \in 1 .. Cardinality(P) /\ rank[j] \in 1 .. Cardinality(P)
      BY <1>2
    <3> QED
      BY <3>1, <3>2, Zenon
  <2> QED
    BY <1>3, <2>2, <2>3
<1>5. rank \in Injection(P, 1 .. Cardinality(P))
  BY <1>2, <1>4 DEF Injection, IsInjective
<1>6. IsFiniteSet(1 .. Cardinality(P)) /\ Cardinality(1 .. Cardinality(P)) = Cardinality(P)
  BY <1>1, FS_Interval
<1>7. rank \in Surjection(P, 1 .. Cardinality(P))
  BY <1>5, <1>6, FS_Injection
<1> QED
  BY <1>5, <1>7 DEF Bijection

\* Ascending lists the whole domain, each member at its rank.
LEMMA AscendingIs ==
  ASSUME NEW P, IsFiniteSet(P), NEW key \in Injection(P, Int)
  PROVE  /\ DOMAIN Ascending(key) = 1 .. Cardinality(P) /\ Cardinality(P) \in Nat
         /\ \A k \in 1 .. Cardinality(P) :
              Ascending(key)[k] \in P /\ Cardinality({j \in P : key[j] <= key[Ascending(key)[k]]}) = k
         /\ \A i \in P : \E k \in 1 .. Cardinality(P) : Ascending(key)[k] = i
<1> DEFINE rank == [i \in P |-> Cardinality({j \in P : key[j] <= key[i]})]
<1>1. rank \in Bijection(P, 1 .. Cardinality(P))
  BY Ranks
<1>2. /\ \A i \in P : rank[i] \in 1 .. Cardinality(P)
      /\ \A i, j \in P : rank[i] = rank[j] => i = j
      /\ \A k \in 1 .. Cardinality(P) : \E i \in P : rank[i] = k
  <2> HIDE DEF rank
  <2> QED
    BY <1>1 DEF Bijection, Injection, Surjection, IsInjective
<1>3. DOMAIN key = P
  BY DEF Injection
<1>4. Ascending(key) = [k \in 1 .. Cardinality(P) |->
                          CHOOSE i \in P : Cardinality({j \in P : key[j] <= key[i]}) = k]
  BY <1>3 DEF Ascending
<1>5. \A i \in P : rank[i] = Cardinality({j \in P : key[j] <= key[i]})
  OBVIOUS
<1> HIDE DEF rank
<1>6. ASSUME NEW k \in 1 .. Cardinality(P) PROVE Ascending(key)[k] \in P /\ rank[Ascending(key)[k]] = k
  <2>1. Ascending(key)[k] = CHOOSE i \in P : Cardinality({j \in P : key[j] <= key[i]}) = k
    BY <1>4
  <2>2. \E i \in P : Cardinality({j \in P : key[j] <= key[i]}) = k
    <3>1. PICK i \in P : rank[i] = k
      BY <1>2
    <3>2. rank[i] = Cardinality({j \in P : key[j] <= key[i]})
      BY <1>5, Zenon
    <3> QED
      BY <3>1, <3>2, Zenon
  <2>3. Ascending(key)[k] \in P /\ Cardinality({j \in P : key[j] <= key[Ascending(key)[k]]}) = k
    BY <2>1, <2>2, Zenon
  <2> QED
    BY <1>5, <2>3
<1>7. \A i \in P : Ascending(key)[rank[i]] = i
  BY <1>2, <1>6
<1> QED
  BY <1>2, <1>4, <1>5, <1>6, <1>7, FS_CardinalityType

\* The lines to embed are those that were inserted and are not blank.
LEMMA EligibleIs ==
  ASSUME NEW b \in Batches
  PROVE  LET new == {b[i] : i \in entries_inserted(b)}
         IN /\ eligible(b) \in Seq(new)
            /\ \A l \in new : l.text # Blank => l \in ToSet(eligible(b))
<1> DEFINE new == {b[i] : i \in entries_inserted(b)}
           P == {j \in entries_inserted(b) : b[j].text # Blank}
           key == [i \in P |-> i]
           order == Ascending(key)
<1>1. P \subseteq 1 .. Len(b) /\ Len(b) \in Nat
  BY EmbConstants, LenProperties DEF entries_inserted
<1>2. IsFiniteSet(P)
  <2>1. IsFiniteSet(1 .. Len(b))
    BY <1>1, FS_Interval
  <2> HIDE DEF P
  <2> QED
    BY <1>1, <2>1, FS_Subset
<1>3. key \in Injection(P, Int)
  BY <1>1 DEF Injection, IsInjective
<1>4. eligible(b) = [k \in DOMAIN order |-> b[order[k]]]
  BY DEF eligible
<1>5. \A i \in P : b[i] \in new
  OBVIOUS
<1>6. \A l \in new : l.text # Blank => \E i \in P : l = b[i]
  OBVIOUS
<1> HIDE DEF new, P, key
<1>7. /\ DOMAIN order = 1 .. Cardinality(P) /\ Cardinality(P) \in Nat
      /\ \A k \in 1 .. Cardinality(P) : order[k] \in P
      /\ \A i \in P : \E k \in 1 .. Cardinality(P) : order[k] = i
  BY <1>2, <1>3, AscendingIs, ZenonT(40)
<1> HIDE DEF order
<1>8. eligible(b) \in [1 .. Cardinality(P) -> new]
  BY <1>4, <1>5, <1>7
<1>9. eligible(b) \in Seq(new)
  BY <1>7, <1>8, SeqDef
<1>10. \A i \in P : \E k \in DOMAIN eligible(b) : eligible(b)[k] = b[i]
  BY <1>4, <1>7
<1>11. \A l \in new : l.text # Blank => l \in ToSet(eligible(b))
  BY <1>6, <1>10 DEF ToSet
<1> QED
  BY <1>9, <1>11 DEF new

\* Members in ascending order of a key that numbers them are at their numbers.
LEMMA AtTheirNumbers ==
  ASSUME NEW m \in Nat, NEW key, key \in Bijection(1 .. m, 1 .. m)
  PROVE  /\ DOMAIN Ascending(key) = 1 .. m
         /\ \A k \in 1 .. m : Ascending(key)[k] \in 1 .. m /\ key[Ascending(key)[k]] = k
<1> DEFINE P == 1 .. m
<1>1. IsFiniteSet(P) /\ Cardinality(P) = m
  BY FS_Interval
<1>2. key \in Injection(P, Int)
  BY DEF Bijection, Injection, IsInjective
<1>3. /\ DOMAIN Ascending(key) = 1 .. m
      /\ \A k \in 1 .. m :
           Ascending(key)[k] \in P /\ Cardinality({j \in P : key[j] <= key[Ascending(key)[k]]}) = k
  <2> HIDE DEF P
  <2>1. /\ DOMAIN Ascending(key) = 1 .. Cardinality(P)
        /\ \A k \in 1 .. Cardinality(P) :
             Ascending(key)[k] \in P /\ Cardinality({j \in P : key[j] <= key[Ascending(key)[k]]}) = k
    BY <1>1, <1>2, AscendingIs
  <2> QED
    BY <1>1, <2>1
<1>4. ASSUME NEW i \in P PROVE Cardinality({j \in P : key[j] <= key[i]}) = key[i]
  <2> DEFINE S == {j \in P : key[j] <= key[i]}
             f == [j \in S |-> key[j]]
  <2>1. /\ \A j \in P : key[j] \in P
        /\ \A n \in P : \E j \in P : key[j] = n
    BY DEF Bijection, Injection, Surjection
  <2>0. key[i] \in 1 .. m
    BY <2>1
  <2>2. \A j \in S : f[j] \in 1 .. key[i]
    <3> SUFFICES ASSUME NEW j \in P, key[j] <= key[i] PROVE key[j] \in 1 .. key[i]
      OBVIOUS
    <3>1. key[j] \in 1 .. m
      BY <2>1
    <3> QED
      BY <2>0, <3>1
  <2>3. \A n \in 1 .. key[i] : \E j \in S : f[j] = n
    <3> SUFFICES ASSUME NEW n \in 1 .. key[i] PROVE \E j \in S : f[j] = n
      OBVIOUS
    <3>1. key[i] \in 1 .. m /\ n \in P /\ n <= key[i]
      BY <2>1
    <3>2. PICK j \in P : key[j] = n
      BY <2>1, <3>1
    <3>3. j \in S
      BY <3>1, <3>2
    <3> QED
      BY <3>2, <3>3
  <2>4. f \in Bijection(S, 1 .. key[i])
    BY <2>2, <2>3 DEF Bijection, Injection, Surjection, IsInjective
  <2>5. IsFiniteSet(S)
    BY <1>1, FS_Subset
  <2>6. Cardinality(1 .. key[i]) = key[i]
    <3>1. key[i] \in Int /\ 1 \in Int /\ ~(1 > key[i])
      BY <2>0
    <3>2. Cardinality(1 .. key[i]) = key[i] - 1 + 1
      BY <3>1, FS_Interval
    <3> QED
      BY <3>1, <3>2
  <2> HIDE DEF f, S
  <2>7. Cardinality(1 .. key[i]) = Cardinality(S)
    BY <2>4, <2>5, FS_Bijection DEF ExistsBijection
  <2> QED
    BY <2>6, <2>7 DEF S
<1> QED
  BY <1>3, <1>4

\* An answer has items for the first of its texts, each once, in some order.
ItemOf(texts, L) == [index : 1 .. Len(texts), vec : [of : {l.text : l \in L}, wide : BOOLEAN]]

FitsTexts(items, texts, L) ==
  /\ items \in Seq(ItemOf(texts, L)) /\ Len(items) <= Len(texts)
  /\ [i \in DOMAIN items |-> items[i].index] \in Bijection(1 .. Len(items), 1 .. Len(items))
  /\ \A i \in 1 .. Len(items) : items[i].vec.of = texts[items[i].index].text

\* What the first m texts are answered with, each once.
Numbered(items, texts, m) ==
  /\ \A i \in 1 .. m : items[i].index \in 1 .. m /\ items[i].vec.of = texts[items[i].index].text
  /\ \A i, j \in 1 .. m : items[i].index = items[j].index => i = j
  /\ \A k \in 1 .. m : \E i \in 1 .. m : items[i].index = k

LEMMA SeqOfLength ==
  ASSUME NEW S, NEW n \in Nat, NEW f \in [1 .. n -> S]
  PROVE  f \in Seq(S) /\ Len(f) = n /\ DOMAIN f = 1 .. n
<1>1. f \in Seq(S)
  BY SeqDef
<1>2. DOMAIN f = 1 .. n /\ DOMAIN f = 1 .. Len(f) /\ Len(f) \in Nat
  BY <1>1, LenProperties
<1>3. Len(f) = n
  BY <1>2
<1> QED
  BY <1>1, <1>2, <1>3

LEMMA FitsByIndex ==
  ASSUME NEW L, NEW texts \in Seq(L), NEW m \in Nat, m <= Len(texts), NEW items,
         items \in [1 .. m -> ItemOf(texts, L)], Numbered(items, texts, m)
  PROVE  FitsTexts(items, texts, L)
<1>1. items \in Seq(ItemOf(texts, L)) /\ Len(items) = m /\ DOMAIN items = 1 .. m
  <2> HIDE DEF ItemOf
  <2> QED
    BY SeqOfLength
<1> DEFINE key == [i \in 1 .. m |-> items[i].index]
<1>2. key \in Bijection(1 .. m, 1 .. m)
  BY DEF Bijection, Injection, Surjection, IsInjective, Numbered
<1> QED
  BY <1>1, <1>2 DEF FitsTexts, Numbered

LEMMA AnswersFit ==
  ASSUME NEW L, NEW texts \in Seq(L), texts # <<>>, NEW items \in Answers(texts)
  PROVE  FitsTexts(items, texts, L)
<1> DEFINE n == Len(texts)
           item(i, wide) == [index |-> i, vec |-> [of |-> texts[i].text, wide |-> wide]]
           full == [i \in 1 .. n |-> item(i, TRUE)]
<1>1. n \in Nat /\ n # 0 /\ DOMAIN texts = 1 .. n /\ \A i \in 1 .. n : texts[i] \in L
  BY EmptySeq, LenProperties, ElementOfSeq
<1>2. \A i \in 1 .. n : \A w \in BOOLEAN : item(i, w) \in ItemOf(texts, L)
  BY <1>1 DEF ItemOf
<1>3. full \in Seq(ItemOf(texts, L)) /\ Len(full) = n /\ full \in [1 .. n -> ItemOf(texts, L)]
  <2> HIDE DEF ItemOf, item
  <2>1. full \in [1 .. n -> ItemOf(texts, L)]
    BY <1>2
  <2> HIDE DEF full, n
  <2> QED
    BY <1>1, <2>1, SeqOfLength
<1>4. items \in {full, Reverse(full), SubSeq(full, 1, Len(full) - 1), [full EXCEPT ![1] = item(1, FALSE)]}
  BY <1>1 DEF Answers
<1>5. CASE items = full
  <2>1. \A i \in 1 .. n : items[i].index = i /\ items[i].vec.of = texts[i].text
    BY <1>5
  <2>2. Numbered(items, texts, n)
    BY <2>1 DEF Numbered
  <2> HIDE DEF full, item
  <2> QED
    BY <1>1, <1>3, <1>5, <2>2, FitsByIndex
<1>6. CASE items = Reverse(full)
  <2>1. items = [i \in 1 .. n |-> full[n - i + 1]]
    <3> HIDE DEF full, n
    <3> QED
      BY <1>3, <1>6 DEF Reverse
  <2>2. \A i \in 1 .. n : n - i + 1 \in 1 .. n
    BY <1>1
  <2>3. items \in [1 .. n -> ItemOf(texts, L)]
    BY <1>3, <2>1, <2>2
  <2>4. \A i \in 1 .. n : items[i].index = n - i + 1 /\ items[i].vec.of = texts[n - i + 1].text
    BY <2>1, <2>2
  <2>5. \A i, j \in 1 .. n : items[i].index = items[j].index => i = j
    BY <1>1, <2>4
  <2>6. \A k \in 1 .. n : n - (n - k + 1) + 1 = k
    BY <1>1
  <2> HIDE DEF full, item
  <2>7. \A k \in 1 .. n : \E i \in 1 .. n : items[i].index = k
    BY <2>2, <2>4, <2>6
  <2>8. \A i \in 1 .. n : items[i].index \in 1 .. n /\ items[i].vec.of = texts[items[i].index].text
    BY <2>2, <2>4
  <2> HIDE DEF n
  <2>9. Numbered(items, texts, n)
    BY <2>5, <2>7, <2>8 DEF Numbered
  <2> QED
    BY <1>1, <2>3, <2>9, FitsByIndex
<1>7. CASE items = SubSeq(full, 1, Len(full) - 1)
  <2>1. n - 1 \in Nat /\ n - 1 <= n /\ 1 .. n - 1 \subseteq 1 .. n
    BY <1>1
  <2>2. items = [i \in 1 .. n - 1 |-> full[i]]
    BY <1>1, <1>3, <1>7, <2>1
  <2>3. items \in [1 .. n - 1 -> ItemOf(texts, L)]
    BY <1>3, <2>1, <2>2
  <2>4. \A i \in 1 .. n - 1 : items[i].index = i /\ items[i].vec.of = texts[i].text
    BY <2>1, <2>2
  <2>5. Numbered(items, texts, n - 1)
    BY <2>1, <2>4 DEF Numbered
  <2> HIDE DEF full, item
  <2> QED
    BY <2>1, <2>3, <2>5, FitsByIndex
<1>8. CASE items = [full EXCEPT ![1] = item(1, FALSE)]
  <2>1. 1 \in 1 .. n
    BY <1>1
  <2>2. items \in [1 .. n -> ItemOf(texts, L)]
    BY <1>2, <1>3, <1>8, <2>1
  <2>3. \A i \in 1 .. n : items[i].index = i /\ items[i].vec.of = texts[i].text
    BY <1>8, <2>1
  <2>4. Numbered(items, texts, n)
    BY <2>3 DEF Numbered
  <2> HIDE DEF full, item
  <2> QED
    BY <1>1, <2>2, <2>4, FitsByIndex
<1> QED
  BY <1>4, <1>5, <1>6, <1>7, <1>8

\* In the order of their indices the vectors of an answer are those of its
\* first texts.
LEMMA AnswersInOrder ==
  ASSUME NEW L, NEW texts \in Seq(L), NEW items, FitsTexts(items, texts, L)
  PROVE  /\ by_index(items) \in Seq([of : {l.text : l \in L}, wide : BOOLEAN])
         /\ Len(by_index(items)) = Len(items) /\ Len(items) \in Nat /\ Len(items) <= Len(texts)
         /\ \A k \in 1 .. Len(items) : by_index(items)[k].of = texts[k].text
         /\ (\A i \in DOMAIN items : items[i].vec.wide) => \A k \in 1 .. Len(items) : by_index(items)[k].wide
<1> DEFINE m == Len(items)
           key == [i \in DOMAIN items |-> items[i].index]
           order == Ascending(key)
           V == [of : {l.text : l \in L}, wide : BOOLEAN]
<1>1. /\ m \in Nat /\ m <= Len(texts) /\ DOMAIN items = 1 .. m
      /\ \A i \in 1 .. m : items[i] \in ItemOf(texts, L)
      /\ \A i \in 1 .. m : items[i].vec.of = texts[items[i].index].text
      /\ key \in Bijection(1 .. m, 1 .. m)
  <2> HIDE DEF ItemOf
  <2> QED
    BY LenProperties, ElementOfSeq DEF FitsTexts
<1>2. \A i \in 1 .. m : key[i] = items[i].index /\ items[i].vec \in V
  BY <1>1 DEF ItemOf
<1>3. by_index(items) = [k \in DOMAIN order |-> items[order[k]].vec]
  BY DEF by_index
<1> HIDE DEF m, key, V
<1>4. DOMAIN order = 1 .. m /\ \A k \in 1 .. m : order[k] \in 1 .. m /\ key[order[k]] = k
  BY <1>1, AtTheirNumbers
<1> HIDE DEF order
<1>5. by_index(items) \in [1 .. m -> V] /\ \A k \in 1 .. m : by_index(items)[k] = items[order[k]].vec
  BY <1>2, <1>3, <1>4
<1>6. by_index(items) \in Seq(V) /\ Len(by_index(items)) = m
  BY <1>1, <1>5, SeqOfLength
<1>7. ASSUME NEW k \in 1 .. m PROVE by_index(items)[k].of = texts[k].text
  <2>1. order[k] \in 1 .. m /\ items[order[k]].index = k /\ by_index(items)[k] = items[order[k]].vec
    BY <1>1, <1>2, <1>4, <1>5
  <2>2. items[order[k]].vec.of = texts[items[order[k]].index].text
    BY <1>1, <2>1
  <2> QED
    BY <2>1, <2>2
<1>8. (\A i \in DOMAIN items : items[i].vec.wide) => \A k \in 1 .. m : by_index(items)[k].wide
  BY <1>1, <1>4, <1>5
<1> QED
  BY <1>1, <1>6, <1>7, <1>8 DEF m, V

\* A request takes the lines that follow those sent; none is left once all are.
LEMMA NextTextsIs ==
  ASSUME embJob \in JobState, embJob.sent <= Len(embJob.eligible)
  PROVE  /\ NextTexts \in Seq(Lines) /\ Len(NextTexts) \in Nat
         /\ embJob.sent + Len(NextTexts) <= Len(embJob.eligible)
         /\ \A k \in 1 .. Len(NextTexts) : NextTexts[k] = embJob.eligible[embJob.sent + k]
         /\ AllSent => embJob.sent = Len(embJob.eligible)
<1> DEFINE e == embJob.eligible
           n == Len(embJob.eligible)
           s == embJob.sent
           last == IF embJob.provider = "local" \/ s + ApiBatch > n THEN n ELSE s + ApiBatch
<1>1. e \in Seq(Lines) /\ n \in Nat /\ s \in Nat /\ s <= n
  BY LenProperties DEF JobState
<1>2. last \in Nat /\ s <= last /\ last <= n /\ (s < n => s < last)
  BY <1>1, EmbConstants
<1>3. NextTexts = SubSeq(e, s + 1, last)
  BY DEF NextTexts
<1> HIDE DEF e, n, s, last
<1>4. s + 1 \in 1 .. n + 1 /\ last \in s .. n
  BY <1>1, <1>2
<1>5. /\ NextTexts \in Seq(Lines) /\ Len(NextTexts) = last - s
      /\ \A k \in 1 .. last - s : NextTexts[k] = e[s + k]
  <2>1. n = Len(e)
    BY DEF e, n
  <2>2. /\ NextTexts \in Seq(Lines)
        /\ Len(NextTexts) = IF s + 1 <= last THEN last - (s + 1) + 1 ELSE 0
        /\ \A k \in 1 .. last - (s + 1) + 1 : NextTexts[k] = e[s + 1 + k - 1]
    BY <1>1, <1>2, <1>3, <1>4, <2>1, SubSeqProperties
  <2>3. last - (s + 1) + 1 = last - s /\ \A k \in Int : s + 1 + k - 1 = s + k
    BY <1>1, <1>2
  <2>4. Len(NextTexts) = last - s
    BY <1>1, <1>2, <2>2
  <2>5. ASSUME NEW k \in 1 .. last - s PROVE NextTexts[k] = e[s + k]
    <3>1. k \in Int /\ k \in 1 .. last - (s + 1) + 1
      BY <1>1, <1>2, <2>3
    <3>2. NextTexts[k] = e[s + 1 + k - 1]
      BY <2>2, <3>1
    <3> QED
      BY <2>3, <3>1, <3>2
  <2> QED
    BY <2>2, <2>4, <2>5
<1>6. AllSent => s = n
  <2>1. AllSent => Len(NextTexts) = 0
    BY DEF AllSent
  <2> QED
    BY <1>1, <1>2, <1>5, <2>1
<1> QED
  BY <1>1, <1>2, <1>5, <1>6 DEF e, n, s
-----------------------------------------------------------------------------
LEMMA EmbStart == EmbInit => EmbInv
  BY DEF EmbInit, EmbInv, NoJob, JobState, EmbeddingIsHarmless, VectorsAreOwn,
         VectorMissesAreFailures, CountedLinesSurvive

\* Until its commit a job leaves alone what is stored.
LEMMA StoredStays ==
  ASSUME EmbInv, UNCHANGED <<entries, vectors, embPast>>
  PROVE  EmbeddingIsHarmless'
  BY DEF EmbInv, EmbeddingIsHarmless, VectorsAreOwn, VectorMissesAreFailures, CountedLinesSurvive

LEMMA StartKeeps ==
  ASSUME EmbInv, NEW cfg \in EmbConfigs, StartJob(cfg) PROVE EmbInv'
<1>1. embJob.asked \in Nat /\ EmbeddingIsHarmless'
  BY StoredStays DEF EmbInv, StartJob, JobState
<1>2. ingest_embeddings_provider(cfg) \in {"openai", "local", "disabled"}
  BY DEF ingest_embeddings_provider, get_embeddings_provider, build_embeddings_provider
<1> DEFINE p == ingest_embeddings_provider(cfg)
<1>3. embJob' = [pc |-> "read", asked |-> embJob.asked + 1, provider |-> p,
                rows |-> {}, vecs |-> {}, eligible |-> <<>>, got |-> <<>>, sent |-> 0, tries |-> 0,
                counted |-> {}, failed |-> {}, sound |-> TRUE]
  BY DEF StartJob
<1> HIDE DEF p
<1>4. p \in {"openai", "local", "disabled"}
  BY <1>2 DEF p
<1>5. embJob' \in JobState
  BY <1>1, <1>3, <1>4 DEF JobState
<1>6. JobHolds' /\ embJob'.pc = "read"
  BY <1>3 DEF JobHolds
<1> QED
  BY <1>1, <1>5, <1>6 DEF EmbInv

\* A job that reads on, or is done with a flush, holds no place of one.
LEMMA LoseKeeps == ASSUME EmbInv, LoseJob PROVE EmbInv'
<1>1. embJob.asked \in Nat /\ EmbeddingIsHarmless'
  BY StoredStays DEF EmbInv, LoseJob, JobState
<1>2. embJob' \in [pc : {"none"}, asked : Nat] /\ embJob' \notin JobState
  BY <1>1 DEF LoseJob, NoJob, JobState
<1> QED
  BY <1>1, <1>2 DEF EmbInv

LEMMA CommitKeeps == ASSUME EmbInv, CommitJob PROVE EmbInv'
<1>1. embJob \in JobState /\ JobHolds /\ embJob.pc = "read"
  BY DEF EmbInv, CommitJob
<1>2. embJob' \in [pc : {"none"}, asked : Nat] /\ embJob' \notin JobState
  BY <1>1 DEF CommitJob, NoJob, JobState
<1>3. /\ entries' = entries \cup embJob.rows /\ vectors' = vectors \cup embJob.vecs
      /\ embPast'.counted = embPast.counted \cup embJob.counted
      /\ embPast'.failed = embPast.failed \cup embJob.failed
  BY DEF CommitJob
<1>4. EmbeddingIsHarmless
  BY DEF EmbInv
<1>5. VectorsAreOwn'
  BY <1>1, <1>3, <1>4 DEF EmbeddingIsHarmless, VectorsAreOwn, JobHolds
<1>6. CountedLinesSurvive'
  BY <1>1, <1>3, <1>4 DEF EmbeddingIsHarmless, CountedLinesSurvive, JobHolds
<1>7. VectorMissesAreFailures'
  BY <1>1, <1>3, <1>4 DEF EmbeddingIsHarmless, VectorMissesAreFailures, JobHolds
<1> QED
  BY <1>2, <1>5, <1>6, <1>7 DEF EmbInv, EmbeddingIsHarmless

LEMMA FlushKeeps ==
  ASSUME EmbInv, NEW b \in Batches, FlushBatch(b) PROVE EmbInv'
<1> DEFINE new == {b[i] : i \in entries_inserted(b)}
           embeds == embJob.provider # "disabled" /\ eligible(b) # <<>>
<1>1. embJob \in JobState /\ JobHolds /\ embJob.pc = "read" /\ EmbeddingIsHarmless'
  BY StoredStays DEF EmbInv, FlushBatch
<1>2. new \subseteq Lines
  BY EmbConstants DEF Lines, Range, entries_inserted
<1>3. eligible(b) \in Seq(new) /\ \A l \in new : l.text # Blank => l \in ToSet(eligible(b))
  BY EligibleIs
<1>4. embJob' = [embJob EXCEPT
                     !.pc = IF embeds THEN "embed" ELSE "read",
                     !.rows = @ \cup new, !.counted = @ \cup new,
                     !.eligible = IF embeds THEN eligible(b) ELSE <<>>,
                     !.failed = IF embJob.provider = "disabled" THEN @ \cup new ELSE @,
                     !.got = <<>>, !.sent = 0, !.tries = 0, !.sound = TRUE]
  BY DEF FlushBatch
<1> HIDE DEF new
<1>5. eligible(b) \in Seq(Lines) /\ eligible(b) \in Seq(embJob.rows \cup new)
  BY <1>2, <1>3, SeqMonotonic
<1> DEFINE j == embJob'
<1>6. /\ j.pc = (IF embeds THEN "embed" ELSE "read") /\ j.rows = embJob.rows \cup new
      /\ j.counted = embJob.counted \cup new /\ j.vecs = embJob.vecs
      /\ j.failed = (IF embJob.provider = "disabled" THEN embJob.failed \cup new ELSE embJob.failed)
      /\ j.eligible = (IF embeds THEN eligible(b) ELSE <<>>)
      /\ j.got = <<>> /\ j.sent = 0
  BY <1>1, <1>4 DEF JobState
<1>7. j \in JobState
  <2> DEFINE pc == IF embeds THEN "embed" ELSE "read"
             e == IF embeds THEN eligible(b) ELSE <<>>
             f == IF embJob.provider = "disabled" THEN embJob.failed \cup new ELSE embJob.failed
  <2>1. /\ pc \in {"read", "embed"} /\ e \in Seq(Lines) /\ f \in SUBSET Lines
        /\ embJob.rows \cup new \in SUBSET Lines /\ embJob.counted \cup new \in SUBSET Lines
        /\ <<>> \in Seq(Vector)
    BY <1>1, <1>2, <1>5 DEF JobState
  <2>2. j = [embJob EXCEPT !.pc = pc, !.rows = embJob.rows \cup new, !.counted = embJob.counted \cup new,
                !.eligible = e, !.failed = f, !.got = <<>>, !.sent = 0, !.tries = 0, !.sound = TRUE]
    BY <1>4
  <2> HIDE DEF pc, e, f, j, embeds
  <2> QED
    BY <1>1, <2>1, <2>2 DEF JobState
<1>8. FlushHolds' \/ j.pc = "read"
  BY <1>5, <1>6, LenProperties DEF FlushHolds
<1>9. JobHolds'
  <2>1. j.counted \subseteq entries' \cup j.rows /\ \A v \in j.vecs : v.entry \in j.rows /\ v.of = v.entry.text
    BY <1>1, <1>6 DEF JobHolds, FlushBatch
  <2>2. ASSUME NEW l \in j.rows, l.text # Blank, \A v \in j.vecs : v.entry # l
        PROVE  l \in j.failed \/ (j.pc = "embed" /\ l \in ToSet(j.eligible))
    <3>1. CASE l \in embJob.rows
      BY <1>1, <1>6, <2>2, <3>1 DEF JobHolds
    <3>2. CASE l \in new
      <4>1. l \in ToSet(eligible(b)) /\ eligible(b) # <<>>
        BY <1>3, <2>2, <3>2 DEF ToSet
      <4> QED
        BY <1>6, <3>2, <4>1
    <3> QED
      BY <1>6, <2>2, <3>1, <3>2
  <2> QED
    BY <2>1, <2>2 DEF JobHolds
<1> QED
  BY <1>1, <1>7, <1>8, <1>9 DEF EmbInv

\* A flush that is given up leaves its lines without vectors, as failed.
LEMMA FailKeeps == ASSUME EmbInv, EmbedFails PROVE EmbInv'
<1>1. embJob \in JobState /\ JobHolds /\ FlushHolds /\ EmbeddingIsHarmless'
  BY StoredStays DEF EmbInv, EmbedFails
<1>2. CASE embJob' = [embJob EXCEPT !.tries = @ + 1]
  <2>1. embJob' \in JobState
    <3> DEFINE k == embJob.tries + 1
    <3>1. k \in Nat /\ embJob' = [embJob EXCEPT !.tries = k]
      BY <1>1, <1>2 DEF JobState
    <3> HIDE DEF k
    <3> QED
      BY <1>1, <3>1 DEF JobState
  <2>2. /\ embJob'.pc = embJob.pc /\ embJob'.rows = embJob.rows /\ embJob'.vecs = embJob.vecs
        /\ embJob'.counted = embJob.counted /\ embJob'.failed = embJob.failed
        /\ embJob'.eligible = embJob.eligible /\ embJob'.got = embJob.got
        /\ embJob'.sent = embJob.sent /\ embJob'.sound = embJob.sound /\ entries' = entries
    BY <1>1, <1>2 DEF JobState, EmbedFails
  <2>3. JobHolds' /\ FlushHolds'
    BY <1>1, <2>2 DEF JobHolds, FlushHolds
  <2> QED
    BY <1>1, <2>1, <2>3 DEF EmbInv
<1>3. CASE embJob' = [embJob EXCEPT !.pc = "read", !.failed = @ \cup ToSet(embJob.eligible)]
  <2>1. ToSet(embJob.eligible) \subseteq Lines
    <3>1. embJob.eligible \in Seq(Lines)
      BY <1>1 DEF JobState
    <3> QED
      BY <3>1, LenProperties, ElementOfSeq DEF ToSet
  <2>2. embJob' \in JobState
    BY <1>1, <1>3, <2>1 DEF JobState
  <2>3. /\ embJob'.pc = "read" /\ embJob'.rows = embJob.rows /\ embJob'.vecs = embJob.vecs
        /\ embJob'.counted = embJob.counted /\ embJob'.failed = embJob.failed \cup ToSet(embJob.eligible)
        /\ entries' = entries
    BY <1>1, <1>3 DEF JobState, EmbedFails
  <2>4. JobHolds'
    BY <1>1, <2>3 DEF JobHolds
  <2> QED
    BY <1>1, <2>2, <2>3, <2>4 DEF EmbInv
<1> QED
  BY <1>2, <1>3 DEF EmbedFails

LEMMA PersistKeeps ==
  ASSUME EmbInv, NEW kept \in BOOLEAN, PersistVectors(kept) PROVE EmbInv'
<1> DEFINE n == Len(embJob.eligible)
           e == embJob.eligible
           g == embJob.got
           built == build_embedding_rows(e, g)
           keeps == kept /\ Len(g) = n
<1>1. /\ embJob \in JobState /\ JobHolds /\ FlushHolds /\ EmbeddingIsHarmless' /\ entries' = entries
      /\ embJob.pc = "embed" /\ AllSent
  BY StoredStays DEF EmbInv, PersistVectors
<1>2. /\ e \in Seq(Lines) /\ e \in Seq(embJob.rows) /\ g \in Seq(Vector) /\ n \in Nat /\ Len(g) \in Nat
      /\ embJob.sent = n /\ DOMAIN e = 1 .. n /\ DOMAIN g = 1 .. Len(g)
  BY <1>1, NextTextsIs, LenProperties DEF JobState, FlushHolds
<1>3. /\ \A i \in 1 .. n : e[i] \in Lines /\ e[i] \in embJob.rows
      /\ Len(g) = n => \A i \in 1 .. n : g[i].of = e[i].text
      /\ embJob.sound => Len(g) = n /\ \A i \in 1 .. n : g[i].wide
  BY <1>1, <1>2, ElementOfSeq DEF FlushHolds
<1>4. built = {[entry |-> e[i], of |-> g[i].of] : i \in {k \in 1 .. n : g[k].wide}}
  BY <1>2 DEF build_embedding_rows
<1>5. Len(g) = n => \A v \in built : v.entry \in embJob.rows /\ v.entry \in Lines /\ v.of = v.entry.text
  BY <1>3, <1>4
<1>6. embJob' = [embJob EXCEPT !.pc = "read",
                     !.vecs = IF keeps THEN @ \cup built ELSE @,
                     !.failed = IF kept /\ embJob.sound THEN @ ELSE @ \cup ToSet(e)]
  BY <1>2 DEF PersistVectors
<1>7. ToSet(e) \subseteq Lines
  BY <1>2, <1>3 DEF ToSet
<1>8. Len(g) = n => built \subseteq [entry : Lines, of : {l.text : l \in Lines}]
  BY <1>3, <1>4
<1>9. \A l \in ToSet(e) : embJob.sound => \E v \in built : v.entry = l
  <2> SUFFICES ASSUME NEW i \in 1 .. n, embJob.sound PROVE \E v \in built : v.entry = e[i]
    BY <1>2 DEF ToSet
  <2>1. i \in {k \in 1 .. n : g[k].wide}
    BY <1>3
  <2>2. [entry |-> e[i], of |-> g[i].of] \in built
    BY <1>4, <2>1
  <2> HIDE DEF built
  <2> QED
    BY <2>2
<1> HIDE DEF built, e, g, n
<1> DEFINE vs == IF keeps THEN embJob.vecs \cup built ELSE embJob.vecs
           fs == IF kept /\ embJob.sound THEN embJob.failed ELSE embJob.failed \cup ToSet(e)
<1>10. vs \in SUBSET [entry : Lines, of : {l.text : l \in Lines}] /\ fs \in SUBSET Lines
  BY <1>1, <1>7, <1>8 DEF JobState
<1>11. embJob' = [embJob EXCEPT !.pc = "read", !.vecs = vs, !.failed = fs]
  BY <1>6
<1>12. /\ \A v \in vs : v.entry \in embJob.rows /\ v.of = v.entry.text
       /\ \A l \in embJob.rows : l.text # Blank /\ (\A v \in vs : v.entry # l) => l \in fs
  <2>1. \A v \in vs : v.entry \in embJob.rows /\ v.of = v.entry.text
    BY <1>1, <1>5 DEF JobHolds
  <2>2. ASSUME NEW l \in embJob.rows, l.text # Blank, \A v \in vs : v.entry # l PROVE l \in fs
    <3>1. l \in embJob.failed \/ l \in ToSet(e)
      BY <1>1, <2>2 DEF JobHolds, e
    <3>2. CASE kept /\ embJob.sound
      <4>1. keeps
        BY <1>3, <3>2
      <4>2. l \notin ToSet(e)
        BY <1>9, <2>2, <3>2, <4>1
      <4> QED
        BY <3>1, <4>2
    <3> QED
      BY <3>1, <3>2
  <2> QED
    BY <2>1, <2>2
<1> HIDE DEF vs, fs
<1>13. embJob' \in JobState
  BY <1>1, <1>10, <1>11 DEF JobState
<1>14. /\ embJob'.pc = "read" /\ embJob'.rows = embJob.rows /\ embJob'.vecs = vs
       /\ embJob'.failed = fs /\ embJob'.counted = embJob.counted
  BY <1>1, <1>11 DEF JobState
<1>15. JobHolds'
  BY <1>1, <1>12, <1>14 DEF JobHolds
<1> QED
  BY <1>1, <1>13, <1>14, <1>15 DEF EmbInv

\* Vectors follow those of the lines sent before, as their lines do.
LEMMA BatchKeeps ==
  ASSUME EmbInv, embJob.pc = "embed", ~AllSent, NEW items \in Answers(NextTexts), EmbedBatch(items)
  PROVE  EmbInv'
<1> DEFINE e == embJob.eligible
           g == embJob.got
           s == embJob.sent
           texts == NextTexts
           h == by_index(items)
           m == Len(items)
<1>1. embJob \in JobState /\ JobHolds /\ FlushHolds /\ EmbeddingIsHarmless' /\ entries' = entries
  BY StoredStays DEF EmbInv, EmbedBatch
<1>2. /\ texts \in Seq(Lines) /\ Len(texts) \in Nat /\ s + Len(texts) <= Len(e)
      /\ \A k \in 1 .. Len(texts) : texts[k] = e[s + k]
      /\ texts # <<>>
  BY <1>1, NextTextsIs DEF FlushHolds, AllSent
<1> HIDE DEF texts
<1>3. FitsTexts(items, texts, Lines)
  BY <1>2, AnswersFit DEF texts
<1> HIDE DEF h, m
<1>4. /\ h \in Seq(Vector) /\ Len(h) = m /\ m \in Nat /\ m <= Len(texts)
      /\ \A k \in 1 .. m : h[k].of = texts[k].text
      /\ (\A i \in DOMAIN items : items[i].vec.wide) => \A k \in 1 .. m : h[k].wide
  <2>1. /\ by_index(items) \in Seq([of : {l.text : l \in Lines}, wide : BOOLEAN])
        /\ Len(by_index(items)) = Len(items) /\ Len(items) \in Nat /\ Len(items) <= Len(texts)
        /\ \A k \in 1 .. Len(items) : by_index(items)[k].of = texts[k].text
        /\ (\A i \in DOMAIN items : items[i].vec.wide) => \A k \in 1 .. Len(items) : by_index(items)[k].wide
    BY <1>2, <1>3, AnswersInOrder, Zenon
  <2> QED
    BY <2>1 DEF h, m, Vector
<1>5. g \in Seq(Vector) /\ Len(g) \in Nat /\ s \in Nat /\ Len(g) <= s
  BY <1>1, LenProperties DEF JobState, FlushHolds
<1>6. /\ g \o h \in Seq(Vector) /\ Len(g \o h) = Len(g) + m
      /\ \A i \in 1 .. Len(g) + m : (g \o h)[i] = IF i <= Len(g) THEN g[i] ELSE h[i - Len(g)]
  <2> HIDE DEF g
  <2>1. /\ g \o h \in Seq(Vector) /\ Len(g \o h) = Len(g) + Len(h)
        /\ \A i \in 1 .. Len(g) + Len(h) : (g \o h)[i] = IF i <= Len(g) THEN g[i] ELSE h[i - Len(g)]
    BY <1>4, <1>5, ConcatProperties
  <2> QED
    BY <1>4, <2>1
<1> DEFINE sound == /\ embJob.sound /\ m = Len(texts)
                    /\ \A i \in DOMAIN items : items[i].vec.wide
<1>7. embJob' = [embJob EXCEPT !.got = g \o h, !.sent = s + Len(texts), !.tries = 0, !.sound = sound]
  BY DEF EmbedBatch, h, m, texts
<1>8. sound \in BOOLEAN
  BY <1>1 DEF JobState
<1>9. sound => Len(g) = s /\ m = Len(texts) /\ (\A i \in 1 .. Len(g) : g[i].wide) /\ \A k \in 1 .. m : h[k].wide
  BY <1>1, <1>4 DEF FlushHolds
<1>10. Len(g) = s => \A i \in 1 .. s : g[i].of = e[i].text
  BY <1>1 DEF FlushHolds
<1> HIDE DEF sound, e, g, s
<1>11. embJob' \in JobState
  <2>1. s + Len(texts) \in Nat
    BY <1>2, <1>5
  <2> QED
    BY <1>1, <1>6, <1>7, <1>8, <2>1 DEF JobState
<1>12. /\ embJob'.pc = embJob.pc /\ embJob'.rows = embJob.rows /\ embJob'.vecs = embJob.vecs
       /\ embJob'.counted = embJob.counted /\ embJob'.failed = embJob.failed
       /\ embJob'.eligible = e /\ embJob'.got = g \o h
       /\ embJob'.sent = s + Len(texts) /\ embJob'.sound = sound
  BY <1>1, <1>7 DEF JobState, e
<1>13. JobHolds'
  BY <1>1, <1>12 DEF JobHolds, e
<1>14. sound => /\ Len(g \o h) = s + Len(texts)
                /\ \A i \in 1 .. Len(g \o h) : (g \o h)[i].wide
  <2> SUFFICES ASSUME sound
               PROVE  Len(g) + m = s + Len(texts) /\ \A i \in 1 .. Len(g) + m : (g \o h)[i].wide
    BY <1>6
  <2>1. ASSUME NEW i \in 1 .. Len(g) + m PROVE (g \o h)[i].wide
    <3>1. (i <= Len(g) /\ i \in 1 .. Len(g)) \/ (~(i <= Len(g)) /\ i - Len(g) \in 1 .. m)
      BY <1>4, <1>5
    <3> QED
      BY <1>6, <1>9, <3>1
  <2> QED
    BY <1>9, <2>1
<1>15. Len(g \o h) = s + Len(texts) => \A i \in 1 .. s + Len(texts) : (g \o h)[i].of = e[i].text
  <2> SUFFICES ASSUME Len(g) + m = s + Len(texts), NEW i \in 1 .. s + Len(texts)
               PROVE  (g \o h)[i].of = e[i].text
    BY <1>6
  <2>1. Len(g) = s /\ m = Len(texts)
    BY <1>2, <1>4, <1>5
  <2>2. CASE i <= s
    <3>1. i \in 1 .. s /\ (g \o h)[i] = g[i]
      BY <1>5, <1>6, <2>1, <2>2
    <3> QED
      BY <1>10, <2>1, <3>1
  <2>3. CASE ~(i <= s)
    <3> DEFINE k == i - s
    <3>1. k \in 1 .. m /\ s + k = i /\ (g \o h)[i] = h[k]
      BY <1>2, <1>5, <1>6, <2>1, <2>3
    <3> HIDE DEF k
    <3>2. h[k].of = texts[k].text /\ texts[k] = e[s + k]
      BY <1>2, <1>4, <2>1, <3>1
    <3> QED
      BY <3>1, <3>2
  <2> QED
    BY <2>2, <2>3
<1>16. /\ e \in Seq(embJob.rows) /\ Len(g \o h) <= s + Len(texts) /\ s + Len(texts) <= Len(e)
  BY <1>1, <1>2, <1>4, <1>5, <1>6 DEF FlushHolds, e
<1>17. FlushHolds'
  BY <1>12, <1>14, <1>15, <1>16 DEF FlushHolds
<1> QED
  BY <1>1, <1>11, <1>13, <1>17 DEF EmbInv

\* Embedding never harms the job it is part of (_flush_log_batch, core/embeddings):
\* a stored vector is that of its own line, a stored line with a text lacks one only
\* after a failed flush, and no line counted as inserted is lost with the vectors,
\* whatever the batches, the width of a request, its order and its failures.
THEOREM EmbeddingRight == EmbSpec => []EmbeddingIsHarmless
<1>1. EmbInit => EmbInv
  BY EmbStart
<1>2. EmbInv /\ [EmbNext]_embVars => EmbInv'
  <2> SUFFICES ASSUME EmbInv, [EmbNext]_embVars PROVE EmbInv'
    OBVIOUS
  <2>1. ASSUME NEW cfg \in EmbConfigs, StartJob(cfg) PROVE EmbInv'
    BY <2>1, StartKeeps
  <2>2. ASSUME NEW b \in Batches, FlushBatch(b) PROVE EmbInv'
    BY <2>2, FlushKeeps
  <2>3. ASSUME embJob.pc = "embed", ~AllSent, NEW items \in Answers(NextTexts), EmbedBatch(items)
        PROVE  EmbInv'
    BY <2>3, BatchKeeps
  <2>4. CASE EmbedFails
    BY <2>4, FailKeeps
  <2>5. ASSUME NEW kept \in BOOLEAN, PersistVectors(kept) PROVE EmbInv'
    BY <2>5, PersistKeeps
  <2>6. CASE CommitJob
    BY <2>6, CommitKeeps
  <2>7. CASE LoseJob
    BY <2>7, LoseKeeps
  <2>8. CASE UNCHANGED embVars
    BY <2>8 DEF embVars, EmbInv, JobHolds, FlushHolds, EmbeddingIsHarmless, VectorsAreOwn,
                VectorMissesAreFailures, CountedLinesSurvive
  <2> QED
    BY <2>1, <2>2, <2>3, <2>4, <2>5, <2>6, <2>7, <2>8 DEF EmbNext
<1>3. EmbInv => EmbeddingIsHarmless
  BY DEF EmbInv
<1> QED
  BY <1>1, <1>2, <1>3, PTL DEF EmbSpec
=============================================================================
