-------------------------- MODULE RelationsProofs ---------------------------
(***************************************************************************)
(* Proofs about Relations, for every value of its constants: any numbers   *)
(* of instances, requests and entries.                                     *)
(***************************************************************************)
EXTENDS Relations, FiniteSetTheorems, TLAPS

\* A finite set that counts at most one.
LEMMA CountedOne ==
    ASSUME NEW S, IsFiniteSet(S), ~(Cardinality(S) > 1), NEW a \in S, NEW b \in S
    PROVE  a = b
<1> SUFFICES ASSUME a # b PROVE FALSE
  OBVIOUS
<1>1. {a, b} \subseteq S
  OBVIOUS
<1>2. IsFiniteSet({a}) /\ Cardinality({a}) = 1
  BY FS_Singleton
<1>3. {a, b} = {a} \cup {b} /\ b \notin {a}
  OBVIOUS
<1>4. IsFiniteSet({a, b}) /\ Cardinality({a, b}) = 2
  BY <1>2, <1>3, FS_AddElement
<1>5. Cardinality({a, b}) <= Cardinality(S)
  BY <1>1, <1>4, FS_Subset
<1>6. Cardinality(S) \in Nat
  BY FS_CardinalityType
<1> QED
  BY <1>4, <1>5, <1>6

-----------------------------------------------------------------------------
(* Typing.                                                                 *)

Actors == Workers \cup Requests

\* The sides that links can have: no entry is its own peer.
Sides == {s \in Entries \X Entries : s[1] # s[2]}
Turned(s) == <<s[2], s[1]>>

AtASide == {"relations", "airelations", "reason"}
Places == {"sides", "ais", "record"} \cup AtASide
Resting == {"idle", "new", "over"}

ActType == [pc : Places \cup Resting \cup {"claimed", "calling", "existing", "failing"},
            op : {"none", "analyze", "add", "remove"},
            entry : Entries \cup {NoEntry}, want : Links,
            drop : SUBSET Sides, link : SUBSET Sides,
            side : Sides \cup {NoSide}, rels : Links, ais : Links,
            unset : SUBSET Sides, rows : SUBSET Sides]

\* The peer of a side, seen from the entry; what its link and its flag are to be.
Peer(x, s) == IF s[1] = x.entry THEN s[2] ELSE s[1]
LinkOf(x, s) == x.want[Peer(x, s)]
FlagOf(x, s) == IF x.op = "analyze" THEN LinkOf(x, s) ELSE "none"

\* The entry's own side of a link comes before its peer's.
OwnFirst(x, sides) == \A s \in sides : s[1] = x.entry => Turned(s) \in sides

\* What an actor remembers fits where it stands.
PlaceFits(x) ==
    /\ x.pc \in Resting <=> x.entry = NoEntry
    /\ x.pc \notin Places => x.drop = {} /\ x.link = {} /\ x.unset = {} /\ x.rows = {}
    /\ x.pc \in AtASide <=> x.side # NoSide
    /\ x.pc \in Places \cup {"existing"} => x.want[x.entry] = "none"
    /\ x.pc \in {"ais", "record"} => x.drop = {} /\ x.link = {} /\ x.unset = {}

SidesFit(x) ==
    /\ \A s \in x.drop \cup x.link \cup x.unset \cup x.rows : x.entry \in {s[1], s[2]}
    /\ \A s \in x.link : LinkOf(x, s) # "none"
    /\ \A s \in x.drop : LinkOf(x, s) = "none"
    /\ OwnFirst(x, x.unset) /\ OwnFirst(x, x.rows)
    /\ IF x.op = "analyze"
       THEN /\ \A s \in x.drop \cup x.link : s[2] = x.entry
            /\ x.unset = {}
            /\ x.pc # "record" => x.rows = {}
            /\ \A s \in x.rows : LinkOf(x, s) # "none"
       ELSE OwnFirst(x, x.drop) /\ OwnFirst(x, x.link)

\* The arrays that it is to write at a side.
CopyFits(x) ==
    x.pc \in AtASide =>
        /\ x.entry \in {x.side[1], x.side[2]}
        /\ x.op = "analyze" => x.side[2] = x.entry
        /\ x.side[1] = x.entry => Turned(x.side) \in x.drop \cup x.link
        /\ x.pc = "relations" => /\ x.rels[x.side[2]] = LinkOf(x, x.side)
                                 /\ x.rels[x.side[1]] = "none"
        /\ x.pc # "reason" => /\ x.ais[x.side[2]] = FlagOf(x, x.side)
                              /\ x.ais[x.side[1]] = "none"
        /\ x.pc = "reason" => FlagOf(x, x.side) = "none"

WorkerFits(x) == /\ x.pc \notin {"new", "over"}
                 /\ x.op \in {"none", "analyze"}
                 /\ x.pc \in Places \cup {"existing"} <=> x.op = "analyze"

RequestFits(x) == /\ x.pc \in (Places \ {"ais"}) \cup {"new", "over"}
                  /\ x.op # "analyze"
                  /\ x.pc \in Places <=> x.op # "none"
                  /\ x.op = "add" => x.drop = {} /\ x.unset = {}
                  /\ x.op = "remove" => x.link = {}

ActorFits(a, x) == /\ PlaceFits(x) /\ SidesFit(x) /\ CopyFits(x)
                   /\ a \in Workers => WorkerFits(x)
                   /\ a \in Requests => RequestFits(x)

Busy == {a \in Actors : act[a].pc \notin Resting}

\* No entry has itself for a peer.
NoSelf == \A e \in Entries : /\ relations[e][e] = "none" /\ aiRelations[e][e] = "none"
                             /\ e \notin reasons[e] /\ timeline[e][e] = "none"

StoreTyped ==
    /\ relations \in [Entries -> Links] /\ aiRelations \in [Entries -> Links]
    /\ reasons \in [Entries -> SUBSET Entries] /\ timeline \in [Entries -> Links]
    /\ status \in [Entries -> {"unset", "pending", "done", "failed", "disabled"}]
    /\ claim \in [Entries -> {"none", "live", "expired"}]
    /\ faults \in 0..MaxFaults /\ claims \in 0..MaxClaims

TypeInv ==
    /\ StoreTyped /\ NoSelf
    /\ act \in [Actors -> ActType]
    /\ \A a \in Actors : ActorFits(a, act[a])
    /\ IsFiniteSet(Busy)
    /\ met \in SUBSET Entries /\ left \in SUBSET Entries /\ overtaken \in SUBSET Entries

\* The actor a, and only it, is now x.
Turns(a, x) == /\ act' = [act EXCEPT ![a] = x]
               /\ x \in ActType /\ ActorFits(a, x)

LEMMA Turn ==
    ASSUME TypeInv, NEW a \in Actors, NEW x, Turns(a, x)
    PROVE  /\ act' \in [Actors -> ActType] /\ act'[a] = x
           /\ \A b \in Actors : b # a => act'[b] = act[b]
           /\ \A b \in Actors : ActorFits(b, act'[b])
           /\ IsFiniteSet(Busy')
<1>1. /\ act' \in [Actors -> ActType] /\ act'[a] = x
      /\ \A b \in Actors : b # a => act'[b] = act[b]
  BY DEF Turns, TypeInv
<1>2. \A b \in Actors : ActorFits(b, act'[b])
  BY <1>1 DEF Turns, TypeInv
<1>3. Busy' \subseteq Busy \cup {a}
  BY <1>1 DEF Busy
<1>4. IsFiniteSet(Busy \cup {a})
  BY FS_AddElement DEF TypeInv
<1> QED
  BY <1>1, <1>2, <1>3, <1>4, FS_Subset

LEMMA ActorIs ==
    ASSUME TypeInv, NEW a \in Actors
    PROVE  act[a] \in ActType /\ ActorFits(a, act[a])
BY DEF TypeInv

LEMMA SideIs ==
    ASSUME NEW s \in Sides
    PROVE  /\ s[1] \in Entries /\ s[2] \in Entries /\ s[1] # s[2]
           /\ s = <<s[1], s[2]>> /\ s # NoSide
           /\ Turned(s) \in Sides /\ Turned(Turned(s)) = s /\ Turned(s) # s
           /\ Turned(s)[1] = s[2] /\ Turned(s)[2] = s[1]
BY ConstantsAssumption DEF Sides, Turned, NoSide, ConstantsAssumption

\* A side may be taken off those there are when the entry's own is among the first.
LEMMA OwnFirstLess ==
    ASSUME NEW x, NEW sides \in SUBSET Sides, OwnFirst(x, sides), NEW s \in sides,
           s[1] = x.entry \/ Turned(s) \notin sides
    PROVE  OwnFirst(x, sides \ {s}) /\ (s[1] = x.entry => Turned(s) \in sides \ {s})
<1>1. s[1] = x.entry => Turned(s) \in sides \ {s}
  BY SideIs DEF OwnFirst
<1>2. ASSUME NEW t \in sides \ {s}, t[1] = x.entry
      PROVE  Turned(t) \in sides \ {s}
  <2>1. Turned(t) \in sides
    BY <1>2 DEF OwnFirst
  <2>2. Turned(t) # s
    BY <1>2, SideIs
  <2> QED
    BY <2>1, <2>2
<1> QED
  BY <1>1, <1>2 DEF OwnFirst

-----------------------------------------------------------------------------
(* What each step of a writer does to what it remembers.                   *)

\* A writer goes on with its task.
GoesOn(y, x) == /\ y.pc \in Places /\ x.pc \in Places
                /\ x.op = y.op /\ x.entry = y.entry /\ x.want = y.want
                /\ y.side # NoSide => x.drop = y.drop /\ x.link = y.link
                /\ x.unset \in SUBSET y.unset

\* The side that x has read from the arrays rels and ais of its entry.
HasRead(x, s, rels, ais) ==
    /\ x.pc = "relations" /\ x.side = s
    /\ x.rels = [rels EXCEPT ![s[2]] = LinkOf(x, s)]
    /\ x.ais = [ais EXCEPT ![s[2]] = FlagOf(x, s)]

LEMMA TurnReadDropped ==
    ASSUME TypeInv, NEW a \in Actors, ReadDropped(a)
    PROVE  \E s \in act[a].drop, x \in ActType :
              /\ Turns(a, x) /\ GoesOn(act[a], x) /\ act[a].pc = "sides"
              /\ x.drop = act[a].drop \ {s} /\ x.link = act[a].link
              /\ x.unset = act[a].unset /\ x.rows = act[a].rows
              /\ \/ HasRead(x, s, relations[s[1]], aiRelations[s[1]])
                 \/ /\ x.pc = "sides" /\ x.side = NoSide
                    /\ relations[s[1]][s[2]] = "none" /\ aiRelations[s[1]][s[2]] = "none"
<1>0. act[a] \in ActType /\ ActorFits(a, act[a])
  BY ActorIs
<1>y. PICK y \in ActType : y = act[a]
  BY <1>0
<1>1. ActorFits(a, y) /\ y.pc = "sides"
  BY <1>0, <1>y DEF ReadDropped
<1> DEFINE There(s) == {relations[s[1]][s[2]], aiRelations[s[1]][s[2]]} # {"none"}
<1>s. PICK s \in y.drop :
       /\ s[1] = y.entry \/ Turned(s) \notin y.drop
       /\ act' = [act EXCEPT
                       ![a].drop = @ \ {s},
                       ![a].pc = IF There(s) THEN "relations" ELSE "sides",
                       ![a].side = IF There(s) THEN s ELSE NoSide,
                       ![a].rels = [relations[s[1]] EXCEPT ![s[2]] = "none"],
                       ![a].ais = [aiRelations[s[1]] EXCEPT ![s[2]] = "none"]]
  BY <1>y DEF ReadDropped, Ready, Turned
<1>2. s \in Sides /\ y.drop \in SUBSET Sides
  BY DEF ActType
<1>3. s[1] \in Entries /\ s[2] \in Entries /\ s[1] # s[2] /\ s # NoSide
  BY <1>2, SideIs
<1>4. /\ relations[s[1]] \in Links /\ aiRelations[s[1]] \in Links
      /\ relations[s[1]][s[1]] = "none" /\ aiRelations[s[1]][s[1]] = "none"
  BY <1>3 DEF TypeInv, StoreTyped, NoSelf
<1>5. PICK rels \in Links : rels = [relations[s[1]] EXCEPT ![s[2]] = "none"]
  BY <1>3, <1>4 DEF Links
<1>6. PICK ais \in Links : ais = [aiRelations[s[1]] EXCEPT ![s[2]] = "none"]
  BY <1>3, <1>4 DEF Links
<1>7. rels[s[1]] = "none" /\ rels[s[2]] = "none" /\ ais[s[1]] = "none" /\ ais[s[2]] = "none"
  BY <1>3, <1>4, <1>5, <1>6 DEF Links
<1>8. PICK pc \in {"relations", "sides"}, side \in {s, NoSide} :
         /\ pc = IF There(s) THEN "relations" ELSE "sides"
         /\ side = IF There(s) THEN s ELSE NoSide
  OBVIOUS
<1>9. \/ pc = "relations" /\ side = s
      \/ /\ pc = "sides" /\ side = NoSide
         /\ relations[s[1]][s[2]] = "none" /\ aiRelations[s[1]][s[2]] = "none"
  BY <1>8
<1>10. act' = [act EXCEPT ![a].drop = @ \ {s}, ![a].pc = pc, ![a].side = side,
                         ![a].rels = rels, ![a].ais = ais]
  BY <1>s, <1>5, <1>6, <1>8
<1> HIDE DEF There
<1>11. /\ pc \in Places \cup Resting \cup {"claimed", "calling", "existing", "failing"}
       /\ side \in Sides \cup {NoSide} /\ y.drop \ {s} \in SUBSET Sides
  BY <1>2 DEF Places, AtASide
<1>x. PICK x \in ActType :
         x = [y EXCEPT !.drop = @ \ {s}, !.pc = pc, !.side = side, !.rels = rels, !.ais = ais]
  BY <1>11 DEF ActType
<1>12. /\ x.pc = pc /\ x.side = side /\ x.drop = y.drop \ {s} /\ x.rels = rels /\ x.ais = ais
       /\ x.op = y.op /\ x.entry = y.entry /\ x.want = y.want /\ x.link = y.link
       /\ x.unset = y.unset /\ x.rows = y.rows
  BY <1>x DEF ActType
<1>13. act' = [act EXCEPT ![a] = x]
  BY <1>x, <1>y, <1>10 DEF TypeInv
<1>14. SidesFit(y) /\ PlaceFits(y)
  BY <1>1 DEF ActorFits
<1>15. \A t : LinkOf(x, t) = LinkOf(y, t) /\ FlagOf(x, t) = FlagOf(y, t)
  BY <1>12 DEF LinkOf, FlagOf, Peer
<1>16. LinkOf(x, s) = "none" /\ FlagOf(x, s) = "none"
  BY <1>14, <1>15 DEF SidesFit, FlagOf
<1>17. PlaceFits(x)
  BY <1>1, <1>3, <1>9, <1>12, <1>14 DEF PlaceFits, Places, AtASide, Resting
<1>18. /\ y.op # "analyze" => OwnFirst(x, x.drop) /\ OwnFirst(x, x.link)
       /\ OwnFirst(x, x.unset) /\ OwnFirst(x, x.rows)
       /\ y.op # "analyze" /\ s[1] = x.entry => Turned(s) \in x.drop
  <2>1. /\ y.op # "analyze" => OwnFirst(y, y.drop)
        /\ y.op # "analyze" => OwnFirst(y, y.link)
        /\ OwnFirst(y, y.unset) /\ OwnFirst(y, y.rows)
    BY <1>14 DEF SidesFit
  <2>2. y.op # "analyze" => OwnFirst(y, y.drop \ {s}) /\ (s[1] = y.entry => Turned(s) \in y.drop \ {s})
    BY <2>1, <1>2, <1>s, OwnFirstLess
  <2> QED
    BY <2>1, <2>2, <1>12 DEF OwnFirst
<1>19. SidesFit(x)
  BY <1>1, <1>9, <1>12, <1>14, <1>15, <1>18 DEF SidesFit
<1>20. CopyFits(x)
  <2>1. x.entry \in {s[1], s[2]} /\ (x.op = "analyze" => s[2] = x.entry)
    BY <1>14, <1>12 DEF SidesFit
  <2> QED
    BY <2>1, <1>3, <1>7, <1>9, <1>12, <1>16, <1>18 DEF CopyFits, AtASide
<1>21. /\ a \in Workers => WorkerFits(x)
       /\ a \in Requests => RequestFits(x)
  BY <1>1, <1>9, <1>12 DEF ActorFits, WorkerFits, RequestFits, Places, AtASide
<1>22. Turns(a, x)
  BY <1>13, <1>17, <1>19, <1>20, <1>21 DEF Turns, ActorFits
<1>23. GoesOn(y, x)
  BY <1>1, <1>9, <1>12, <1>14 DEF GoesOn, PlaceFits, Places, AtASide
<1>24. \/ HasRead(x, s, relations[s[1]], aiRelations[s[1]])
       \/ /\ x.pc = "sides" /\ x.side = NoSide
          /\ relations[s[1]][s[2]] = "none" /\ aiRelations[s[1]][s[2]] = "none"
  BY <1>5, <1>6, <1>9, <1>12, <1>16 DEF HasRead
<1> QED
  BY <1>y, <1>1, <1>12, <1>22, <1>23, <1>24

LEMMA TurnReadLinked ==
    ASSUME TypeInv, NEW a \in Actors, ReadLinked(a)
    PROVE  \E s \in act[a].link, x \in ActType :
              /\ Turns(a, x) /\ GoesOn(act[a], x) /\ act[a].pc = "sides"
              /\ act[a].drop = {} /\ x.drop = {} /\ x.link = act[a].link \ {s}
              /\ x.unset = act[a].unset /\ x.rows = act[a].rows
              /\ HasRead(x, s, relations[s[1]], aiRelations[s[1]])
<1>0. act[a] \in ActType /\ ActorFits(a, act[a])
  BY ActorIs
<1>y. PICK y \in ActType : y = act[a]
  BY <1>0
<1>1. ActorFits(a, y) /\ y.pc = "sides" /\ y.drop = {}
  BY <1>0, <1>y DEF ReadLinked
<1>s. PICK s \in y.link :
       /\ s[1] = y.entry \/ Turned(s) \notin y.link
       /\ act' = [act EXCEPT
                       ![a].link = @ \ {s},
                       ![a].pc = "relations",
                       ![a].side = s,
                       ![a].rels = [relations[s[1]] EXCEPT ![s[2]] = Wanted(a, s)],
                       ![a].ais = [aiRelations[s[1]] EXCEPT ![s[2]] = Flag(a, s)]]
  BY <1>y DEF ReadLinked, Ready, Turned
<1>2. s \in Sides /\ y.link \in SUBSET Sides /\ y.want \in Links /\ y.entry \in Entries \cup {NoEntry}
  BY DEF ActType
<1>3. s[1] \in Entries /\ s[2] \in Entries /\ s[1] # s[2] /\ s # NoSide
  BY <1>2, SideIs
<1>4. /\ relations[s[1]] \in Links /\ aiRelations[s[1]] \in Links
      /\ relations[s[1]][s[1]] = "none" /\ aiRelations[s[1]][s[1]] = "none"
  BY <1>3 DEF TypeInv, StoreTyped, NoSelf
<1>l. PICK t \in Types \cup {"none"}, f \in Types \cup {"none"} :
        /\ t = LinkOf(y, s) /\ f = FlagOf(y, s) /\ t = Wanted(a, s) /\ f = Flag(a, s)
  <2>1. LinkOf(y, s) \in Types \cup {"none"}
    BY <1>2, <1>3 DEF LinkOf, Peer, Links
  <2>2. Wanted(a, s) = LinkOf(y, s)
    BY <1>y DEF Wanted, LinkOf, Peer
  <2>3. Flag(a, s) = FlagOf(y, s)
    BY <1>y, <2>2 DEF Flag, FlagOf
  <2> QED
    BY <2>1, <2>2, <2>3 DEF FlagOf
<1>5. PICK rels \in Links : rels = [relations[s[1]] EXCEPT ![s[2]] = t]
  BY <1>3, <1>4 DEF Links
<1>6. PICK ais \in Links : ais = [aiRelations[s[1]] EXCEPT ![s[2]] = f]
  BY <1>3, <1>4 DEF Links
<1>7. rels[s[1]] = "none" /\ rels[s[2]] = t /\ ais[s[1]] = "none" /\ ais[s[2]] = f
  BY <1>3, <1>4, <1>5, <1>6 DEF Links
<1>10. act' = [act EXCEPT ![a].link = @ \ {s}, ![a].pc = "relations", ![a].side = s,
                         ![a].rels = rels, ![a].ais = ais]
  BY <1>s, <1>5, <1>6, <1>l
<1>11. /\ "relations" \in Places \cup Resting \cup {"claimed", "calling", "existing", "failing"}
       /\ s \in Sides \cup {NoSide} /\ y.link \ {s} \in SUBSET Sides
  BY <1>2 DEF Places, AtASide
<1>x. PICK x \in ActType :
         x = [y EXCEPT !.link = @ \ {s}, !.pc = "relations", !.side = s, !.rels = rels, !.ais = ais]
  BY <1>11 DEF ActType
<1>12. /\ x.pc = "relations" /\ x.side = s /\ x.link = y.link \ {s} /\ x.rels = rels /\ x.ais = ais
       /\ x.op = y.op /\ x.entry = y.entry /\ x.want = y.want /\ x.drop = y.drop
       /\ x.unset = y.unset /\ x.rows = y.rows
  BY <1>x DEF ActType
<1>13. act' = [act EXCEPT ![a] = x]
  BY <1>x, <1>y, <1>10 DEF TypeInv
<1>14. SidesFit(y) /\ PlaceFits(y)
  BY <1>1 DEF ActorFits
<1>15. \A u : LinkOf(x, u) = LinkOf(y, u) /\ FlagOf(x, u) = FlagOf(y, u)
  BY <1>12 DEF LinkOf, FlagOf, Peer
<1>16. LinkOf(x, s) = t /\ FlagOf(x, s) = f
  BY <1>l, <1>15
<1>17. PlaceFits(x)
  BY <1>1, <1>3, <1>12, <1>14 DEF PlaceFits, Places, AtASide, Resting
<1>18. /\ y.op # "analyze" => OwnFirst(x, x.drop) /\ OwnFirst(x, x.link)
       /\ OwnFirst(x, x.unset) /\ OwnFirst(x, x.rows)
       /\ y.op # "analyze" /\ s[1] = x.entry => Turned(s) \in x.link
  <2>1. /\ y.op # "analyze" => OwnFirst(y, y.drop)
        /\ y.op # "analyze" => OwnFirst(y, y.link)
        /\ OwnFirst(y, y.unset) /\ OwnFirst(y, y.rows)
    BY <1>14 DEF SidesFit
  <2>2. y.op # "analyze" => OwnFirst(y, y.link \ {s}) /\ (s[1] = y.entry => Turned(s) \in y.link \ {s})
    BY <2>1, <1>2, <1>s, OwnFirstLess
  <2> QED
    BY <2>1, <2>2, <1>12 DEF OwnFirst
<1>19. SidesFit(x)
  BY <1>1, <1>12, <1>14, <1>15, <1>18 DEF SidesFit
<1>20. CopyFits(x)
  <2>1. x.entry \in {s[1], s[2]} /\ (x.op = "analyze" => s[2] = x.entry)
    BY <1>14, <1>12 DEF SidesFit
  <2> QED
    BY <2>1, <1>3, <1>7, <1>12, <1>16, <1>18 DEF CopyFits, AtASide
<1>21. /\ a \in Workers => WorkerFits(x)
       /\ a \in Requests => RequestFits(x)
  BY <1>1, <1>12 DEF ActorFits, WorkerFits, RequestFits, Places, AtASide
<1>22. Turns(a, x)
  BY <1>13, <1>17, <1>19, <1>20, <1>21 DEF Turns, ActorFits
<1>23. GoesOn(y, x)
  BY <1>1, <1>12, <1>14 DEF GoesOn, PlaceFits, Places, AtASide
<1>24. HasRead(x, s, relations[s[1]], aiRelations[s[1]])
  BY <1>5, <1>6, <1>12, <1>16 DEF HasRead
<1> QED
  BY <1>y, <1>1, <1>12, <1>22, <1>23, <1>24

\* The writes to a side.
LEMMA TurnWriteRelations ==
    ASSUME TypeInv, NEW a \in Actors, WriteRelations(a)
    PROVE  \E x \in ActType :
              /\ Turns(a, x) /\ GoesOn(act[a], x)
              /\ act[a].pc = "relations" /\ x.pc = "airelations"
              /\ x.side = act[a].side /\ x.ais = act[a].ais
              /\ x.unset = act[a].unset /\ x.rows = act[a].rows
<1>0. act[a] \in ActType /\ ActorFits(a, act[a])
  BY ActorIs
<1>y. PICK y \in ActType : y = act[a]
  BY <1>0
<1>1. ActorFits(a, y) /\ y.pc = "relations"
  BY <1>0, <1>y DEF WriteRelations
<1>2. /\ NoLinks \in Links
      /\ "airelations" \in Places \cup Resting \cup {"claimed", "calling", "existing", "failing"}
  BY DEF NoLinks, Links, Places, AtASide
<1>x. PICK x \in ActType : x = [y EXCEPT !.pc = "airelations", !.rels = NoLinks]
  BY <1>2 DEF ActType
<1>3. /\ x.pc = "airelations" /\ x.side = y.side /\ x.drop = y.drop /\ x.link = y.link
      /\ x.op = y.op /\ x.entry = y.entry /\ x.want = y.want /\ x.ais = y.ais
      /\ x.unset = y.unset /\ x.rows = y.rows
  BY <1>x DEF ActType
<1>4. act' = [act EXCEPT ![a] = x]
  BY <1>x, <1>y DEF TypeInv, WriteRelations
<1>5. SidesFit(y) /\ PlaceFits(y) /\ CopyFits(y)
  BY <1>1 DEF ActorFits
<1>6. \A u : LinkOf(x, u) = LinkOf(y, u) /\ FlagOf(x, u) = FlagOf(y, u)
  BY <1>3 DEF LinkOf, FlagOf, Peer
<1>7. PlaceFits(x)
  BY <1>1, <1>3, <1>5 DEF PlaceFits, Places, AtASide, Resting
<1>8. SidesFit(x)
  BY <1>1, <1>3, <1>5, <1>6 DEF SidesFit, OwnFirst
<1>9. CopyFits(x)
  BY <1>1, <1>3, <1>5, <1>6 DEF CopyFits, AtASide
<1>10. /\ a \in Workers => WorkerFits(x)
       /\ a \in Requests => RequestFits(x)
  BY <1>1, <1>3 DEF ActorFits, WorkerFits, RequestFits, Places, AtASide
<1>11. Turns(a, x)
  BY <1>4, <1>7, <1>8, <1>9, <1>10 DEF Turns, ActorFits
<1>12. GoesOn(y, x)
  BY <1>1, <1>3 DEF GoesOn, Places, AtASide
<1> QED
  BY <1>y, <1>1, <1>3, <1>11, <1>12

LEMMA TurnWriteAIRelations ==
    ASSUME TypeInv, NEW a \in Actors, WriteAIRelations(a)
    PROVE  \E x \in ActType :
              /\ Turns(a, x) /\ GoesOn(act[a], x) /\ act[a].pc = "airelations"
              /\ \/ x.pc = "reason" /\ x.side = act[a].side
                    /\ FlagOf(act[a], act[a].side) = "none"
                 \/ x.pc = "sides" /\ x.side = NoSide
                    /\ FlagOf(act[a], act[a].side) # "none"
              /\ x.unset = act[a].unset /\ x.rows = act[a].rows
<1>0. act[a] \in ActType /\ ActorFits(a, act[a])
  BY ActorIs
<1>y. PICK y \in ActType : y = act[a]
  BY <1>0
<1>1. ActorFits(a, y) /\ y.pc = "airelations"
  BY <1>0, <1>y DEF WriteAIRelations
<1>2. NoLinks \in Links
  BY DEF NoLinks, Links
<1>5. SidesFit(y) /\ PlaceFits(y) /\ CopyFits(y)
  BY <1>1 DEF ActorFits
<1>p. PICK pc \in {"reason", "sides"}, side \in Sides \cup {NoSide} :
        /\ pc = IF y.ais[y.side[2]] = "none" THEN "reason" ELSE "sides"
        /\ side = IF y.ais[y.side[2]] = "none" THEN y.side ELSE NoSide
  BY DEF ActType
<1>f. \/ pc = "reason" /\ side = y.side /\ FlagOf(y, y.side) = "none"
      \/ pc = "sides" /\ side = NoSide /\ FlagOf(y, y.side) # "none"
  BY <1>1, <1>5, <1>p DEF CopyFits, AtASide
<1>q. pc \in Places \cup Resting \cup {"claimed", "calling", "existing", "failing"}
  BY DEF Places, AtASide
<1>x. PICK x \in ActType : x = [y EXCEPT !.pc = pc, !.side = side, !.ais = NoLinks]
  BY <1>2, <1>q DEF ActType
<1>3. /\ x.pc = pc /\ x.side = side /\ x.drop = y.drop /\ x.link = y.link
      /\ x.op = y.op /\ x.entry = y.entry /\ x.want = y.want
      /\ x.unset = y.unset /\ x.rows = y.rows
  BY <1>x DEF ActType
<1>4. act' = [act EXCEPT ![a] = x]
  <2>1. act' = [act EXCEPT ![a].pc = pc, ![a].side = side, ![a].ais = NoLinks]
    BY <1>y, <1>p DEF TypeInv, WriteAIRelations
  <2> QED
    BY <2>1, <1>x, <1>y DEF TypeInv
<1>6. \A u : LinkOf(x, u) = LinkOf(y, u) /\ FlagOf(x, u) = FlagOf(y, u)
  BY <1>3 DEF LinkOf, FlagOf, Peer
<1>s. y.side # NoSide
  BY <1>1, <1>5 DEF PlaceFits, AtASide
<1>7. PlaceFits(x)
  BY <1>1, <1>3, <1>5, <1>f, <1>s DEF PlaceFits, Places, AtASide, Resting
<1>8. SidesFit(x)
  BY <1>1, <1>3, <1>5, <1>6, <1>f DEF SidesFit, OwnFirst
<1>9. CopyFits(x)
  BY <1>1, <1>3, <1>5, <1>6, <1>f DEF CopyFits, AtASide
<1>10. /\ a \in Workers => WorkerFits(x)
       /\ a \in Requests => RequestFits(x)
  BY <1>1, <1>3, <1>f DEF ActorFits, WorkerFits, RequestFits, Places, AtASide
<1>11. Turns(a, x)
  BY <1>4, <1>7, <1>8, <1>9, <1>10 DEF Turns, ActorFits
<1>12. GoesOn(y, x)
  BY <1>1, <1>3, <1>f DEF GoesOn, Places, AtASide
<1> QED
  BY <1>y, <1>1, <1>3, <1>f, <1>11, <1>12

\* Unset or not, the reason is behind the writer.
LEMMA TurnReason ==
    ASSUME TypeInv, NEW a \in Actors, UnsetReason(a) \/ SkipUnset(a)
    PROVE  \E x \in ActType :
              /\ Turns(a, x) /\ GoesOn(act[a], x) /\ act[a].pc = "reason"
              /\ x.pc = "sides" /\ x.side = NoSide
              /\ x.unset = act[a].unset /\ x.rows = act[a].rows
<1>0. act[a] \in ActType /\ ActorFits(a, act[a])
  BY ActorIs
<1>y. PICK y \in ActType : y = act[a]
  BY <1>0
<1>1. ActorFits(a, y) /\ y.pc = "reason"
  BY <1>0, <1>y DEF UnsetReason, SkipUnset
<1>2. /\ NoSide \in Sides \cup {NoSide}
      /\ "sides" \in Places \cup Resting \cup {"claimed", "calling", "existing", "failing"}
  BY DEF Places, AtASide
<1>x. PICK x \in ActType : x = [y EXCEPT !.pc = "sides", !.side = NoSide]
  BY <1>2 DEF ActType
<1>3. /\ x.pc = "sides" /\ x.side = NoSide /\ x.drop = y.drop /\ x.link = y.link
      /\ x.op = y.op /\ x.entry = y.entry /\ x.want = y.want
      /\ x.unset = y.unset /\ x.rows = y.rows
  BY <1>x DEF ActType
<1>4. act' = [act EXCEPT ![a] = x]
  BY <1>x, <1>y DEF TypeInv, UnsetReason, SkipUnset
<1>5. SidesFit(y) /\ PlaceFits(y)
  BY <1>1 DEF ActorFits
<1>6. \A u : LinkOf(x, u) = LinkOf(y, u) /\ FlagOf(x, u) = FlagOf(y, u)
  BY <1>3 DEF LinkOf, FlagOf, Peer
<1>7. PlaceFits(x)
  BY <1>1, <1>3, <1>5 DEF PlaceFits, Places, AtASide, Resting
<1>8. SidesFit(x)
  BY <1>1, <1>3, <1>5, <1>6 DEF SidesFit, OwnFirst
<1>9. CopyFits(x)
  BY <1>3 DEF CopyFits, AtASide
<1>10. /\ a \in Workers => WorkerFits(x)
       /\ a \in Requests => RequestFits(x)
  BY <1>1, <1>3 DEF ActorFits, WorkerFits, RequestFits, Places, AtASide
<1>11. Turns(a, x)
  BY <1>4, <1>7, <1>8, <1>9, <1>10 DEF Turns, ActorFits
<1>12. GoesOn(y, x)
  BY <1>1, <1>3 DEF GoesOn, Places, AtASide
<1> QED
  BY <1>y, <1>1, <1>3, <1>11, <1>12

LEMMA TurnRow ==
    ASSUME TypeInv, NEW a \in Actors, Record(a) \/ SkipRow(a)
    PROVE  \E s \in act[a].rows, x \in ActType :
              /\ Turns(a, x) /\ GoesOn(act[a], x)
              /\ act[a].pc = "record" /\ x.pc = "record"
              /\ x.side = NoSide
              /\ x.unset = {} /\ x.rows = act[a].rows \ {s}
              /\ \/ SkipRow(a)
                 \/ timeline' = [timeline EXCEPT ![s[1]][s[2]] = LinkOf(x, s)]
<1>0. act[a] \in ActType /\ ActorFits(a, act[a])
  BY ActorIs
<1>y. PICK y \in ActType : y = act[a]
  BY <1>0
<1>1. ActorFits(a, y) /\ y.pc = "record"
  BY <1>0, <1>y DEF Record, SkipRow
<1>s. PICK s \in y.rows :
        /\ s[1] = y.entry \/ Turned(s) \notin y.rows
        /\ act' = [act EXCEPT ![a].rows = @ \ {s}]
        /\ SkipRow(a) \/ timeline' = [timeline EXCEPT ![s[1]][s[2]] = Wanted(a, s)]
  BY <1>y DEF Record, SkipRow, Ready, Turned
<1>2. s \in Sides /\ y.rows \in SUBSET Sides /\ y.rows \ {s} \in SUBSET Sides
  BY DEF ActType
<1>x. PICK x \in ActType : x = [y EXCEPT !.rows = @ \ {s}]
  BY <1>2 DEF ActType
<1>3. /\ x.pc = y.pc /\ x.side = y.side /\ x.drop = y.drop /\ x.link = y.link
      /\ x.op = y.op /\ x.entry = y.entry /\ x.want = y.want
      /\ x.unset = y.unset /\ x.rows = y.rows \ {s}
  BY <1>x DEF ActType
<1>4. act' = [act EXCEPT ![a] = x]
  BY <1>x, <1>y, <1>s DEF TypeInv
<1>5. SidesFit(y) /\ PlaceFits(y)
  BY <1>1 DEF ActorFits
<1>6. \A u : LinkOf(x, u) = LinkOf(y, u) /\ FlagOf(x, u) = FlagOf(y, u)
  BY <1>3 DEF LinkOf, FlagOf, Peer
<1>w. Wanted(a, s) = LinkOf(x, s)
  BY <1>y, <1>3 DEF Wanted, LinkOf, Peer
<1>7. PlaceFits(x)
  BY <1>1, <1>3, <1>5 DEF PlaceFits, Places, AtASide, Resting
<1>o. OwnFirst(x, x.rows)
  <2>1. OwnFirst(y, y.rows)
    BY <1>5 DEF SidesFit
  <2>2. OwnFirst(y, y.rows \ {s})
    BY <2>1, <1>2, <1>s, OwnFirstLess
  <2> QED
    BY <2>2, <1>3 DEF OwnFirst
<1>8. SidesFit(x)
  BY <1>1, <1>3, <1>5, <1>6, <1>o DEF SidesFit, OwnFirst
<1>9. CopyFits(x)
  BY <1>1, <1>3 DEF CopyFits, AtASide
<1>10. /\ a \in Workers => WorkerFits(x)
       /\ a \in Requests => RequestFits(x)
  BY <1>1, <1>3 DEF ActorFits, WorkerFits, RequestFits, Places, AtASide
<1>11. Turns(a, x)
  BY <1>4, <1>7, <1>8, <1>9, <1>10 DEF Turns, ActorFits
<1>12. GoesOn(y, x)
  BY <1>1, <1>3 DEF GoesOn, Places, AtASide
<1>13. x.side = NoSide /\ x.unset = {}
  BY <1>1, <1>3, <1>5 DEF PlaceFits, AtASide
<1>14. SkipRow(a) \/ timeline' = [timeline EXCEPT ![s[1]][s[2]] = LinkOf(x, s)]
  BY <1>s, <1>w
<1>15. GoesOn(act[a], x) /\ act[a].pc = "record" /\ x.pc = "record" /\ s \in act[a].rows
  BY <1>y, <1>1, <1>3, <1>12
<1>16. x.rows = act[a].rows \ {s}
  BY <1>y, <1>3
<1> QED
  BY <1>11, <1>13, <1>14, <1>15, <1>16

\* A request turns to the timeline.
LEMMA TurnToRows ==
    ASSUME TypeInv, NEW r \in Requests, Disable(r) \/ Unlinked(r)
    PROVE  \E x \in ActType :
              /\ Turns(r, x) /\ GoesOn(act[r], x)
              /\ act[r].pc = "sides" /\ x.pc = "record" /\ x.side = NoSide
              /\ act[r].drop = {} /\ act[r].link = {} /\ act[r].unset = {}
              /\ x.unset = {} /\ x.rows = act[r].rows
<1>a. r \in Actors
  BY DEF Actors
<1>0. act[r] \in ActType /\ ActorFits(r, act[r])
  BY <1>a, ActorIs
<1>y. PICK y \in ActType : y = act[r]
  BY <1>0
<1>1. ActorFits(r, y) /\ y.pc = "sides" /\ y.op \in {"add", "remove"}
  BY <1>0, <1>y DEF Disable, Unlinked
<1>5. SidesFit(y) /\ PlaceFits(y) /\ RequestFits(y)
  BY <1>1 DEF ActorFits
<1>2. y.drop = {} /\ y.link = {} /\ y.unset = {}
  BY <1>y, <1>1, <1>5 DEF Disable, Unlinked, RequestFits
<1>x. PICK x \in ActType : x = [y EXCEPT !.pc = "record"]
  <2>1. "record" \in Places \cup Resting \cup {"claimed", "calling", "existing", "failing"}
    BY DEF Places
  <2> QED
    BY <2>1 DEF ActType
<1>3. /\ x.pc = "record" /\ x.side = y.side /\ x.drop = y.drop /\ x.link = y.link
      /\ x.op = y.op /\ x.entry = y.entry /\ x.want = y.want
      /\ x.unset = y.unset /\ x.rows = y.rows
  BY <1>x DEF ActType
<1>4. act' = [act EXCEPT ![r] = x]
  BY <1>x, <1>y, <1>a DEF TypeInv, Disable, Unlinked
<1>6. \A u : LinkOf(x, u) = LinkOf(y, u) /\ FlagOf(x, u) = FlagOf(y, u)
  BY <1>3 DEF LinkOf, FlagOf, Peer
<1>7. PlaceFits(x)
  BY <1>1, <1>2, <1>3, <1>5 DEF PlaceFits, Places, AtASide, Resting
<1>8. SidesFit(x)
  BY <1>1, <1>3, <1>5, <1>6 DEF SidesFit, OwnFirst
<1>9. CopyFits(x)
  BY <1>1, <1>2, <1>3, <1>5, <1>6 DEF CopyFits, AtASide
<1>10. /\ r \in Workers => WorkerFits(x)
       /\ RequestFits(x)
  BY <1>1, <1>3, ConstantsAssumption
     DEF ActorFits, WorkerFits, RequestFits, Places, AtASide, ConstantsAssumption
<1>11. Turns(r, x)
  BY <1>4, <1>7, <1>8, <1>9, <1>10 DEF Turns, ActorFits
<1>12. GoesOn(y, x)
  BY <1>1, <1>3 DEF GoesOn, Places, AtASide
<1>13. x.side = NoSide
  BY <1>1, <1>3, <1>5 DEF PlaceFits, AtASide
<1> QED
  BY <1>y, <1>1, <1>2, <1>3, <1>11, <1>12, <1>13

LEMMA TurnUnsetAgain ==
    ASSUME TypeInv, NEW r \in Requests, UnsetAgain(r)
    PROVE  \E s \in act[r].unset, x \in ActType :
              /\ Turns(r, x) /\ GoesOn(act[r], x)
              /\ act[r].pc = "sides" /\ x.pc = "sides" /\ x.side = NoSide
              /\ act[r].drop = {} /\ x.drop = {} /\ x.link = act[r].link
              /\ x.unset = act[r].unset \ {s} /\ x.rows = act[r].rows
              /\ reasons' = [reasons EXCEPT ![s[1]] = @ \ {s[2]}]
<1>a. r \in Actors
  BY DEF Actors
<1>0. act[r] \in ActType /\ ActorFits(r, act[r])
  BY <1>a, ActorIs
<1>y. PICK y \in ActType : y = act[r]
  BY <1>0
<1>1. ActorFits(r, y) /\ y.pc = "sides" /\ y.drop = {}
  BY <1>0, <1>y DEF UnsetAgain
<1>s. PICK s \in y.unset :
        /\ s[1] = y.entry \/ Turned(s) \notin y.unset
        /\ reasons' = [reasons EXCEPT ![s[1]] = @ \ {s[2]}]
        /\ act' = [act EXCEPT ![r].unset = @ \ {s}]
  BY <1>y DEF UnsetAgain, Ready, Turned
<1>2. s \in Sides /\ y.unset \in SUBSET Sides /\ y.unset \ {s} \in SUBSET Sides
  BY DEF ActType
<1>x. PICK x \in ActType : x = [y EXCEPT !.unset = @ \ {s}]
  BY <1>2 DEF ActType
<1>3. /\ x.pc = y.pc /\ x.side = y.side /\ x.drop = y.drop /\ x.link = y.link
      /\ x.op = y.op /\ x.entry = y.entry /\ x.want = y.want
      /\ x.unset = y.unset \ {s} /\ x.rows = y.rows
  BY <1>x DEF ActType
<1>4. act' = [act EXCEPT ![r] = x]
  BY <1>x, <1>y, <1>s, <1>a DEF TypeInv
<1>5. SidesFit(y) /\ PlaceFits(y) /\ RequestFits(y)
  BY <1>1 DEF ActorFits
<1>6. \A u : LinkOf(x, u) = LinkOf(y, u) /\ FlagOf(x, u) = FlagOf(y, u)
  BY <1>3 DEF LinkOf, FlagOf, Peer
<1>7. PlaceFits(x)
  BY <1>1, <1>3, <1>5 DEF PlaceFits, Places, AtASide, Resting
<1>o. OwnFirst(x, x.unset)
  <2>1. OwnFirst(y, y.unset)
    BY <1>5 DEF SidesFit
  <2>2. OwnFirst(y, y.unset \ {s})
    BY <2>1, <1>2, <1>s, OwnFirstLess
  <2> QED
    BY <2>2, <1>3 DEF OwnFirst
<1>8. SidesFit(x)
  <2>1. y.op # "analyze"
    BY <1>5 DEF RequestFits
  <2> QED
    BY <2>1, <1>1, <1>3, <1>5, <1>6, <1>o DEF SidesFit, OwnFirst
<1>9. CopyFits(x)
  BY <1>1, <1>3 DEF CopyFits, AtASide
<1>10. /\ r \in Workers => WorkerFits(x)
       /\ RequestFits(x)
  BY <1>1, <1>3, ConstantsAssumption
     DEF ActorFits, WorkerFits, RequestFits, Places, AtASide, ConstantsAssumption
<1>11. Turns(r, x)
  BY <1>4, <1>7, <1>8, <1>9, <1>10 DEF Turns, ActorFits
<1>12. GoesOn(y, x)
  BY <1>1, <1>3 DEF GoesOn, Places, AtASide
<1>13. x.side = NoSide
  BY <1>1, <1>3, <1>5 DEF PlaceFits, AtASide
<1>15. GoesOn(act[r], x) /\ act[r].pc = "sides" /\ x.pc = "sides" /\ s \in act[r].unset
  BY <1>y, <1>1, <1>3, <1>12
<1>16. /\ x.unset = act[r].unset \ {s} /\ x.rows = act[r].rows /\ x.link = act[r].link
       /\ act[r].drop = {} /\ x.drop = {}
  BY <1>y, <1>1, <1>3
<1> QED
  BY <1>s, <1>11, <1>13, <1>15, <1>16

\* The two writes of an analyzer to its own entry.
LEMMA TurnSetRelations ==
    ASSUME TypeInv, NEW w \in Workers, SetRelations(w)
    PROVE  \E x \in ActType :
              /\ Turns(w, x) /\ GoesOn(act[w], x)
              /\ act[w].pc = "sides" /\ x.pc = "ais" /\ x.side = NoSide
              /\ act[w].drop = {} /\ act[w].link = {}
              /\ x.unset = act[w].unset /\ x.rows = act[w].rows
<1>a. w \in Actors
  BY DEF Actors
<1>0. act[w] \in ActType /\ ActorFits(w, act[w])
  BY <1>a, ActorIs
<1>y. PICK y \in ActType : y = act[w]
  BY <1>0
<1>1. ActorFits(w, y) /\ y.pc = "sides" /\ y.op = "analyze" /\ y.drop = {} /\ y.link = {}
  BY <1>0, <1>y DEF SetRelations
<1>5. SidesFit(y) /\ PlaceFits(y) /\ WorkerFits(y)
  BY <1>1 DEF ActorFits
<1>x. PICK x \in ActType : x = [y EXCEPT !.pc = "ais"]
  <2>1. "ais" \in Places \cup Resting \cup {"claimed", "calling", "existing", "failing"}
    BY DEF Places
  <2> QED
    BY <2>1 DEF ActType
<1>3. /\ x.pc = "ais" /\ x.side = y.side /\ x.drop = y.drop /\ x.link = y.link
      /\ x.op = y.op /\ x.entry = y.entry /\ x.want = y.want
      /\ x.unset = y.unset /\ x.rows = y.rows
  BY <1>x DEF ActType
<1>4. act' = [act EXCEPT ![w] = x]
  BY <1>x, <1>y, <1>a DEF TypeInv, SetRelations
<1>6. \A u : LinkOf(x, u) = LinkOf(y, u) /\ FlagOf(x, u) = FlagOf(y, u)
  BY <1>3 DEF LinkOf, FlagOf, Peer
<1>7. PlaceFits(x)
  BY <1>1, <1>3, <1>5 DEF PlaceFits, Places, AtASide, Resting, SidesFit
<1>8. SidesFit(x)
  BY <1>1, <1>3, <1>5, <1>6 DEF SidesFit, OwnFirst
<1>9. CopyFits(x)
  BY <1>3 DEF CopyFits, AtASide
<1>10. /\ WorkerFits(x)
       /\ w \in Requests => RequestFits(x)
  BY <1>1, <1>3, ConstantsAssumption
     DEF ActorFits, WorkerFits, RequestFits, Places, AtASide, ConstantsAssumption
<1>11. Turns(w, x)
  BY <1>4, <1>7, <1>8, <1>9, <1>10 DEF Turns, ActorFits
<1>12. GoesOn(y, x)
  BY <1>1, <1>3 DEF GoesOn, Places, AtASide
<1>13. x.side = NoSide
  BY <1>1, <1>3, <1>5 DEF PlaceFits, AtASide
<1> QED
  BY <1>y, <1>1, <1>3, <1>11, <1>12, <1>13

\* The rows of all the links of x, on both sides.
AllRows(x) == {<<x.entry, p>> : p \in Peers(x.want)} \cup {<<p, x.entry>> : p \in Peers(x.want)}

LEMMA TurnSetAIRelations ==
    ASSUME TypeInv, NEW w \in Workers, SetAIRelations(w)
    PROVE  \E x \in ActType :
              /\ Turns(w, x) /\ GoesOn(act[w], x)
              /\ act[w].pc = "ais" /\ x.pc = "record" /\ x.side = NoSide
              /\ x.unset = {} /\ x.rows = AllRows(act[w])
<1>a. w \in Actors
  BY DEF Actors
<1>0. act[w] \in ActType /\ ActorFits(w, act[w])
  BY <1>a, ActorIs
<1>y. PICK y \in ActType : y = act[w]
  BY <1>0
<1>1. ActorFits(w, y) /\ y.pc = "ais"
  BY <1>0, <1>y DEF SetAIRelations
<1>5. SidesFit(y) /\ PlaceFits(y) /\ WorkerFits(y)
  BY <1>1 DEF ActorFits
<1>e. y.entry \in Entries /\ y.want \in Links /\ y.want[y.entry] = "none"
  BY <1>1, <1>5 DEF ActType, PlaceFits, Places, Resting
<1>p. \A p \in Peers(y.want) : p \in Entries /\ p # y.entry
  BY <1>e DEF Peers
<1>r. AllRows(y) \in SUBSET Sides
  BY <1>e, <1>p DEF AllRows, Sides
<1>x. PICK x \in ActType : x = [y EXCEPT !.pc = "record", !.rows = AllRows(y)]
  <2>1. "record" \in Places \cup Resting \cup {"claimed", "calling", "existing", "failing"}
    BY DEF Places
  <2> QED
    BY <2>1, <1>r DEF ActType
<1>3. /\ x.pc = "record" /\ x.side = y.side /\ x.drop = y.drop /\ x.link = y.link
      /\ x.op = y.op /\ x.entry = y.entry /\ x.want = y.want
      /\ x.unset = y.unset /\ x.rows = AllRows(y)
  BY <1>x DEF ActType
<1>4. act' = [act EXCEPT ![w] = x]
  <2>1. act' = [act EXCEPT ![w].pc = "record", ![w].rows = AllRows(y)]
    BY <1>y DEF SetAIRelations, AllRows
  <2> QED
    BY <2>1, <1>x, <1>y, <1>a DEF TypeInv
<1>6. \A u : LinkOf(x, u) = LinkOf(y, u) /\ FlagOf(x, u) = FlagOf(y, u)
  BY <1>3 DEF LinkOf, FlagOf, Peer
<1>7. PlaceFits(x)
  BY <1>1, <1>3, <1>5 DEF PlaceFits, Places, AtASide, Resting
<1>8. SidesFit(x)
  <2>1. \A s \in AllRows(y) : y.entry \in {s[1], s[2]}
    BY DEF AllRows
  <2>2. OwnFirst(y, AllRows(y))
    BY <1>e, <1>p DEF OwnFirst, AllRows, Turned
  <2>3. OwnFirst(x, x.rows)
    BY <2>2, <1>3 DEF OwnFirst
  <2>4. \A s \in AllRows(y) : LinkOf(y, s) # "none"
    BY <1>p DEF AllRows, LinkOf, Peer, Peers
  <2> QED
    BY <2>1, <2>3, <2>4, <1>1, <1>3, <1>5, <1>6 DEF SidesFit, OwnFirst, WorkerFits, Places
<1>9. CopyFits(x)
  BY <1>3 DEF CopyFits, AtASide
<1>10. /\ WorkerFits(x)
       /\ w \in Requests => RequestFits(x)
  BY <1>1, <1>3, ConstantsAssumption
     DEF ActorFits, WorkerFits, RequestFits, Places, AtASide, ConstantsAssumption
<1>11. Turns(w, x)
  BY <1>4, <1>7, <1>8, <1>9, <1>10 DEF Turns, ActorFits
<1>12. GoesOn(y, x)
  BY <1>1, <1>3 DEF GoesOn, Places, AtASide
<1>13. x.side = NoSide /\ x.unset = {}
  BY <1>1, <1>3, <1>5 DEF PlaceFits, AtASide
<1> QED
  BY <1>y, <1>1, <1>3, <1>11, <1>12, <1>13

Both(e, p) == {<<e, p>>, <<p, e>>}

LEMMA TurnToEdit ==
    ASSUME TypeInv, NEW r \in Requests, ReadToAdd(r) \/ ReadToRemove(r)
    PROVE  \E e \in Entries, p \in Entries, x \in ActType :
              /\ e # p /\ Turns(r, x) /\ act[r].pc = "new"
              /\ x.pc = "sides" /\ x.entry = e /\ x.side = NoSide
              /\ \A q \in Entries : q # p => x.want[q] = "none"
              /\ x.drop \cup x.link = Both(e, p) /\ x.unset \subseteq Both(e, p)
              /\ x.rows = IF relations[e][p] = x.want[p] THEN {} ELSE Both(e, p)
<1>a. r \in Actors
  BY DEF Actors
<1>0. act[r].pc = "new"
  BY DEF ReadToAdd, ReadToRemove
<1>s. PICK e \in Entries, p \in Entries, t \in Types \cup {"none"} :
        /\ e # p
        /\ \/ /\ t # "none"
              /\ act' = [act EXCEPT ![r] =
                           [Ended("sides") EXCEPT
                               !.op = "add", !.entry = e, !.want[p] = t,
                               !.link = Both(e, p),
                               !.rows = IF relations[e][p] = t THEN {} ELSE Both(e, p)]]
           \/ /\ t = "none"
              /\ act' = [act EXCEPT ![r] =
                           [Ended("sides") EXCEPT
                               !.op = "remove", !.entry = e, !.drop = Both(e, p),
                               !.unset = Both(e, p),
                               !.rows = IF relations[e][p] = "none" THEN {} ELSE Both(e, p)]]
  <2>1. "none" \notin Types
    BY DEF Types
  <2>2. CASE ReadToAdd(r)
    BY <2>1, <2>2 DEF ReadToAdd, Both
  <2>3. CASE ReadToRemove(r)
    BY <2>1, <2>3 DEF ReadToRemove, Both
  <2> QED
    BY <2>2, <2>3
<1>b. /\ Both(e, p) \in SUBSET Sides /\ e # NoEntry
      /\ \A s \in Both(e, p) : (s = <<e, p>> \/ s = <<p, e>>) /\ Turned(s) \in Both(e, p)
      /\ <<e, p>>[1] = e /\ <<e, p>>[2] = p /\ <<p, e>>[1] = p /\ <<p, e>>[2] = e
  BY <1>s, ConstantsAssumption DEF Both, Sides, Turned, ConstantsAssumption
<1>n. NoLinks \in Links /\ \A q \in Entries : NoLinks[q] = "none"
  BY DEF Links, NoLinks
<1>v. PICK want \in Links : want = [NoLinks EXCEPT ![p] = t]
  BY <1>n DEF Links
<1>w. /\ want[p] = t /\ \A q \in Entries : q # p => want[q] = "none"
      /\ t = "none" => want = NoLinks
  BY <1>v, <1>n DEF Links
<1>r. PICK rows \in SUBSET Sides :
        /\ rows = IF relations[e][p] = t THEN {} ELSE Both(e, p)
        /\ rows = {} \/ rows = Both(e, p)
  BY <1>b
<1>o. PICK op \in {"add", "remove"}, drop \in SUBSET Sides, link \in SUBSET Sides, unset \in SUBSET Sides :
        \/ t # "none" /\ op = "add" /\ drop = {} /\ link = Both(e, p) /\ unset = {}
        \/ t = "none" /\ op = "remove" /\ drop = Both(e, p) /\ link = {} /\ unset = Both(e, p)
  BY <1>b
<1>0a. PICK z \in ActType : z = Ended("sides")
  <2>1. "sides" \in Places
    BY DEF Places
  <2> QED
    BY <2>1, <1>n DEF Ended, ActType
<1>0b. /\ z.pc = "sides" /\ z.op = "none" /\ z.want = NoLinks /\ z.drop = {} /\ z.link = {}
       /\ z.side = NoSide /\ z.unset = {} /\ z.rows = {}
  BY <1>0a DEF Ended
<1>x. PICK x \in ActType :
        /\ act' = [act EXCEPT ![r] = x]
        /\ x.pc = "sides" /\ x.side = NoSide /\ x.drop = drop /\ x.link = link
        /\ x.op = op /\ x.entry = e /\ x.want = want /\ x.unset = unset /\ x.rows = rows
  <2>1. CASE t # "none"
    <3>1. act' = [act EXCEPT ![r] = [z EXCEPT !.op = "add", !.entry = e, !.want[p] = t,
                                              !.link = Both(e, p), !.rows = rows]]
      BY <1>s, <1>r, <1>0a, <2>1
    <3>2. [z EXCEPT !.op = "add", !.entry = e, !.want[p] = t, !.link = Both(e, p), !.rows = rows]
          = [z EXCEPT !.op = "add", !.entry = e, !.want = want, !.link = link, !.rows = rows]
      BY <1>o, <1>v, <1>0b, <2>1 DEF ActType
    <3>3. PICK x \in ActType : x = [z EXCEPT !.op = "add", !.entry = e, !.want = want,
                                              !.link = link, !.rows = rows]
      <4>1. "add" \in {"none", "analyze", "add", "remove"} /\ e \in Entries \cup {NoEntry}
        OBVIOUS
      <4> QED
        BY <4>1 DEF ActType
    <3>4. /\ x.pc = z.pc /\ x.side = z.side /\ x.drop = z.drop /\ x.link = link
          /\ x.op = "add" /\ x.entry = e /\ x.want = want /\ x.unset = z.unset /\ x.rows = rows
      BY <3>3 DEF ActType
    <3>5. act' = [act EXCEPT ![r] = x]
      BY <3>1, <3>2, <3>3
    <3> QED
      BY <3>4, <3>5, <1>0b, <1>o, <2>1
  <2>2. CASE t = "none"
    <3>1. act' = [act EXCEPT ![r] = [z EXCEPT !.op = "remove", !.entry = e, !.drop = drop,
                                              !.unset = unset, !.rows = rows]]
      BY <1>s, <1>r, <1>o, <1>0a, <2>2
    <3>3. PICK x \in ActType : x = [z EXCEPT !.op = "remove", !.entry = e, !.drop = drop,
                                              !.unset = unset, !.rows = rows]
      <4>1. "remove" \in {"none", "analyze", "add", "remove"} /\ e \in Entries \cup {NoEntry}
        OBVIOUS
      <4> QED
        BY <4>1 DEF ActType
    <3>4. /\ x.pc = z.pc /\ x.side = z.side /\ x.drop = drop /\ x.link = z.link
          /\ x.op = "remove" /\ x.entry = e /\ x.want = z.want /\ x.unset = unset /\ x.rows = rows
      BY <3>3 DEF ActType
    <3>5. act' = [act EXCEPT ![r] = x]
      BY <3>1, <3>3
    <3> QED
      BY <3>4, <3>5, <1>0b, <1>o, <1>w, <2>2
  <2> QED
    BY <2>1, <2>2
<1>7. PlaceFits(x)
  BY <1>s, <1>x, <1>w, <1>b DEF PlaceFits, Places, AtASide, Resting
<1>l. LinkOf(x, <<e, p>>) = t /\ LinkOf(x, <<p, e>>) = t
  BY <1>s, <1>x, <1>w, <1>b DEF LinkOf, Peer
<1>8. SidesFit(x)
  <2>1. \A s \in Both(e, p) : x.entry \in {s[1], s[2]} /\ LinkOf(x, s) = t
    BY <1>b, <1>l, <1>x
  <2>2. OwnFirst(x, Both(e, p)) /\ OwnFirst(x, {})
    BY <1>b DEF OwnFirst
  <2>3. /\ x.op # "analyze"
        /\ x.drop = {} \/ x.drop = Both(e, p)
        /\ x.link = {} \/ x.link = Both(e, p)
        /\ x.unset = {} \/ x.unset = Both(e, p)
        /\ x.rows = {} \/ x.rows = Both(e, p)
        /\ t = "none" => x.link = {}
        /\ t # "none" => x.drop = {}
    BY <1>x, <1>o, <1>r
  <2>4. OwnFirst(x, x.drop) /\ OwnFirst(x, x.link) /\ OwnFirst(x, x.unset) /\ OwnFirst(x, x.rows)
    BY <2>2, <2>3
  <2>5. /\ \A s \in x.drop \cup x.link \cup x.unset \cup x.rows : x.entry \in {s[1], s[2]}
        /\ \A s \in x.link : LinkOf(x, s) # "none"
        /\ \A s \in x.drop : LinkOf(x, s) = "none"
    BY <2>1, <2>3
  <2> QED
    BY <2>3, <2>4, <2>5 DEF SidesFit
<1>9. CopyFits(x)
  BY <1>x DEF CopyFits, AtASide
<1>10. /\ r \in Workers => WorkerFits(x)
       /\ RequestFits(x)
  BY <1>x, <1>o, ConstantsAssumption
     DEF WorkerFits, RequestFits, Places, AtASide, ConstantsAssumption
<1>11. Turns(r, x)
  BY <1>x, <1>7, <1>8, <1>9, <1>10 DEF Turns, ActorFits
<1>12. x.drop \cup x.link = Both(e, p) /\ x.unset \subseteq Both(e, p)
  BY <1>x, <1>o
<1>13. x.rows = IF relations[e][p] = x.want[p] THEN {} ELSE Both(e, p)
  BY <1>x, <1>r, <1>w
<1>14. /\ x.pc = "sides" /\ x.entry = e /\ x.side = NoSide
       /\ \A q \in Entries : q # p => x.want[q] = "none"
  BY <1>x, <1>w
<1> QED
  BY <1>0, <1>s, <1>11, <1>12, <1>13, <1>14

LEMMA TurnReadExisting ==
    ASSUME TypeInv, NEW w \in Workers, ReadExisting(w)
    PROVE  \E x \in ActType :
              /\ Turns(w, x) /\ act[w].pc = "existing" /\ act[w].entry \in Entries
              /\ x.pc = "sides" /\ x.side = NoSide
              /\ x.entry = act[w].entry /\ x.want = act[w].want
              /\ x.drop = {<<p, x.entry>> :
                             p \in Peers(relations[x.entry]) \ Peers(x.want)}
              /\ x.link = {<<p, x.entry>> :
                             p \in {q \in Peers(x.want) : x.want[q] # relations[x.entry][q]}}
              /\ x.unset = {} /\ x.rows = {}
<1>a. w \in Actors
  BY DEF Actors
<1>0. act[w] \in ActType /\ ActorFits(w, act[w])
  BY <1>a, ActorIs
<1>y. PICK y \in ActType : y = act[w]
  BY <1>0
<1>1. ActorFits(w, y) /\ y.pc = "existing"
  BY <1>0, <1>y DEF ReadExisting
<1>5. SidesFit(y) /\ PlaceFits(y) /\ WorkerFits(y)
  BY <1>1 DEF ActorFits
<1>e. /\ y.entry \in Entries /\ y.want \in Links /\ y.want[y.entry] = "none"
      /\ y.op = "analyze" /\ y.unset = {} /\ y.rows = {} /\ y.side = NoSide
  BY <1>1, <1>5 DEF ActType, PlaceFits, WorkerFits, Places, AtASide, Resting
<1> DEFINE e == y.entry
           D == {<<p, e>> : p \in Peers(relations[e]) \ Peers(y.want)}
           K == {<<p, e>> : p \in {q \in Peers(y.want) : y.want[q] # relations[e][q]}}
<1>p. /\ \A p \in Peers(y.want) : p \in Entries /\ p # e /\ y.want[p] # "none"
      /\ \A p \in Peers(relations[e]) \ Peers(y.want) : p \in Entries /\ p # e /\ y.want[p] = "none"
  BY <1>e DEF Peers, TypeInv, NoSelf
<1>d. /\ D \in SUBSET Sides /\ \A s \in D : s[2] = e /\ s[1] # e /\ y.want[s[1]] = "none"
      /\ K \in SUBSET Sides /\ \A s \in K : s[2] = e /\ s[1] # e /\ y.want[s[1]] # "none"
  BY <1>e, <1>p DEF Sides
<1>t. act' = [act EXCEPT ![w].pc = "sides", ![w].drop = D, ![w].link = K]
  <2>1. LET f == act[w].entry  want == act[w].want  old == relations[f] IN
        act' = [act EXCEPT
                  ![w].pc = "sides",
                  ![w].drop = {<<p, f>> : p \in Peers(old) \ Peers(want)},
                  ![w].link = {<<p, f>> : p \in {q \in Peers(want) : want[q] # old[q]}}]
    BY DEF ReadExisting
  <2>2. e = act[w].entry /\ y.want = act[w].want
    BY <1>y
  <2>3. D = {<<p, act[w].entry>> : p \in Peers(relations[act[w].entry]) \ Peers(act[w].want)}
    BY <2>2
  <2>4. K = {<<p, act[w].entry>> : p \in {q \in Peers(act[w].want) :
                                  act[w].want[q] # relations[act[w].entry][q]}}
    BY <2>2
  <2> HIDE DEF D, K
  <2> QED
    BY <2>1, <2>3, <2>4
<1>k. PICK drop \in SUBSET Sides, link \in SUBSET Sides : drop = D /\ link = K
  BY <1>d
<1>x. PICK x \in ActType : x = [y EXCEPT !.pc = "sides", !.drop = drop, !.link = link]
  <2>1. "sides" \in Places \cup Resting \cup {"claimed", "calling", "existing", "failing"}
    BY DEF Places
  <2> QED
    BY <2>1 DEF ActType
<1>3. /\ x.pc = "sides" /\ x.side = y.side /\ x.drop = drop /\ x.link = link
      /\ x.op = y.op /\ x.entry = y.entry /\ x.want = y.want
      /\ x.unset = y.unset /\ x.rows = y.rows
  BY <1>x DEF ActType
<1>4. act' = [act EXCEPT ![w] = x]
  BY <1>t, <1>k, <1>x, <1>y, <1>a DEF TypeInv
<1>f. /\ \A s \in drop : s[2] = e /\ s[1] # e /\ y.want[s[1]] = "none"
      /\ \A s \in link : s[2] = e /\ s[1] # e /\ y.want[s[1]] # "none"
  BY <1>k, <1>d
<1> HIDE DEF D, K
<1>7. PlaceFits(x)
  BY <1>1, <1>3, <1>5, <1>e DEF PlaceFits, Places, AtASide, Resting
<1>8. SidesFit(x)
  <2>1. /\ \A s \in drop : LinkOf(x, s) = "none"
        /\ \A s \in link : LinkOf(x, s) # "none"
    BY <1>f, <1>3 DEF LinkOf, Peer
  <2> QED
    BY <2>1, <1>f, <1>3, <1>e DEF SidesFit, OwnFirst
<1>9. CopyFits(x)
  BY <1>3 DEF CopyFits, AtASide
<1>10. /\ WorkerFits(x)
       /\ w \in Requests => RequestFits(x)
  BY <1>1, <1>3, <1>e, ConstantsAssumption
     DEF ActorFits, WorkerFits, RequestFits, Places, AtASide, ConstantsAssumption
<1>11. Turns(w, x)
  BY <1>4, <1>7, <1>8, <1>9, <1>10 DEF Turns, ActorFits
<1>12. /\ x.drop = {<<p, x.entry>> : p \in Peers(relations[x.entry]) \ Peers(x.want)}
       /\ x.link = {<<p, x.entry>> :
                      p \in {q \in Peers(x.want) : x.want[q] # relations[x.entry][q]}}
  BY <1>k, <1>3 DEF D, K
<1> QED
  BY <1>y, <1>1, <1>3, <1>e, <1>11, <1>12

\* An actor that is through, or gave up, or died.
LEMMA TurnEnded ==
    ASSUME TypeInv, NEW a \in Actors, NEW pc,
           \/ a \in Workers /\ pc = "idle"
           \/ a \in Requests /\ pc = "over",
           act' = [act EXCEPT ![a] = Ended(pc)]
    PROVE  \E x \in ActType : Turns(a, x) /\ x.pc = pc /\ x.pc \notin Places
<1>n. NoLinks \in Links /\ pc \in Resting /\ pc \notin Places \cup AtASide
  BY DEF Links, NoLinks, Resting, Places, AtASide
<1>x. PICK x \in ActType : x = Ended(pc)
  BY <1>n DEF Ended, ActType
<1>1. /\ x.pc = pc /\ x.op = "none" /\ x.entry = NoEntry /\ x.drop = {} /\ x.link = {}
      /\ x.side = NoSide /\ x.unset = {} /\ x.rows = {}
  BY <1>x DEF Ended
<1>2. PlaceFits(x)
  BY <1>1, <1>n DEF PlaceFits, Places, AtASide
<1>3. SidesFit(x) /\ CopyFits(x)
  BY <1>1, <1>n DEF SidesFit, CopyFits, OwnFirst
<1>4. /\ a \in Workers => WorkerFits(x)
      /\ a \in Requests => RequestFits(x)
  BY <1>1, <1>n, ConstantsAssumption
     DEF WorkerFits, RequestFits, Places, AtASide, ConstantsAssumption
<1> QED
  BY <1>x, <1>1, <1>2, <1>3, <1>4, <1>n DEF Turns, ActorFits

\* An analyzer claims an entry, lists the candidates, gets the answer.
LEMMA TurnClaimed ==
    ASSUME TypeInv, NEW w \in Workers,
           ClaimNext(w) \/ (ListCandidates(w) /\ Entries # {act[w].entry}) \/ Answer(w)
    PROVE  \E x \in ActType : /\ Turns(w, x)
                              /\ act[w].pc \notin Places /\ x.pc \notin Places
                              /\ ClaimNext(w) \/ act[w].entry \in Entries
<1>a. w \in Actors
  BY DEF Actors
<1>0. act[w] \in ActType /\ ActorFits(w, act[w])
  BY <1>a, ActorIs
<1>y. PICK y \in ActType : y = act[w]
  BY <1>0
<1>1. ActorFits(w, y)
  BY <1>0, <1>y
<1>5. SidesFit(y) /\ PlaceFits(y) /\ WorkerFits(y) /\ (w \in Requests => RequestFits(y))
  BY <1>1 DEF ActorFits
<1>n. w \notin Requests
  BY ConstantsAssumption DEF ConstantsAssumption
<1>2. CASE ClaimNext(w)
  <2>1. PICK e \in Entries : act' = [act EXCEPT ![w].pc = "claimed", ![w].entry = e]
    BY <1>2 DEF ClaimNext
  <2>2. y.pc = "idle"
    BY <1>2, <1>y DEF ClaimNext
  <2>x. PICK x \in ActType : x = [y EXCEPT !.pc = "claimed", !.entry = e]
    <3>1. "claimed" \in Places \cup Resting \cup {"claimed", "calling", "existing", "failing"}
      OBVIOUS
    <3> QED
      BY <3>1 DEF ActType
  <2>3. /\ x.pc = "claimed" /\ x.entry = e /\ x.op = y.op /\ x.drop = y.drop /\ x.link = y.link
        /\ x.side = y.side /\ x.unset = y.unset /\ x.rows = y.rows
    BY <2>x DEF ActType
  <2>4. act' = [act EXCEPT ![w] = x]
    BY <2>1, <2>x, <1>y, <1>a DEF TypeInv
  <2>e. e # NoEntry
    BY ConstantsAssumption DEF ConstantsAssumption
  <2>5. y.drop = {} /\ y.link = {} /\ y.unset = {} /\ y.rows = {}
    BY <2>2, <1>5 DEF PlaceFits, Places, AtASide
  <2>6. PlaceFits(x)
    BY <2>2, <2>3, <2>e, <1>5 DEF PlaceFits, Places, AtASide, Resting
  <2>7. SidesFit(x) /\ CopyFits(x)
    BY <2>3, <2>5 DEF SidesFit, CopyFits, OwnFirst, AtASide
  <2>8. WorkerFits(x)
    BY <2>2, <2>3, <1>5 DEF WorkerFits, Places, AtASide
  <2>9. Turns(w, x)
    BY <1>n, <2>4, <2>6, <2>7, <2>8 DEF Turns, ActorFits
  <2>10. act[w].pc \notin Places /\ x.pc \notin Places
    BY <1>y, <2>2, <2>3 DEF Places, AtASide
  <2> QED
    BY <1>2, <2>9, <2>10
<1>3. CASE ListCandidates(w) /\ Entries # {act[w].entry}
  <2>1. act' = [act EXCEPT ![w].pc = "calling"] /\ y.pc = "claimed"
    BY <1>3, <1>y DEF ListCandidates
  <2>x. PICK x \in ActType : x = [y EXCEPT !.pc = "calling"]
    <3>1. "calling" \in Places \cup Resting \cup {"claimed", "calling", "existing", "failing"}
      OBVIOUS
    <3> QED
      BY <3>1 DEF ActType
  <2>3. /\ x.pc = "calling" /\ x.entry = y.entry /\ x.op = y.op /\ x.drop = y.drop
        /\ x.link = y.link /\ x.side = y.side /\ x.unset = y.unset /\ x.rows = y.rows
    BY <2>x DEF ActType
  <2>4. act' = [act EXCEPT ![w] = x]
    BY <2>1, <2>x, <1>y, <1>a DEF TypeInv
  <2>5. y.drop = {} /\ y.link = {} /\ y.unset = {} /\ y.rows = {}
    BY <2>1, <1>5 DEF PlaceFits, Places, AtASide
  <2>6. PlaceFits(x)
    BY <2>1, <2>3, <1>5 DEF PlaceFits, Places, AtASide, Resting
  <2>7. SidesFit(x) /\ CopyFits(x)
    BY <2>3, <2>5 DEF SidesFit, CopyFits, OwnFirst, AtASide
  <2>8. WorkerFits(x)
    BY <2>1, <2>3, <1>5 DEF WorkerFits, Places, AtASide
  <2>9. Turns(w, x)
    BY <1>n, <2>4, <2>6, <2>7, <2>8 DEF Turns, ActorFits
  <2>10. act[w].pc \notin Places /\ x.pc \notin Places
    BY <1>y, <2>1, <2>3 DEF Places, AtASide
  <2>11. act[w].entry \in Entries
    BY <1>y, <2>1, <1>5 DEF ActType, PlaceFits, Resting
  <2> QED
    BY <2>9, <2>10, <2>11
<1>4. CASE Answer(w)
  <2>1. PICK want \in Links :
          /\ want[act[w].entry] = "none"
          /\ act' = [act EXCEPT ![w].pc = "existing", ![w].op = "analyze", ![w].want = want]
    BY <1>4 DEF Answer
  <2>2. y.pc = "calling"
    BY <1>4, <1>y DEF Answer
  <2>x. PICK x \in ActType :
           x = [y EXCEPT !.pc = "existing", !.op = "analyze", !.want = want]
    <3>1. /\ "existing" \in Places \cup Resting \cup {"claimed", "calling", "existing", "failing"}
          /\ "analyze" \in {"none", "analyze", "add", "remove"}
      OBVIOUS
    <3> QED
      BY <3>1 DEF ActType
  <2>3. /\ x.pc = "existing" /\ x.entry = y.entry /\ x.op = "analyze" /\ x.drop = y.drop
        /\ x.link = y.link /\ x.side = y.side /\ x.unset = y.unset /\ x.rows = y.rows
        /\ x.want = want
    BY <2>x DEF ActType
  <2>4. act' = [act EXCEPT ![w] = x]
    BY <2>1, <2>x, <1>y, <1>a DEF TypeInv
  <2>5. y.drop = {} /\ y.link = {} /\ y.unset = {} /\ y.rows = {}
    BY <2>2, <1>5 DEF PlaceFits, Places, AtASide
  <2>6. PlaceFits(x)
    BY <2>1, <2>2, <2>3, <1>5, <1>y DEF PlaceFits, Places, AtASide, Resting
  <2>7. SidesFit(x) /\ CopyFits(x)
    BY <2>3, <2>5 DEF SidesFit, CopyFits, OwnFirst, AtASide
  <2>8. WorkerFits(x)
    BY <2>2, <2>3, <1>5 DEF WorkerFits, Places, AtASide
  <2>9. Turns(w, x)
    BY <1>n, <2>4, <2>6, <2>7, <2>8 DEF Turns, ActorFits
  <2>10. act[w].pc \notin Places /\ x.pc \notin Places
    BY <1>y, <2>2, <2>3 DEF Places, AtASide
  <2>11. act[w].entry \in Entries
    BY <1>y, <2>2, <1>5 DEF ActType, PlaceFits, Resting
  <2> QED
    BY <2>9, <2>10, <2>11
<1> QED
  BY <1>2, <1>3, <1>4

LEMMA TurnFailStatus ==
    ASSUME TypeInv, NEW w \in Workers, FailStatus(w)
    PROVE  act[w].entry \in Entries /\ \E x \in ActType : Turns(w, x) /\ x.pc \notin Places
<1>a. w \in Actors
  BY DEF Actors
<1>0. act[w] \in ActType /\ ActorFits(w, act[w])
  BY <1>a, ActorIs
<1>n. w \notin Requests /\ NoLinks \in Links
  BY ConstantsAssumption DEF ConstantsAssumption, NoLinks, Links
<1>1. act[w].pc \notin Resting
  BY DEF FailStatus, Resting
<1>e. PICK e \in Entries : e = act[w].entry
  BY <1>0, <1>1 DEF ActorFits, PlaceFits, ActType
<1>z. PICK z \in ActType : z = Ended("failing")
  BY <1>n DEF Ended, ActType
<1>2. /\ z.pc = "failing" /\ z.op = "none" /\ z.drop = {} /\ z.link = {}
      /\ z.side = NoSide /\ z.unset = {} /\ z.rows = {}
  BY <1>z DEF Ended
<1>x. PICK x \in ActType : x = [z EXCEPT !.entry = e]
  BY DEF ActType
<1>3. /\ x.pc = "failing" /\ x.op = "none" /\ x.entry = e /\ x.drop = {} /\ x.link = {}
      /\ x.side = NoSide /\ x.unset = {} /\ x.rows = {}
  BY <1>x, <1>2 DEF ActType
<1>4. act' = [act EXCEPT ![w] = x]
  BY <1>e, <1>z, <1>x DEF FailStatus
<1>5. e # NoEntry
  BY ConstantsAssumption DEF ConstantsAssumption
<1>6. PlaceFits(x)
  BY <1>3, <1>5 DEF PlaceFits, Places, AtASide, Resting
<1>7. SidesFit(x) /\ CopyFits(x) /\ WorkerFits(x)
  BY <1>3 DEF SidesFit, CopyFits, OwnFirst, AtASide, WorkerFits, Places
<1>8. Turns(w, x)
  BY <1>n, <1>4, <1>6, <1>7 DEF Turns, ActorFits
<1>9. x.pc \notin Places
  BY <1>3 DEF Places, AtASide
<1> QED
  BY <1>8, <1>9, <1>e

-----------------------------------------------------------------------------
(* The kinds of steps.  Each says what becomes of the actor, that is now x, *)
(* and what it does to the entries.                                        *)

\* Nothing is written, or the analysis of an entry that nobody writes to is reset.
Quiet(a, x) == /\ act[a].pc \notin Places /\ x.pc \notin Places
               /\ UNCHANGED <<relations, aiRelations, timeline>>
               /\ \A e \in Entries : reasons'[e] \subseteq reasons[e]

GivesUp(a, x) == /\ x.pc \notin Places
                 /\ UNCHANGED entry /\ left' = left \cup Reach(a)

BeginsEdit(a, x) ==
    \E e \in Entries, p \in Entries :
        /\ e # p /\ act[a].pc = "new" /\ a \in Requests
        /\ x.pc = "sides" /\ x.entry = e /\ x.side = NoSide
        /\ \A q \in Entries : q # p => x.want[q] = "none"
        /\ x.drop \cup x.link = Both(e, p) /\ x.unset \subseteq Both(e, p)
        /\ x.rows = IF relations[e][p] = x.want[p] THEN {} ELSE Both(e, p)
        /\ UNCHANGED entry

BeginsAnalysis(a, x) ==
    /\ act[a].pc = "existing" /\ act[a].entry \in Entries /\ a \in Workers
    /\ x.pc = "sides" /\ x.side = NoSide
    /\ x.entry = act[a].entry /\ x.want = act[a].want
    /\ x.drop = {<<p, x.entry>> : p \in Peers(relations[x.entry]) \ Peers(x.want)}
    /\ x.link = {<<p, x.entry>> :
                   p \in {q \in Peers(x.want) : x.want[q] # relations[x.entry][q]}}
    /\ x.unset = {} /\ x.rows = {}
    /\ UNCHANGED entry
    /\ overtaken' = overtaken \cup IF Peers(relations[x.entry]) = {} THEN {}
                                   ELSE {x.entry} \cup Peers(relations[x.entry])

ReadsSide(a, x) ==
    /\ act[a].pc = "sides" /\ x.unset = act[a].unset /\ x.rows = act[a].rows
    /\ \E s \in act[a].drop \cup act[a].link :
          /\ x.drop = act[a].drop \ {s} /\ x.link = act[a].link \ {s}
          /\ \/ HasRead(x, s, relations[s[1]], aiRelations[s[1]])
             \/ /\ x.pc = "sides" /\ x.side = NoSide /\ s \in act[a].drop
                /\ relations[s[1]][s[2]] = "none" /\ aiRelations[s[1]][s[2]] = "none"
    /\ UNCHANGED entry

WritesRelations(a, x) ==
    /\ act[a].pc = "relations" /\ x.pc = "airelations"
    /\ x.side = act[a].side /\ x.ais = act[a].ais
    /\ x.unset = act[a].unset /\ x.rows = act[a].rows
    /\ relations' = [relations EXCEPT ![act[a].side[1]] = act[a].rels]
    /\ UNCHANGED <<aiRelations, reasons, timeline>>

WritesAIRelations(a, x) ==
    /\ act[a].pc = "airelations"
    /\ \/ x.pc = "reason" /\ x.side = act[a].side /\ FlagOf(act[a], act[a].side) = "none"
       \/ x.pc = "sides" /\ x.side = NoSide /\ FlagOf(act[a], act[a].side) # "none"
    /\ x.unset = act[a].unset /\ x.rows = act[a].rows
    /\ aiRelations' = [aiRelations EXCEPT ![act[a].side[1]] = act[a].ais]
    /\ UNCHANGED <<relations, reasons, timeline>>

PassesReason(a, x) ==
    /\ act[a].pc = "reason" /\ x.pc = "sides" /\ x.side = NoSide
    /\ x.unset = act[a].unset /\ x.rows = act[a].rows
    /\ \/ reasons' = [reasons EXCEPT ![act[a].side[1]] = @ \ {act[a].side[2]}]
       \/ reasons' = reasons /\ left' = left \cup Reach(a)
    /\ UNCHANGED <<relations, aiRelations, timeline>>

PassesRow(a, x) ==
    /\ act[a].pc = "record" /\ x.pc = "record" /\ x.side = NoSide /\ x.unset = {}
    /\ \E s \in act[a].rows :
          /\ x.rows = act[a].rows \ {s}
          /\ \/ timeline' = [timeline EXCEPT ![s[1]][s[2]] = LinkOf(x, s)]
             \/ timeline' = timeline /\ left' = left \cup Reach(a)
    /\ UNCHANGED <<relations, aiRelations, reasons>>

TurnsToRows(a, x) ==
    /\ act[a].pc = "sides" /\ x.pc = "record" /\ x.side = NoSide /\ a \in Requests
    /\ act[a].drop = {} /\ act[a].link = {} /\ act[a].unset = {}
    /\ x.unset = {} /\ x.rows = act[a].rows
    /\ UNCHANGED entry

UnsetsAgain(a, x) ==
    /\ act[a].pc = "sides" /\ x.pc = "sides" /\ x.side = NoSide
    /\ act[a].drop = {} /\ x.drop = {} /\ x.link = act[a].link /\ x.rows = act[a].rows
    /\ \E s \in act[a].unset :
          /\ x.unset = act[a].unset \ {s}
          /\ reasons' = [reasons EXCEPT ![s[1]] = @ \ {s[2]}]
    /\ UNCHANGED <<relations, aiRelations, timeline>>

SetsRelations(a, x) ==
    /\ act[a].pc = "sides" /\ x.pc = "ais" /\ x.side = NoSide /\ a \in Workers
    /\ act[a].drop = {} /\ act[a].link = {}
    /\ x.unset = act[a].unset /\ x.rows = act[a].rows
    /\ relations' = [relations EXCEPT ![x.entry] = x.want]
    /\ UNCHANGED <<aiRelations, reasons, timeline>>

SetsAIRelations(a, x) ==
    /\ act[a].pc = "ais" /\ x.pc = "record" /\ x.side = NoSide /\ a \in Workers
    /\ x.unset = {} /\ x.rows = AllRows(act[a])
    /\ aiRelations' = [aiRelations EXCEPT ![x.entry] = x.want]
    /\ UNCHANGED <<relations, reasons, timeline>>

Ends(a, x) ==
    /\ act[a].pc = "record" /\ act[a].rows = {} /\ x.pc \notin Places
    /\ reasons' = IF a \in Workers
                  THEN [reasons EXCEPT ![act[a].entry] = Peers(act[a].want)]
                  ELSE reasons
    /\ UNCHANGED <<relations, aiRelations, timeline>>

\* The steps of a writer that go on with its task.
Proceeds(a, x) ==
    /\ GoesOn(act[a], x)
    /\ \/ ReadsSide(a, x) \/ WritesRelations(a, x) \/ WritesAIRelations(a, x)
       \/ PassesReason(a, x) \/ PassesRow(a, x) \/ TurnsToRows(a, x)
       \/ UnsetsAgain(a, x) \/ SetsRelations(a, x) \/ SetsAIRelations(a, x)

Step(a, x) == /\ Turns(a, x)
              /\ \/ Quiet(a, x) \/ GivesUp(a, x) \/ BeginsEdit(a, x) \/ BeginsAnalysis(a, x)
                 \/ Proceeds(a, x) \/ Ends(a, x)

\* What every step does to the ghosts.
Observed == /\ met' = met \cup {e \in Entries : Cardinality(Writers(e)') > 1}
            /\ left \subseteq left' /\ overtaken \subseteq overtaken'

LEMMA Observing ==
    ASSUME TypeInv, Next
    PROVE  Observed /\ left' \subseteq left \cup Entries /\ overtaken' \subseteq overtaken \cup Entries
<1>1. \A a \in Actors : Reach(a) \subseteq Entries
  <2> SUFFICES ASSUME NEW a \in Actors PROVE Reach(a) \subseteq Entries
    OBVIOUS
  <2>0. act[a] \in ActType /\ ActorFits(a, act[a])
    BY ActorIs
  <2>y. PICK y \in ActType : y = act[a]
    BY <2>0
  <2>1. /\ y.entry \in Entries \cup {NoEntry} /\ Peers(y.want) \subseteq Entries
        /\ \A s \in y.drop \cup y.unset \cup y.rows : s[1] \in Entries
        /\ y.side[1] \in Entries \cup {NoEntry}
    BY SideIs DEF ActType, Peers, NoSide
  <2> QED
    BY <2>1, <2>y DEF Reach
<1>2. \A e \in Entries : Peers(relations[e]) \subseteq Entries
  BY DEF Peers
<1>3. \A w \in Workers : ReadExisting(w) => act[w].entry \in Entries
  BY TurnReadExisting
<1>4. Observed
  BY DEF Next, Observe, Observed
<1>5. left' \subseteq left \cup Entries
  BY <1>1 DEF Next, Observe, Actors
<1>6. overtaken' \subseteq overtaken \cup Entries
  <2>1. CASE \E w \in Workers : ReadExisting(w) /\ LET e == act[w].entry IN
                overtaken' = overtaken
                             \cup IF Peers(relations[e]) = {} THEN {}
                                  ELSE {e} \cup Peers(relations[e])
    BY <2>1, <1>2, <1>3
  <2>2. CASE UNCHANGED overtaken
    BY <2>2
  <2> QED
    BY <2>1, <2>2 DEF Next
<1> QED
  BY <1>4, <1>5, <1>6

\* The writes of both kinds of actors to a side are steps of the kinds above.
LEMMA EditSteps ==
    ASSUME TypeInv, NEW a \in Actors,
           \/ EditSide(a) \/ Record(a)
           \/ (SkipUnset(a) \/ SkipRow(a)) /\ left' = left \cup Reach(a)
    PROVE  \E x \in ActType : Step(a, x)
<1>0. act[a] \in ActType /\ ActorFits(a, act[a])
  BY ActorIs
<1>f. SidesFit(act[a]) /\ PlaceFits(act[a]) /\ CopyFits(act[a])
  BY <1>0 DEF ActorFits
<1>1. CASE ReadDropped(a)
  <2>1. PICK s \in act[a].drop, x \in ActType :
              /\ Turns(a, x) /\ GoesOn(act[a], x) /\ act[a].pc = "sides"
              /\ x.drop = act[a].drop \ {s} /\ x.link = act[a].link
              /\ x.unset = act[a].unset /\ x.rows = act[a].rows
              /\ \/ HasRead(x, s, relations[s[1]], aiRelations[s[1]])
                 \/ /\ x.pc = "sides" /\ x.side = NoSide
                    /\ relations[s[1]][s[2]] = "none" /\ aiRelations[s[1]][s[2]] = "none"
    BY <1>1, TurnReadDropped
  <2>2. s \notin act[a].link
    BY <1>f DEF SidesFit
  <2>3. ReadsSide(a, x)
    <3>1. x.link = act[a].link \ {s}
      BY <2>1, <2>2
    <3>2. UNCHANGED entry
      BY <1>1 DEF ReadDropped
    <3> QED
      BY <2>1, <3>1, <3>2 DEF ReadsSide
  <2> QED
    BY <2>1, <2>3 DEF Step, Proceeds
<1>2. CASE ReadLinked(a)
  <2>1. PICK s \in act[a].link, x \in ActType :
              /\ Turns(a, x) /\ GoesOn(act[a], x) /\ act[a].pc = "sides"
              /\ act[a].drop = {} /\ x.drop = {} /\ x.link = act[a].link \ {s}
              /\ x.unset = act[a].unset /\ x.rows = act[a].rows
              /\ HasRead(x, s, relations[s[1]], aiRelations[s[1]])
    BY <1>2, TurnReadLinked
  <2>3. ReadsSide(a, x)
    <3>1. x.drop = act[a].drop \ {s}
      BY <2>1
    <3>2. UNCHANGED entry
      BY <1>2 DEF ReadLinked
    <3> QED
      BY <2>1, <3>1, <3>2 DEF ReadsSide
  <2> QED
    BY <2>1, <2>3 DEF Step, Proceeds
<1>3. CASE WriteRelations(a)
  <2>1. PICK x \in ActType :
              /\ Turns(a, x) /\ GoesOn(act[a], x)
              /\ act[a].pc = "relations" /\ x.pc = "airelations"
              /\ x.side = act[a].side /\ x.ais = act[a].ais
              /\ x.unset = act[a].unset /\ x.rows = act[a].rows
    BY <1>3, TurnWriteRelations
  <2>3. WritesRelations(a, x)
    BY <1>3, <2>1 DEF WriteRelations, WritesRelations
  <2> QED
    BY <2>1, <2>3 DEF Step, Proceeds
<1>4. CASE WriteAIRelations(a)
  <2>1. PICK x \in ActType :
              /\ Turns(a, x) /\ GoesOn(act[a], x) /\ act[a].pc = "airelations"
              /\ \/ x.pc = "reason" /\ x.side = act[a].side
                    /\ FlagOf(act[a], act[a].side) = "none"
                 \/ x.pc = "sides" /\ x.side = NoSide
                    /\ FlagOf(act[a], act[a].side) # "none"
              /\ x.unset = act[a].unset /\ x.rows = act[a].rows
    BY <1>4, TurnWriteAIRelations
  <2>3. WritesAIRelations(a, x)
    BY <1>4, <2>1 DEF WriteAIRelations, WritesAIRelations
  <2> QED
    BY <2>1, <2>3 DEF Step, Proceeds
<1>5. CASE UnsetReason(a) \/ (SkipUnset(a) /\ left' = left \cup Reach(a))
  <2>1. PICK x \in ActType :
              /\ Turns(a, x) /\ GoesOn(act[a], x) /\ act[a].pc = "reason"
              /\ x.pc = "sides" /\ x.side = NoSide
              /\ x.unset = act[a].unset /\ x.rows = act[a].rows
    BY <1>5, TurnReason
  <2>3. PassesReason(a, x)
    <3>1. /\ \/ reasons' = [reasons EXCEPT ![act[a].side[1]] = @ \ {act[a].side[2]}]
             \/ reasons' = reasons /\ left' = left \cup Reach(a)
          /\ UNCHANGED <<relations, aiRelations, timeline>>
      BY <1>5 DEF UnsetReason, SkipUnset, entry
    <3> QED
      BY <2>1, <3>1 DEF PassesReason
  <2> QED
    BY <2>1, <2>3 DEF Step, Proceeds
<1>6. CASE Record(a) \/ (SkipRow(a) /\ left' = left \cup Reach(a))
  <2>1. PICK s \in act[a].rows, x \in ActType :
              /\ Turns(a, x) /\ GoesOn(act[a], x)
              /\ act[a].pc = "record" /\ x.pc = "record"
              /\ x.side = NoSide
              /\ x.unset = {} /\ x.rows = act[a].rows \ {s}
              /\ \/ SkipRow(a)
                 \/ timeline' = [timeline EXCEPT ![s[1]][s[2]] = LinkOf(x, s)]
    BY <1>6, TurnRow
  <2>3. PassesRow(a, x)
    <3>1. UNCHANGED <<relations, aiRelations, reasons>>
      BY <1>6 DEF Record, SkipRow, entry
    <3>2. \/ timeline' = [timeline EXCEPT ![s[1]][s[2]] = LinkOf(x, s)]
          \/ timeline' = timeline /\ left' = left \cup Reach(a)
      <4>1. CASE SkipRow(a) /\ left' = left \cup Reach(a)
        BY <4>1 DEF SkipRow, entry
      <4>2. CASE Record(a)
        <5>1. ~SkipRow(a) \/ timeline' = timeline
          BY DEF SkipRow, entry
        <5>2. CASE ~SkipRow(a)
          BY <5>2, <2>1
        <5>3. CASE SkipRow(a)
          <6>1. faults' = faults /\ faults' = faults + 1
            BY <4>2, <5>3 DEF Record, SkipRow
          <6>2. faults \in Nat
            BY ConstantsAssumption DEF TypeInv, StoreTyped, ConstantsAssumption
          <6> QED
            BY <6>1, <6>2
        <5> QED
          BY <5>2, <5>3
      <4> QED
        BY <4>1, <4>2, <1>6
    <3> QED
      BY <2>1, <3>1, <3>2 DEF PassesRow
  <2> QED
    BY <2>1, <2>3 DEF Step, Proceeds
<1> QED
  BY <1>1, <1>2, <1>3, <1>4, <1>5, <1>6 DEF EditSide

\* So are the other steps of an analyzer.
LEMMA WorkerSteps ==
    ASSUME TypeInv, NEW w \in Workers,
           \/ ClaimNext(w) \/ Release(w) \/ ListCandidates(w) \/ Answer(w) \/ FailClaim(w)
           \/ SetRelations(w) \/ SetAIRelations(w) \/ Finish(w)
           \/ /\ ReadExisting(w)
              /\ LET e == act[w].entry IN
                 overtaken' = overtaken
                              \cup IF Peers(relations[e]) = {} THEN {}
                                   ELSE {e} \cup Peers(relations[e])
           \/ (FailStatus(w) \/ Abandon(w)) /\ left' = left \cup Reach(w)
    PROVE  \E x \in ActType : Step(w, x)
<1>a. w \in Actors
  BY DEF Actors
<1>t. /\ reasons \in [Entries -> SUBSET Entries]
      /\ \A e \in Entries : {} \subseteq reasons[e]
  BY DEF TypeInv, StoreTyped
<1>1. CASE ClaimNext(w) \/ (ListCandidates(w) /\ Entries # {act[w].entry}) \/ Answer(w)
  <2>1. PICK x \in ActType : /\ Turns(w, x)
                             /\ act[w].pc \notin Places /\ x.pc \notin Places
    BY <1>1, TurnClaimed
  <2>2. UNCHANGED entry
    BY <1>1 DEF ClaimNext, ListCandidates, Answer
  <2>3. Quiet(w, x)
    BY <2>1, <2>2 DEF Quiet, entry
  <2> QED
    BY <2>1, <2>3 DEF Step
<1>2. CASE Release(w) \/ (ListCandidates(w) /\ Entries = {act[w].entry}) \/ FailClaim(w)
  <2>1. act' = [act EXCEPT ![w] = Ended("idle")]
    BY <1>2 DEF Release, ListCandidates, FailClaim, SetEntryRelationAnalysis
  <2>2. PICK x \in ActType : Turns(w, x) /\ x.pc \notin Places
    BY <1>a, <2>1, TurnEnded
  <2>3. /\ UNCHANGED <<relations, aiRelations, timeline>>
        /\ reasons' = reasons \/ reasons' = [reasons EXCEPT ![act[w].entry] = {}]
    BY <1>2 DEF Release, ListCandidates, FailClaim, SetEntryRelationAnalysis, entry
  <2>4. act[w].pc \notin Places
    BY <1>2 DEF Release, ListCandidates, FailClaim, Places, AtASide
  <2>5. \A e \in Entries : reasons'[e] \subseteq reasons[e]
    BY <2>3, <1>t
  <2> QED
    BY <2>2, <2>3, <2>4, <2>5 DEF Step, Quiet
<1>3. CASE SetRelations(w)
  <2>1. PICK x \in ActType :
              /\ Turns(w, x) /\ GoesOn(act[w], x)
              /\ act[w].pc = "sides" /\ x.pc = "ais" /\ x.side = NoSide
              /\ act[w].drop = {} /\ act[w].link = {}
              /\ x.unset = act[w].unset /\ x.rows = act[w].rows
    BY <1>3, TurnSetRelations
  <2>2. SetsRelations(w, x)
    BY <1>3, <2>1 DEF SetRelations, SetsRelations, GoesOn
  <2> QED
    BY <2>1, <2>2 DEF Step, Proceeds
<1>4. CASE SetAIRelations(w)
  <2>1. PICK x \in ActType :
              /\ Turns(w, x) /\ GoesOn(act[w], x)
              /\ act[w].pc = "ais" /\ x.pc = "record" /\ x.side = NoSide
              /\ x.unset = {} /\ x.rows = AllRows(act[w])
    BY <1>4, TurnSetAIRelations
  <2>2. SetsAIRelations(w, x)
    BY <1>4, <2>1 DEF SetAIRelations, SetsAIRelations, GoesOn
  <2> QED
    BY <2>1, <2>2 DEF Step, Proceeds
<1>5. CASE Finish(w)
  <2>1. act' = [act EXCEPT ![w] = Ended("idle")]
    BY <1>5 DEF Finish, SetEntryRelationAnalysis
  <2>2. PICK x \in ActType : Turns(w, x) /\ x.pc \notin Places
    BY <1>a, <2>1, TurnEnded
  <2>3. Ends(w, x)
    BY <1>5, <2>2 DEF Finish, SetEntryRelationAnalysis, Ends
  <2> QED
    BY <2>2, <2>3 DEF Step
<1>6. CASE /\ ReadExisting(w)
           /\ LET e == act[w].entry IN
              overtaken' = overtaken
                           \cup IF Peers(relations[e]) = {} THEN {}
                                ELSE {e} \cup Peers(relations[e])
  <2>1. PICK x \in ActType :
              /\ Turns(w, x) /\ act[w].pc = "existing" /\ act[w].entry \in Entries
              /\ x.pc = "sides" /\ x.side = NoSide
              /\ x.entry = act[w].entry /\ x.want = act[w].want
              /\ x.drop = {<<p, x.entry>> :
                             p \in Peers(relations[x.entry]) \ Peers(x.want)}
              /\ x.link = {<<p, x.entry>> :
                             p \in {q \in Peers(x.want) : x.want[q] # relations[x.entry][q]}}
              /\ x.unset = {} /\ x.rows = {}
    BY <1>6, TurnReadExisting
  <2>2. UNCHANGED entry
    BY <1>6 DEF ReadExisting
  <2>3. overtaken' = overtaken \cup IF Peers(relations[x.entry]) = {} THEN {}
                                    ELSE {x.entry} \cup Peers(relations[x.entry])
    BY <1>6, <2>1
  <2>4. BeginsAnalysis(w, x)
    BY <2>1, <2>2, <2>3 DEF BeginsAnalysis
  <2> QED
    BY <2>1, <2>4 DEF Step
<1>7. CASE FailStatus(w) /\ left' = left \cup Reach(w)
  <2>1. PICK x \in ActType : Turns(w, x) /\ x.pc \notin Places
    BY <1>7, TurnFailStatus
  <2> QED
    BY <1>7, <2>1 DEF FailStatus, Step, GivesUp
<1>8. CASE Abandon(w) /\ left' = left \cup Reach(w)
  <2>1. PICK x \in ActType : Turns(w, x) /\ x.pc \notin Places
    BY <1>8, <1>a, TurnEnded DEF Abandon
  <2> QED
    BY <1>8, <2>1 DEF Abandon, Step, GivesUp
<1> QED
  BY <1>1, <1>2, <1>3, <1>4, <1>5, <1>6, <1>7, <1>8

\* And those of a request.
LEMMA RequestSteps ==
    ASSUME TypeInv, NEW r \in Requests,
           \/ ReadToAdd(r) \/ ReadToRemove(r) \/ Disable(r) \/ UnsetAgain(r)
           \/ Unlinked(r) \/ Answered(r)
           \/ Abort(r) /\ left' = left \cup Reach(r)
    PROVE  \E x \in ActType : Step(r, x)
<1>a. r \in Actors /\ r \notin Workers
  BY ConstantsAssumption DEF Actors, ConstantsAssumption
<1>1. CASE ReadToAdd(r) \/ ReadToRemove(r)
  <2>1. PICK e \in Entries, p \in Entries, x \in ActType :
              /\ e # p /\ Turns(r, x) /\ act[r].pc = "new"
              /\ x.pc = "sides" /\ x.entry = e /\ x.side = NoSide
              /\ \A q \in Entries : q # p => x.want[q] = "none"
              /\ x.drop \cup x.link = Both(e, p) /\ x.unset \subseteq Both(e, p)
              /\ x.rows = IF relations[e][p] = x.want[p] THEN {} ELSE Both(e, p)
    BY <1>1, TurnToEdit
  <2>2. UNCHANGED entry
    BY <1>1 DEF ReadToAdd, ReadToRemove
  <2>3. BeginsEdit(r, x)
    BY <2>1, <2>2 DEF BeginsEdit
  <2> QED
    BY <2>1, <2>3 DEF Step
<1>2. CASE Disable(r) \/ Unlinked(r)
  <2>1. PICK x \in ActType :
              /\ Turns(r, x) /\ GoesOn(act[r], x)
              /\ act[r].pc = "sides" /\ x.pc = "record" /\ x.side = NoSide
              /\ act[r].drop = {} /\ act[r].link = {} /\ act[r].unset = {}
              /\ x.unset = {} /\ x.rows = act[r].rows
    BY <1>2, TurnToRows
  <2>2. TurnsToRows(r, x)
    BY <1>2, <2>1 DEF Disable, Unlinked, TurnsToRows
  <2> QED
    BY <2>1, <2>2 DEF Step, Proceeds
<1>3. CASE UnsetAgain(r)
  <2>1. PICK s \in act[r].unset, x \in ActType :
              /\ Turns(r, x) /\ GoesOn(act[r], x)
              /\ act[r].pc = "sides" /\ x.pc = "sides" /\ x.side = NoSide
              /\ act[r].drop = {} /\ x.drop = {} /\ x.link = act[r].link
              /\ x.unset = act[r].unset \ {s} /\ x.rows = act[r].rows
              /\ reasons' = [reasons EXCEPT ![s[1]] = @ \ {s[2]}]
    BY <1>3, TurnUnsetAgain
  <2>2. UnsetsAgain(r, x)
    <3>1. UNCHANGED <<relations, aiRelations, timeline>>
      BY <1>3 DEF UnsetAgain
    <3> QED
      BY <2>1, <3>1 DEF UnsetsAgain
  <2> QED
    BY <2>1, <2>2 DEF Step, Proceeds
<1>4. CASE Answered(r)
  <2>1. PICK x \in ActType : Turns(r, x) /\ x.pc \notin Places
    BY <1>4, <1>a, TurnEnded DEF Answered
  <2>2. Ends(r, x)
    BY <1>4, <1>a, <2>1 DEF Answered, Ends, entry
  <2> QED
    BY <2>1, <2>2 DEF Step
<1>5. CASE Abort(r) /\ left' = left \cup Reach(r)
  <2>1. PICK x \in ActType : Turns(r, x) /\ x.pc \notin Places
    BY <1>5, <1>a, TurnEnded DEF Abort
  <2> QED
    BY <1>5, <2>1 DEF Abort, Step, GivesUp
<1> QED
  BY <1>1, <1>2, <1>3, <1>4, <1>5

LEMMA Steps ==
    ASSUME TypeInv, Next
    PROVE  (\E e \in Entries : Expire(e)) \/ \E a \in Actors, x \in ActType : Step(a, x)
<1>1. CASE \E w \in Workers :
              \/ Analyze(w) /\ Observe({}) /\ UNCHANGED overtaken
              \/ /\ ReadExisting(w) /\ Observe({})
                 /\ LET e == act[w].entry IN
                    overtaken' = overtaken
                                 \cup IF Peers(relations[e]) = {} THEN {}
                                      ELSE {e} \cup Peers(relations[e])
              \/ /\ SkipRow(w) \/ SkipUnset(w) \/ FailStatus(w) \/ Abandon(w)
                 /\ Observe(Reach(w)) /\ UNCHANGED overtaken
  <2>1. PICK w \in Workers :
              \/ Analyze(w) /\ Observe({}) /\ UNCHANGED overtaken
              \/ /\ ReadExisting(w) /\ Observe({})
                 /\ LET e == act[w].entry IN
                    overtaken' = overtaken
                                 \cup IF Peers(relations[e]) = {} THEN {}
                                      ELSE {e} \cup Peers(relations[e])
              \/ /\ SkipRow(w) \/ SkipUnset(w) \/ FailStatus(w) \/ Abandon(w)
                 /\ Observe(Reach(w)) /\ UNCHANGED overtaken
    BY <1>1
  <2>2. w \in Actors
    BY DEF Actors
  <2>3. \/ ClaimNext(w) \/ Release(w) \/ ListCandidates(w) \/ Answer(w) \/ FailClaim(w)
        \/ SetRelations(w) \/ SetAIRelations(w) \/ Finish(w)
        \/ /\ ReadExisting(w)
           /\ LET e == act[w].entry IN
              overtaken' = overtaken
                           \cup IF Peers(relations[e]) = {} THEN {}
                                ELSE {e} \cup Peers(relations[e])
        \/ (FailStatus(w) \/ Abandon(w)) /\ left' = left \cup Reach(w)
        \/ EditSide(w) \/ Record(w)
        \/ (SkipUnset(w) \/ SkipRow(w)) /\ left' = left \cup Reach(w)
    BY <2>1 DEF Analyze, Observe
  <2>4. CASE \/ EditSide(w) \/ Record(w)
             \/ (SkipUnset(w) \/ SkipRow(w)) /\ left' = left \cup Reach(w)
    BY <2>2, <2>4, EditSteps
  <2>5. CASE ~(\/ EditSide(w) \/ Record(w)
               \/ (SkipUnset(w) \/ SkipRow(w)) /\ left' = left \cup Reach(w))
    <3>1. \E x \in ActType : Step(w, x)
      BY <2>3, <2>5, WorkerSteps
    <3> QED
      BY <3>1, <2>2
  <2> QED
    BY <2>4, <2>5
<1>2. CASE \E e \in Entries : Expire(e) /\ Observe({}) /\ UNCHANGED overtaken
  BY <1>2
<1>3. CASE \E r \in Requests :
              \/ Administer(r) /\ Observe({}) /\ UNCHANGED overtaken
              \/ (SkipUnset(r) \/ Abort(r)) /\ Observe(Reach(r)) /\ UNCHANGED overtaken
  <2>1. PICK r \in Requests :
              \/ Administer(r) /\ Observe({}) /\ UNCHANGED overtaken
              \/ (SkipUnset(r) \/ Abort(r)) /\ Observe(Reach(r)) /\ UNCHANGED overtaken
    BY <1>3
  <2>2. r \in Actors
    BY DEF Actors
  <2>3. \/ ReadToAdd(r) \/ ReadToRemove(r) \/ Disable(r) \/ UnsetAgain(r)
        \/ Unlinked(r) \/ Answered(r)
        \/ Abort(r) /\ left' = left \cup Reach(r)
        \/ EditSide(r) \/ Record(r)
        \/ (SkipUnset(r) \/ SkipRow(r)) /\ left' = left \cup Reach(r)
    BY <2>1 DEF Administer, Observe
  <2>4. CASE \/ EditSide(r) \/ Record(r)
             \/ (SkipUnset(r) \/ SkipRow(r)) /\ left' = left \cup Reach(r)
    BY <2>2, <2>4, EditSteps
  <2>5. CASE ~(\/ EditSide(r) \/ Record(r)
               \/ (SkipUnset(r) \/ SkipRow(r)) /\ left' = left \cup Reach(r))
    <3>1. \E x \in ActType : Step(r, x)
      BY <2>3, <2>5, RequestSteps
    <3> QED
      BY <3>1, <2>2
  <2> QED
    BY <2>4, <2>5
<1> QED
  BY <1>1, <1>2, <1>3 DEF Next

\* What an actor at a side is to write there.
LEMMA SideAt ==
    ASSUME TypeInv, NEW a \in Actors, act[a].pc \in AtASide
    PROVE  /\ act[a].side \in Sides /\ act[a].side # NoSide
           /\ act[a].side[1] \in Entries /\ act[a].side[2] \in Entries
           /\ act[a].side[1] # act[a].side[2]
           /\ act[a].rels \in Links /\ act[a].ais \in Links
           /\ act[a].pc = "relations" => act[a].rels[act[a].side[1]] = "none"
           /\ act[a].pc # "reason" => act[a].ais[act[a].side[1]] = "none"
<1>0. act[a] \in ActType /\ ActorFits(a, act[a])
  BY ActorIs
<1>1. PlaceFits(act[a]) /\ CopyFits(act[a])
  BY <1>0 DEF ActorFits
<1>2. act[a].side \in Sides /\ act[a].side # NoSide
  BY <1>0, <1>1 DEF ActType, PlaceFits
<1>3. act[a].rels \in Links /\ act[a].ais \in Links
  BY <1>0 DEF ActType
<1>4. /\ act[a].pc = "relations" => act[a].rels[act[a].side[1]] = "none"
      /\ act[a].pc # "reason" => act[a].ais[act[a].side[1]] = "none"
  BY <1>1 DEF CopyFits
<1>5. /\ act[a].side[1] \in Entries /\ act[a].side[2] \in Entries
      /\ act[a].side[1] # act[a].side[2]
  BY <1>2, SideIs
<1> QED
  BY <1>2, <1>3, <1>4, <1>5

LEMMA WriterIs ==
    ASSUME TypeInv, NEW a \in Actors, act[a].pc \in Places
    PROVE  /\ act[a].entry \in Entries /\ act[a].entry # NoEntry
           /\ act[a].want \in Links /\ act[a].want[act[a].entry] = "none"
<1>0. act[a] \in ActType /\ ActorFits(a, act[a])
  BY ActorIs
<1>1. act[a].pc \notin Resting
  BY DEF Places, AtASide, Resting
<1> QED
  BY <1>0, <1>1, ConstantsAssumption DEF ActType, ActorFits, PlaceFits, ConstantsAssumption

LEMMA EntriesTyped ==
    ASSUME TypeInv, NEW a \in Actors, NEW x \in ActType, Step(a, x)
    PROVE  /\ relations' \in [Entries -> Links] /\ aiRelations' \in [Entries -> Links]
           /\ reasons' \in [Entries -> SUBSET Entries] \/ Quiet(a, x)
           /\ timeline' \in [Entries -> Links]
           /\ \A e \in Entries : /\ relations'[e][e] = "none" /\ aiRelations'[e][e] = "none"
                                 /\ e \notin reasons'[e] /\ timeline'[e][e] = "none"
<1>1. /\ relations \in [Entries -> Links] /\ aiRelations \in [Entries -> Links]
      /\ reasons \in [Entries -> SUBSET Entries] /\ timeline \in [Entries -> Links]
      /\ \A e \in Entries : /\ relations[e][e] = "none" /\ aiRelations[e][e] = "none"
                            /\ e \notin reasons[e] /\ timeline[e][e] = "none"
  BY DEF TypeInv, StoreTyped, NoSelf
<1>2. CASE UNCHANGED entry
  BY <1>1, <1>2 DEF entry
<1>3. CASE Quiet(a, x)
  BY <1>1, <1>3 DEF Quiet
<1>4. CASE WritesRelations(a, x)
  <2>1. act[a].pc \in AtASide /\ act[a].pc = "relations"
    BY <1>4 DEF WritesRelations, AtASide
  <2> QED
    BY <1>1, <1>4, <2>1, SideAt DEF WritesRelations
<1>5. CASE WritesAIRelations(a, x)
  <2>1. act[a].pc \in AtASide /\ act[a].pc = "airelations"
    BY <1>5 DEF WritesAIRelations, AtASide
  <2> QED
    BY <1>1, <1>5, <2>1, SideAt DEF WritesAIRelations
<1>6. CASE PassesReason(a, x)
  BY <1>1, <1>6 DEF PassesReason
<1>7. CASE PassesRow(a, x)
  <2>1. PICK s \in act[a].rows :
           \/ timeline' = [timeline EXCEPT ![s[1]][s[2]] = LinkOf(x, s)]
           \/ timeline' = timeline
    BY <1>7 DEF PassesRow
  <2>2. act[a] \in ActType /\ s \in Sides
    BY ActorIs DEF ActType
  <2>3. s[1] \in Entries /\ s[2] \in Entries /\ s[1] # s[2]
    BY <2>2, SideIs
  <2>4. LinkOf(x, s) \in Types \cup {"none"}
    BY <2>3 DEF LinkOf, Peer, ActType, Links
  <2>5. PICK t \in Types \cup {"none"} : t = LinkOf(x, s)
    BY <2>4
  <2>6. timeline' \in [Entries -> Links]
    <3>1. timeline[s[1]] \in Links
      BY <1>1, <2>3
    <3>2. PICK row \in Links : row = [timeline[s[1]] EXCEPT ![s[2]] = t]
      BY <3>1, <2>3 DEF Links
    <3>3. timeline' = timeline \/ timeline' = [timeline EXCEPT ![s[1]] = row]
      BY <2>1, <2>5, <3>2
    <3> QED
      BY <1>1, <2>3, <3>3
  <2>7. \A e \in Entries : timeline'[e][e] = "none"
    BY <1>1, <2>1, <2>3, <2>5 DEF Links
  <2> QED
    BY <1>1, <1>7, <2>6, <2>7 DEF PassesRow
<1>8. CASE UnsetsAgain(a, x)
  <2>1. PICK s \in act[a].unset : reasons' = [reasons EXCEPT ![s[1]] = @ \ {s[2]}]
    BY <1>8 DEF UnsetsAgain
  <2> QED
    BY <1>1, <1>8, <2>1 DEF UnsetsAgain
<1>9. CASE SetsRelations(a, x) /\ GoesOn(act[a], x)
  <2>1. act[a].pc \in Places /\ x.entry = act[a].entry /\ x.want = act[a].want
    BY <1>9 DEF GoesOn
  <2> QED
    BY <1>1, <1>9, <2>1, WriterIs DEF SetsRelations
<1>10. CASE SetsAIRelations(a, x) /\ GoesOn(act[a], x)
  <2>1. act[a].pc \in Places /\ x.entry = act[a].entry /\ x.want = act[a].want
    BY <1>10 DEF GoesOn
  <2> QED
    BY <1>1, <1>10, <2>1, WriterIs DEF SetsAIRelations
<1>11. CASE Ends(a, x)
  <2>1. act[a].pc \in Places
    BY <1>11 DEF Ends, Places
  <2>2. /\ act[a].entry \in Entries /\ act[a].want[act[a].entry] = "none"
        /\ Peers(act[a].want) \in SUBSET Entries
    BY <2>1, WriterIs DEF Peers
  <2>3. act[a].entry \notin Peers(act[a].want)
    BY <2>2 DEF Peers
  <2> QED
    BY <1>1, <1>11, <2>2, <2>3 DEF Ends
<1> QED
  BY <1>2, <1>3, <1>4, <1>5, <1>6, <1>7, <1>8, <1>9, <1>10, <1>11
     DEF Step, GivesUp, BeginsEdit, BeginsAnalysis, Proceeds, ReadsSide, TurnsToRows

\* The analysis of an entry, and the reasons that Release and ListCandidates reset.
LEMMA AnalysisTyped ==
    ASSUME TypeInv, Next
    PROVE  /\ status' \in [Entries -> {"unset", "pending", "done", "failed", "disabled"}]
           /\ claim' \in [Entries -> {"none", "live", "expired"}]
           /\ faults' \in 0..MaxFaults /\ claims' \in 0..MaxClaims
<1>1. /\ status \in [Entries -> {"unset", "pending", "done", "failed", "disabled"}]
      /\ claim \in [Entries -> {"none", "live", "expired"}]
      /\ faults \in 0..MaxFaults /\ claims \in 0..MaxClaims
      /\ MaxFaults \in Nat /\ MaxClaims \in Nat
  BY ConstantsAssumption DEF TypeInv, StoreTyped, ConstantsAssumption
<1>2. ASSUME NEW a \in Workers \cup Requests,
             \/ EditSide(a) \/ Record(a) \/ SkipUnset(a) \/ SkipRow(a)
             \/ ReadToAdd(a) \/ ReadToRemove(a) \/ UnsetAgain(a) \/ Unlinked(a) \/ Answered(a)
             \/ Answer(a) \/ ReadExisting(a) \/ SetRelations(a) \/ SetAIRelations(a)
             \/ Abandon(a) \/ Abort(a) \/ FailClaim(a) \/ Disable(a)
      PROVE  /\ status' \in [Entries -> {"unset", "pending", "done", "failed", "disabled"}]
             /\ claim' \in [Entries -> {"none", "live", "expired"}]
             /\ faults' \in 0..MaxFaults /\ claims' \in 0..MaxClaims
  <2>1. /\ status' = status \/ status' = [status EXCEPT ![act[a].entry] = "disabled"]
        /\ claim' = claim \/ claim' = [claim EXCEPT ![act[a].entry] = "none"]
        /\ claims' = claims
        /\ faults' = faults \/ (faults < MaxFaults /\ faults' = faults + 1)
    BY <1>2 DEF EditSide, ReadDropped, ReadLinked, WriteRelations, WriteAIRelations, UnsetReason,
         Record, SkipUnset, SkipRow, ReadToAdd, ReadToRemove, UnsetAgain, Unlinked, Answered,
         Answer, ReadExisting, SetRelations, SetAIRelations, Abandon, Abort, FailClaim, Disable,
         analysis
  <2> QED
    BY <1>1, <2>1
<1>3. ASSUME NEW w \in Workers,
             \/ ClaimNext(w) \/ Release(w) \/ ListCandidates(w) \/ Finish(w) \/ FailStatus(w)
      PROVE  /\ status' \in [Entries -> {"unset", "pending", "done", "failed", "disabled"}]
             /\ claim' \in [Entries -> {"none", "live", "expired"}]
             /\ faults' \in 0..MaxFaults /\ claims' \in 0..MaxClaims
  <2>1. CASE ClaimNext(w)
    BY <1>1, <2>1 DEF ClaimNext
  <2>2. CASE FailStatus(w)
    <3>1. /\ status' = [status EXCEPT ![act[w].entry] = "failed"]
          /\ claim' = claim /\ claims' = claims
          /\ faults < MaxFaults /\ faults' = faults + 1
      BY <2>2 DEF FailStatus
    <3>2. status' \in [Entries -> {"unset", "pending", "done", "failed", "disabled"}]
      BY <1>1, <3>1
    <3>3. faults' \in 0..MaxFaults
      BY <1>1, <3>1
    <3> QED
      BY <1>1, <3>1, <3>2, <3>3
  <2>3. CASE Release(w) \/ ListCandidates(w) \/ Finish(w)
    BY <1>1, <2>3 DEF Release, ListCandidates, Finish, SetEntryRelationAnalysis, analysis
  <2> QED
    BY <1>3, <2>1, <2>2, <2>3
<1>4. ASSUME NEW e \in Entries, Expire(e)
      PROVE  /\ status' \in [Entries -> {"unset", "pending", "done", "failed", "disabled"}]
             /\ claim' \in [Entries -> {"none", "live", "expired"}]
             /\ faults' \in 0..MaxFaults /\ claims' \in 0..MaxClaims
  BY <1>1, <1>4 DEF Expire
<1> QED
  BY <1>2, <1>3, <1>4 DEF Next, Analyze, Administer

LEMMA ReasonsTyped ==
    ASSUME TypeInv, Next
    PROVE  reasons' \in [Entries -> SUBSET Entries]
<1>1. reasons \in [Entries -> SUBSET Entries]
  BY DEF TypeInv, StoreTyped
<1>2. ASSUME NEW w \in Workers, Release(w) \/ ListCandidates(w) \/ FailClaim(w)
      PROVE  reasons' \in [Entries -> SUBSET Entries]
  BY <1>1, <1>2 DEF Release, ListCandidates, FailClaim, SetEntryRelationAnalysis, entry
<1>3. ASSUME NEW w \in Workers, Finish(w)
      PROVE  reasons' \in [Entries -> SUBSET Entries]
  BY <1>1, <1>3 DEF Finish, SetEntryRelationAnalysis, Peers
<1>4. ASSUME NEW a \in Workers \cup Requests,
             \/ ReadDropped(a) \/ ReadLinked(a) \/ WriteRelations(a) \/ WriteAIRelations(a)
             \/ Record(a) \/ SkipUnset(a) \/ SkipRow(a)
             \/ ReadToAdd(a) \/ ReadToRemove(a) \/ Unlinked(a) \/ Answered(a)
             \/ Answer(a) \/ ReadExisting(a) \/ SetRelations(a) \/ SetAIRelations(a)
             \/ Abandon(a) \/ Abort(a) \/ Disable(a) \/ ClaimNext(a) \/ FailStatus(a)
      PROVE  reasons' \in [Entries -> SUBSET Entries]
  <2>1. reasons' = reasons
    BY <1>4 DEF ReadDropped, ReadLinked, WriteRelations, WriteAIRelations,
         Record, SkipUnset, SkipRow, ReadToAdd, ReadToRemove, Unlinked, Answered,
         Answer, ReadExisting, SetRelations, SetAIRelations, Abandon, Abort, Disable,
         ClaimNext, FailStatus, entry
  <2> QED
    BY <1>1, <2>1
<1>5. ASSUME NEW a \in Workers \cup Requests, UnsetReason(a) \/ UnsetAgain(a)
      PROVE  reasons' \in [Entries -> SUBSET Entries]
  <2>1. \E e, p : reasons' = [reasons EXCEPT ![e] = @ \ {p}]
    BY <1>5 DEF UnsetReason, UnsetAgain
  <2> QED
    BY <1>1, <2>1
<1>6. ASSUME NEW e \in Entries, Expire(e)
      PROVE  reasons' \in [Entries -> SUBSET Entries]
  BY <1>1, <1>6 DEF Expire, entry
<1> QED
  BY <1>2, <1>3, <1>4, <1>5, <1>6 DEF Next, Analyze, Administer, EditSide

-----------------------------------------------------------------------------
LEMMA TypesStart == Init => TypeInv
<1> SUFFICES ASSUME Init PROVE TypeInv
  OBVIOUS
<1>n. NoLinks \in Links /\ \A e \in Entries : NoLinks[e] = "none"
  BY DEF NoLinks, Links
<1>1. StoreTyped /\ NoSelf
  BY <1>n, ConstantsAssumption DEF Init, StoreTyped, NoSelf, ConstantsAssumption
<1>2. ASSUME NEW a \in Actors
      PROVE  act[a] \in ActType /\ ActorFits(a, act[a]) /\ act[a].pc \in Resting
  <2>1. PICK pc \in {"idle", "new"} :
           act[a] = Ended(pc) /\ pc = IF a \in Workers THEN "idle" ELSE "new"
    BY <1>2 DEF Init, Actors
  <2>2. pc \in Resting /\ pc \notin Places \cup AtASide
    BY DEF Resting, Places, AtASide
  <2>x. PICK x \in ActType : x = Ended(pc)
    BY <1>n, <2>2 DEF Ended, ActType
  <2>3. /\ x.pc = pc /\ x.op = "none" /\ x.entry = NoEntry /\ x.drop = {} /\ x.link = {}
        /\ x.side = NoSide /\ x.unset = {} /\ x.rows = {}
    BY <2>x DEF Ended
  <2>4. PlaceFits(x)
    BY <2>2, <2>3 DEF PlaceFits, Places, AtASide
  <2>5. SidesFit(x) /\ CopyFits(x)
    BY <2>2, <2>3 DEF SidesFit, CopyFits, OwnFirst
  <2>6. /\ a \in Workers => WorkerFits(x)
        /\ a \in Requests => RequestFits(x)
    BY <2>1, <2>2, <2>3, ConstantsAssumption
       DEF WorkerFits, RequestFits, Places, AtASide, ConstantsAssumption
  <2> QED
    BY <2>1, <2>2, <2>3, <2>4, <2>5, <2>6, <2>x DEF ActorFits
<1>3. act \in [Actors -> ActType]
  <2>1. DOMAIN act = Actors /\ act = [a \in Actors |-> act[a]]
    BY DEF Init, Actors
  <2> QED
    BY <1>2, <2>1
<1>4. Busy = {}
  BY <1>2 DEF Busy
<1> QED
  BY <1>1, <1>2, <1>3, <1>4, FS_EmptySet DEF TypeInv, Init

LEMMA TypesStay == TypeInv /\ [Next]_vars => TypeInv'
<1> SUFFICES ASSUME TypeInv, [Next]_vars PROVE TypeInv'
  OBVIOUS
<1>1. CASE UNCHANGED vars
  BY <1>1 DEF TypeInv, StoreTyped, NoSelf, Busy, vars, entry, analysis, ghosts
<1>2. CASE Next
  <2>0. /\ met' \in SUBSET Entries /\ left' \in SUBSET Entries /\ overtaken' \in SUBSET Entries
    BY <1>2, Observing DEF Observed, TypeInv
  <2>1. CASE \E e \in Entries : Expire(e)
    <3>1. act' = act /\ UNCHANGED entry
      BY <2>1 DEF Expire
    <3>2. StoreTyped'
      BY <1>2, <3>1, AnalysisTyped DEF StoreTyped, TypeInv, entry
    <3>3. NoSelf' /\ Busy' = Busy
      BY <3>1 DEF NoSelf, TypeInv, entry, Busy
    <3> QED
      BY <2>0, <3>1, <3>2, <3>3 DEF TypeInv
  <2>2. CASE \E a \in Actors, x \in ActType : Step(a, x)
    <3>1. PICK a \in Actors, x \in ActType : Step(a, x)
      BY <2>2
    <3>2. Turns(a, x)
      BY <3>1 DEF Step
    <3>3. /\ act' \in [Actors -> ActType] /\ \A b \in Actors : ActorFits(b, act'[b])
          /\ IsFiniteSet(Busy')
      BY <3>2, Turn
    <3>4. StoreTyped'
      BY <1>2, <3>1, AnalysisTyped, EntriesTyped, ReasonsTyped DEF StoreTyped
    <3>5. NoSelf'
      BY <3>1, EntriesTyped DEF NoSelf
    <3> QED
      BY <2>0, <3>3, <3>4, <3>5 DEF TypeInv
  <2> QED
    BY <1>2, <2>1, <2>2, Steps
<1> QED
  BY <1>1, <1>2

-----------------------------------------------------------------------------
(* Who writes where.                                                       *)

\* The reach of an actor, by what it remembers.
ReachOf(x) ==
    IF x.pc \notin Places THEN {}
    ELSE ({x.entry} \cup Peers(x.want)
          \cup {s[1] : s \in x.drop \cup x.unset \cup x.rows \cup {x.side}}) \ {NoEntry}

\* An entry that no two writers met on has one writer at most.
OneWriter == \A e \in Entries : e \notin met =>
                \A a, b \in Actors :
                    e \in ReachOf(act[a]) /\ e \in ReachOf(act[b]) => a = b

LEMMA ReachIs ==
    ASSUME NEW a, act[a] \in ActType
    PROVE  Reach(a) = ReachOf(act[a])
<1>1. act[a].pc \in Places \cup Resting \cup {"claimed", "calling", "existing", "failing"}
  BY DEF ActType
<1>2. act[a].pc \notin Places <=>
      act[a].pc \in {"idle", "claimed", "calling", "existing", "failing", "new", "over"}
  BY <1>1 DEF Places, Resting, AtASide
<1> QED
  BY <1>2 DEF Reach, ReachOf

\* Both ends of every side that an actor has in mind are in its reach.
LEMMA Reached ==
    ASSUME NEW x \in ActType, PlaceFits(x), SidesFit(x), CopyFits(x), x.pc \in Places
    PROVE  /\ x.entry \in ReachOf(x) /\ Peers(x.want) \subseteq ReachOf(x)
           /\ \A s \in x.drop \cup x.link \cup x.unset \cup x.rows :
                 s[1] \in ReachOf(x) /\ s[2] \in ReachOf(x)
           /\ x.pc \in AtASide => x.side[1] \in ReachOf(x) /\ x.side[2] \in ReachOf(x)
           /\ ReachOf(x) \subseteq Entries
<1>n. x.pc \notin Resting /\ NoEntry \notin Entries
  BY ConstantsAssumption DEF Places, AtASide, Resting, ConstantsAssumption
<1>1. x.entry \in Entries /\ x.entry # NoEntry /\ x.want \in Links
  BY <1>n DEF PlaceFits, ActType
<1>2. Peers(x.want) \subseteq Entries
  BY DEF Peers
<1>3. /\ x.entry \in ReachOf(x) /\ Peers(x.want) \subseteq ReachOf(x)
      /\ \A s \in x.drop \cup x.unset \cup x.rows : s \in Sides /\ s[1] \in ReachOf(x)
      /\ x.side[1] # NoEntry => x.side[1] \in ReachOf(x)
  <2>1. \A s \in x.drop \cup x.unset \cup x.rows : s \in Sides /\ s[1] \in Entries /\ s[1] # NoEntry
    BY <1>n, SideIs DEF ActType
  <2> QED
    BY <1>1, <1>2, <1>n, <2>1 DEF ReachOf
<1>4. \A s \in x.link : s \in Sides /\ s[1] \in ReachOf(x) /\ s[2] \in ReachOf(x)
  <2> SUFFICES ASSUME NEW s \in x.link PROVE s \in Sides /\ s[1] \in ReachOf(x) /\ s[2] \in ReachOf(x)
    OBVIOUS
  <2>1. s \in Sides /\ x.entry \in {s[1], s[2]} /\ LinkOf(x, s) # "none"
    BY DEF ActType, SidesFit
  <2>2. s[1] \in Entries /\ s[2] \in Entries
    BY <2>1, SideIs
  <2>3. Peer(x, s) \in Peers(x.want)
    BY <2>1, <2>2 DEF LinkOf, Peer, Peers
  <2> QED
    BY <2>1, <2>3, <1>3 DEF Peer
<1>5. ASSUME NEW S \in {x.drop, x.unset, x.rows}, NEW s \in S
      PROVE  s[2] \in ReachOf(x)
  <2>1. s \in Sides /\ x.entry \in {s[1], s[2]}
    BY <1>3 DEF SidesFit
  <2>2. CASE s[1] = x.entry /\ s[2] # x.entry
    <3>0. S = x.drop => x.op # "analyze"
      BY <2>2 DEF SidesFit
    <3>1. Turned(s) \in S
      BY <2>2, <3>0 DEF SidesFit, OwnFirst
    <3>2. Turned(s)[1] \in ReachOf(x)
      BY <3>1, <1>3
    <3> QED
      BY <3>2, <2>1, SideIs
  <2> QED
    BY <2>1, <2>2, <1>3
<1>6. x.pc \in AtASide => x.side[1] \in ReachOf(x) /\ x.side[2] \in ReachOf(x)
  <2> SUFFICES ASSUME x.pc \in AtASide PROVE x.side[1] \in ReachOf(x) /\ x.side[2] \in ReachOf(x)
    OBVIOUS
  <2>1. x.side \in Sides /\ x.entry \in {x.side[1], x.side[2]}
    BY DEF PlaceFits, ActType, CopyFits
  <2>2. x.side[1] \in Entries /\ x.side[1] \in ReachOf(x)
    BY <2>1, <1>3, <1>n, SideIs
  <2>3. CASE x.side[1] = x.entry
    <3>1. Turned(x.side) \in x.drop \cup x.link
      BY <2>3 DEF CopyFits
    <3>2. Turned(x.side)[1] \in ReachOf(x)
      BY <3>1, <1>3, <1>4
    <3> QED
      BY <2>2, <3>2, <2>1, SideIs
  <2> QED
    BY <2>1, <2>2, <2>3, <1>3
<1>7. ReachOf(x) \subseteq Entries
  <2>1. \A s \in x.drop \cup x.unset \cup x.rows \cup {x.side} : s[1] \in Entries \cup {NoEntry}
    BY <1>3, SideIs DEF ActType, NoSide
  <2> QED
    BY <1>1, <1>2, <2>1 DEF ReachOf
<1> QED
  BY <1>3, <1>4, <1>5, <1>6, <1>7

\* And what is in its reach is its entry, a peer it wants or one it has to write at.
LEMMA ReachedFrom ==
    ASSUME NEW x \in ActType, SidesFit(x), CopyFits(x), PlaceFits(x), NEW p \in ReachOf(x), p # x.entry
    PROVE  p \in Entries /\ x.pc \in Places
           /\ \/ x.want[p] # "none"
              \/ <<p, x.entry>> \in x.drop \cup x.unset \cup x.rows
              \/ x.pc \in AtASide /\ x.side = <<p, x.entry>>
<1>1. x.pc \in Places
  BY DEF ReachOf
<1>2. p \in Entries
  BY <1>1, Reached
<1>3. CASE p \in Peers(x.want)
  BY <1>1, <1>2, <1>3 DEF Peers
<1>4. CASE \E s \in x.drop \cup x.unset \cup x.rows : p = s[1]
  <2>1. PICK s \in x.drop \cup x.unset \cup x.rows : p = s[1]
    BY <1>4
  <2>2. s \in Sides /\ x.entry = s[2]
    BY <2>1 DEF ActType, SidesFit
  <2>3. s = <<p, x.entry>>
    BY <2>1, <2>2, SideIs
  <2> QED
    BY <1>1, <1>2, <2>1, <2>3
<1>5. CASE p = x.side[1]
  <2>1. x.side # NoSide
    BY <1>2, <1>5, ConstantsAssumption DEF NoSide, ConstantsAssumption
  <2>2. x.pc \in AtASide /\ x.side \in Sides
    BY <2>1 DEF PlaceFits, ActType
  <2>3. x.entry = x.side[2]
    BY <2>2, <1>5 DEF CopyFits
  <2>4. x.side = <<p, x.entry>>
    BY <2>2, <2>3, <1>5, SideIs
  <2> QED
    BY <1>1, <1>2, <2>2, <2>4
<1> QED
  BY <1>1, <1>3, <1>4, <1>5 DEF ReachOf

\* The steps of others leave an actor, and its reach, as they are.
LEMMA OthersStay ==
    ASSUME TypeInv, NEW a \in Actors, NEW x \in ActType, Step(a, x), NEW b \in Actors, b # a
    PROVE  act'[b] = act[b]
BY Turn DEF Step

LEMMA MineIs ==
    ASSUME TypeInv, NEW a \in Actors, NEW x \in ActType, Step(a, x)
    PROVE  act'[a] = x /\ PlaceFits(x) /\ SidesFit(x) /\ CopyFits(x)
BY Turn DEF Step, Turns, ActorFits

LEMMA MetThen ==
    ASSUME TypeInv', met' = met \cup {e \in Entries : Cardinality(Writers(e)') > 1}
    PROVE  OneWriter'
<1> SUFFICES ASSUME NEW e \in Entries, e \notin met', NEW a \in Actors, NEW b \in Actors,
                    e \in ReachOf(act[a])', e \in ReachOf(act[b])'
             PROVE  a = b
  BY DEF OneWriter
<1>1. act' \in [Actors -> ActType]
  BY DEF TypeInv
<1>2. \A c \in Actors : Reach(c)' = ReachOf(act[c])'
  <2> SUFFICES ASSUME NEW c \in Actors PROVE Reach(c)' = ReachOf(act[c])'
    OBVIOUS
  <2>1. act'[c].pc \in Places \cup Resting \cup {"claimed", "calling", "existing", "failing"}
    BY <1>1 DEF ActType
  <2>2. act'[c].pc \notin Places <=>
        act'[c].pc \in {"idle", "claimed", "calling", "existing", "failing", "new", "over"}
    BY <2>1 DEF Places, Resting, AtASide
  <2> QED
    BY <2>2 DEF Reach, ReachOf
<1>3. Writers(e)' \subseteq Busy'
  <2> SUFFICES ASSUME NEW c \in Writers(e)' PROVE c \in Busy'
    OBVIOUS
  <2>1. c \in Actors /\ e \in ReachOf(act[c])'
    BY <1>2 DEF Writers, Actors
  <2>2. act'[c].pc \in Places
    BY <2>1 DEF ReachOf
  <2> QED
    BY <2>1, <2>2 DEF Busy, Places, AtASide, Resting
<1>4. IsFiniteSet(Writers(e)')
  BY <1>3, FS_Subset DEF TypeInv
<1>5. a \in Writers(e)' /\ b \in Writers(e)'
  BY <1>2 DEF Writers, Actors
<1>6. ~(Cardinality(Writers(e)') > 1)
  OBVIOUS
<1> QED
  BY <1>4, <1>5, <1>6, CountedOne

LEMMA OneWriterStays == TypeInv /\ OneWriter /\ [Next]_vars => OneWriter'
<1> SUFFICES ASSUME TypeInv, OneWriter, [Next]_vars PROVE OneWriter'
  OBVIOUS
<1>1. TypeInv'
  BY TypesStay
<1>2. CASE Next
  BY <1>1, <1>2, Observing, MetThen DEF Observed
<1>3. CASE UNCHANGED vars
  BY <1>3 DEF OneWriter, vars, ghosts
<1> QED
  BY <1>2, <1>3

LEMMA OneWriterStarts == Init => OneWriter
<1> SUFFICES ASSUME Init, NEW a \in Actors PROVE ReachOf(act[a]) = {}
  BY DEF OneWriter
<1>1. act[a].pc \in {"idle", "new"}
  BY DEF Init, Actors, Ended
<1> QED
  BY <1>1 DEF ReachOf, Places, AtASide

\* A step leaves alone the entries out of the actor's reach.
LEMMA Untouched ==
    ASSUME TypeInv, NEW a \in Actors, NEW x \in ActType, Step(a, x),
           NEW e \in Entries, e \notin ReachOf(act[a])
    PROVE  /\ relations'[e] = relations[e] /\ aiRelations'[e] = aiRelations[e]
           /\ timeline'[e] = timeline[e] /\ reasons'[e] \subseteq reasons[e]
<1>0. act[a] \in ActType /\ PlaceFits(act[a]) /\ SidesFit(act[a]) /\ CopyFits(act[a])
  BY ActorIs DEF ActorFits
<1>t. /\ relations \in [Entries -> Links] /\ aiRelations \in [Entries -> Links]
      /\ reasons \in [Entries -> SUBSET Entries] /\ timeline \in [Entries -> Links]
  BY DEF TypeInv, StoreTyped
<1>r. act[a].pc \in Places =>
        /\ act[a].entry # e
        /\ \A s \in act[a].drop \cup act[a].link \cup act[a].unset \cup act[a].rows : s[1] # e
        /\ act[a].pc \in AtASide => act[a].side[1] # e
  BY <1>0, Reached
<1>1. CASE UNCHANGED entry
  BY <1>1 DEF entry
<1>2. CASE Quiet(a, x)
  BY <1>2 DEF Quiet
<1>3. CASE WritesRelations(a, x)
  <2>1. act[a].pc \in AtASide /\ act[a].pc \in Places
    BY <1>3 DEF WritesRelations, AtASide, Places
  <2> QED
    BY <1>3, <2>1, <1>r, <1>t DEF WritesRelations
<1>4. CASE WritesAIRelations(a, x)
  <2>1. act[a].pc \in AtASide /\ act[a].pc \in Places
    BY <1>4 DEF WritesAIRelations, AtASide, Places
  <2> QED
    BY <1>4, <2>1, <1>r, <1>t DEF WritesAIRelations
<1>5. CASE PassesReason(a, x)
  <2>1. act[a].pc \in AtASide /\ act[a].pc \in Places
    BY <1>5 DEF PassesReason, AtASide, Places
  <2> QED
    BY <1>5, <2>1, <1>r, <1>t DEF PassesReason
<1>6. CASE PassesRow(a, x)
  <2>1. act[a].pc \in Places
    BY <1>6 DEF PassesRow, Places
  <2>2. PICK s \in act[a].rows : \/ timeline' = [timeline EXCEPT ![s[1]][s[2]] = LinkOf(x, s)]
                                 \/ timeline' = timeline
    BY <1>6 DEF PassesRow
  <2>3. s[1] # e
    BY <2>1, <1>r
  <2> QED
    BY <1>6, <2>2, <2>3, <1>t DEF PassesRow
<1>7. CASE UnsetsAgain(a, x)
  <2>1. act[a].pc \in Places
    BY <1>7 DEF UnsetsAgain, Places
  <2>2. PICK s \in act[a].unset : reasons' = [reasons EXCEPT ![s[1]] = @ \ {s[2]}]
    BY <1>7 DEF UnsetsAgain
  <2> QED
    BY <1>7, <2>1, <2>2, <1>r, <1>t DEF UnsetsAgain
<1>8. CASE SetsRelations(a, x) /\ GoesOn(act[a], x)
  BY <1>8, <1>r, <1>t DEF SetsRelations, GoesOn
<1>9. CASE SetsAIRelations(a, x) /\ GoesOn(act[a], x)
  BY <1>9, <1>r, <1>t DEF SetsAIRelations, GoesOn
<1>10. CASE Ends(a, x)
  <2>1. act[a].pc \in Places
    BY <1>10 DEF Ends, Places
  <2> QED
    BY <1>10, <2>1, <1>r, <1>t DEF Ends
<1> QED
  BY <1>1, <1>2, <1>3, <1>4, <1>5, <1>6, <1>7, <1>8, <1>9, <1>10
     DEF Step, GivesUp, BeginsEdit, BeginsAnalysis, Proceeds, ReadsSide, TurnsToRows

-----------------------------------------------------------------------------
(* The inductive invariant.                                                *)

Clear(e) == e \notin met \cup left

\* x has written the side s, or never had to.
Done(x, s) == s \notin x.drop \cup x.link /\ ~(x.pc \in AtASide /\ x.side = s)

\* What was read of a side is still what there is; what was written is there.
SideHolds(x) ==
    x.pc \in AtASide /\ x.side[1] \notin met =>
        LET s == x.side IN
        /\ x.pc = "relations" => x.rels = [relations[s[1]] EXCEPT ![s[2]] = LinkOf(x, s)]
        /\ x.pc # "reason" => x.ais = [aiRelations[s[1]] EXCEPT ![s[2]] = FlagOf(x, s)]
        /\ x.pc # "relations" => relations[s[1]][s[2]] = LinkOf(x, s)
        /\ x.pc = "reason" => aiRelations[s[1]][s[2]] = "none"

\* An analyzer has replaced the arrays of its entry.
WholeHolds(x) ==
    x.op = "analyze" /\ x.entry \notin met =>
        /\ x.pc \in {"ais", "record"} => relations[x.entry] = x.want
        /\ x.pc = "record" => aiRelations[x.entry] = x.want

\* The entry had no links when its analysis read it, and has none but the
\* mirrored ones.
NewHolds(x) ==
    x.op = "analyze" /\ x.pc \in Places /\ x.entry \notin overtaken =>
        /\ x.drop = {} /\ (x.pc \in AtASide => LinkOf(x, x.side) # "none")
        /\ \A p \in Entries : x.want[p] # "none" /\ p \notin met /\ Done(x, <<p, x.entry>>)
              => relations[p][x.entry] = x.want[p] /\ aiRelations[p][x.entry] = x.want[p]
        /\ Clear(x.entry) =>
              /\ x.pc \notin {"ais", "record"} => relations[x.entry] = NoLinks
              /\ x.pc # "record" => aiRelations[x.entry] = NoLinks

\* The sides that x has written have the link that it wants.
LinksHold(x) ==
    x.pc \in Places =>
        \A p \in ReachOf(x) : p # x.entry /\ Clear(p) /\ Clear(x.entry) =>
            \A s \in Both(x.entry, p) :
                Done(x, s) /\ (x.op = "analyze" => s[2] = x.entry)
                => /\ relations[s[1]][s[2]] = x.want[p]
                   /\ x.op # "analyze" => aiRelations[s[1]][s[2]] = "none"

\* The timelines have the rows that x does not have to record any more.
RowsHold(x) ==
    x.pc \in Places =>
        \A p \in ReachOf(x) :
            p # x.entry /\ Clear(p) /\ Clear(x.entry) /\ {p, x.entry} \cap overtaken = {} =>
            \A s \in Both(x.entry, p) :
                IF x.op = "analyze" /\ x.pc # "record" THEN timeline[s[1]][s[2]] = "none"
                ELSE s \in x.rows \/ timeline[s[1]][s[2]] = x.want[p]

TaskHolds(x) ==
    SideHolds(x) /\ WholeHolds(x) /\ NewHolds(x) /\ LinksHold(x) /\ RowsHold(x)

\* A flag without its link, or a reason without its flag, is about to go.
FlagsHold(e) ==
    Clear(e) => \A p \in Entries :
        /\ \/ aiRelations[e][p] \in {"none", relations[e][p]}
           \/ \E a \in Actors : act[a].pc = "airelations" /\ act[a].side = <<e, p>>
           \/ \E a \in Actors : act[a].pc = "ais" /\ act[a].entry = e
        /\ \/ p \in reasons[e] => aiRelations[e][p] # "none"
           \/ \E a \in Actors : act[a].pc = "reason" /\ act[a].side = <<e, p>>
           \/ \E a \in Workers : act[a].pc = "record" /\ act[a].entry = e

\* An actor is at the link of e with p; an analyzer replaces, has still to
\* replace the array of e.
On(x, e, p) == x.pc \in Places /\ x.entry = e /\ p \in ReachOf(x)
Replaces(x, e) == x.pc \in Places /\ x.op = "analyze" /\ x.entry = e
Loosens(x, e) == Replaces(x, e) /\ x.pc \notin {"ais", "record"}
Analyzed(e) == \E a \in Actors : Replaces(act[a], e)
Loose(e) == \E a \in Actors : Loosens(act[a], e)

\* The two sides of a link that no actor is at.
PairHolds(e, p) ==
    /\ e # p /\ Clear(e) /\ Clear(p)
    /\ \A a \in Actors : ~On(act[a], e, p) /\ ~On(act[a], p, e)
    => /\ relations[e][p] = relations[p][e] \/ Loose(e) \/ Loose(p)
       /\ Analyzed(e) => relations[p][e] = "none" \/ Loose(p)
       /\ Analyzed(p) => relations[e][p] = "none" \/ Loose(e)
       /\ {e, p} \cap overtaken = {} =>
             /\ relations[e][p] = relations[p][e] /\ aiRelations[e][p] = aiRelations[p][e]
             /\ timeline[e][p] = relations[e][p] /\ timeline[p][e] = relations[p][e]

Holds == /\ \A a \in Actors : TaskHolds(act[a])
         /\ \A e \in Entries : FlagsHold(e)
         /\ \A e, p \in Entries : PairHolds(e, p)

IInv == TypeInv /\ OneWriter /\ Holds

\* The task of an actor is that of what it has become.
LEMMA TaskIs ==
    ASSUME NEW a \in Actors, NEW x, act'[a] = x, TaskHolds(x)'
    PROVE  TaskHolds(act[a])'
<1>0. SideHolds(x)' /\ WholeHolds(x)' /\ NewHolds(x)' /\ LinksHold(x)' /\ RowsHold(x)'
  BY DEF TaskHolds
<1>1. SideHolds(act[a])'
  BY <1>0 DEF SideHolds, LinkOf, FlagOf, Peer
<1>2. WholeHolds(act[a])'
  BY <1>0 DEF WholeHolds
<1>3. NewHolds(act[a])'
  BY <1>0 DEF NewHolds, Done, LinkOf, Peer
<1>4. LinksHold(act[a])'
  BY <1>0 DEF LinksHold, Done, ReachOf
<1>5. RowsHold(act[a])'
  BY <1>0 DEF RowsHold, ReachOf
<1> QED
  BY <1>1, <1>2, <1>3, <1>4, <1>5 DEF TaskHolds

\* An actor that another one's step does not concern.
LEMMA Bystander ==
    ASSUME TypeInv, OneWriter, Observed, NEW a \in Actors, NEW x \in ActType, Step(a, x),
           NEW b \in Actors, b # a, TaskHolds(act[b])
    PROVE  TaskHolds(act[b])'
<1>y. PICK y \in ActType : y = act[b] /\ ActorFits(b, y)
  BY ActorIs
<1>1. act'[b] = y
  BY <1>y, OthersStay
<1>2. PlaceFits(y) /\ SidesFit(y) /\ CopyFits(y)
  BY <1>y DEF ActorFits
<1>3. \A e \in Entries : /\ e \notin met' => e \notin met
                         /\ Clear(e)' => Clear(e)
                         /\ e \notin overtaken' => e \notin overtaken
  BY DEF Observed, Clear
<1>4. \A e \in ReachOf(y) : e \notin met =>
          /\ relations'[e] = relations[e] /\ aiRelations'[e] = aiRelations[e]
          /\ timeline'[e] = timeline[e]
  <2> SUFFICES ASSUME NEW e \in ReachOf(y), e \notin met
               PROVE  /\ relations'[e] = relations[e] /\ aiRelations'[e] = aiRelations[e]
                      /\ timeline'[e] = timeline[e]
    OBVIOUS
  <2>1. y.pc \in Places
    BY DEF ReachOf
  <2>2. e \in Entries
    BY <2>1, <1>2, Reached
  <2>3. e \notin ReachOf(act[a])
    BY <2>2, <1>y DEF OneWriter
  <2> QED
    BY <2>2, <2>3, Untouched
<1>r. y.pc \in Places =>
        /\ y.entry \in ReachOf(y) /\ ReachOf(y) \subseteq Entries /\ Peers(y.want) \subseteq ReachOf(y)
        /\ y.pc \in AtASide => y.side[1] \in ReachOf(y) /\ y.side[2] \in ReachOf(y)
  BY <1>2, Reached
<1>p. AtASide \subseteq Places /\ {"ais", "record"} \subseteq Places
  BY DEF Places
<1>5. SideHolds(y)'
  <2>1. SideHolds(y)
    BY <1>y DEF TaskHolds
  <2>2. y.pc \in AtASide => y.side[1] \in ReachOf(y) /\ y.side[1] \in Entries
    BY <1>r, <1>p
  <2> QED
    BY <2>1, <2>2, <1>3, <1>4 DEF SideHolds
<1>6. WholeHolds(y)'
  <2>1. WholeHolds(y)
    BY <1>y DEF TaskHolds
  <2>2. y.pc \in {"ais", "record"} => y.entry \in ReachOf(y) /\ y.entry \in Entries
    BY <1>r, <1>p
  <2>3. y.pc \in {"ais", "record"} => y.pc \in Places
    BY <1>p
  <2> QED
    BY <2>1, <2>2, <2>3, <1>3, <1>4 DEF WholeHolds
<1>7. NewHolds(y)'
  <2>1. NewHolds(y)
    BY <1>y DEF TaskHolds
  <2> SUFFICES ASSUME y.op = "analyze", y.pc \in Places, y.entry \notin overtaken'
               PROVE  /\ y.drop = {} /\ (y.pc \in AtASide => LinkOf(y, y.side) # "none")
                      /\ \A p \in Entries : y.want[p] # "none" /\ p \notin met' /\ Done(y, <<p, y.entry>>)
                            => relations'[p][y.entry] = y.want[p] /\ aiRelations'[p][y.entry] = y.want[p]
                      /\ Clear(y.entry)' =>
                            /\ y.pc \notin {"ais", "record"} => relations'[y.entry] = NoLinks
                            /\ y.pc # "record" => aiRelations'[y.entry] = NoLinks
    BY DEF NewHolds, Done, LinkOf, Peer
  <2>2. y.entry \in ReachOf(y) /\ y.entry \in Entries
    BY <1>r
  <2>3. y.drop = {} /\ (y.pc \in AtASide => LinkOf(y, y.side) # "none")
    BY <2>1, <2>2, <1>3 DEF NewHolds
  <2>4. ASSUME NEW p \in Entries, y.want[p] # "none", p \notin met', Done(y, <<p, y.entry>>)
        PROVE  relations'[p][y.entry] = y.want[p] /\ aiRelations'[p][y.entry] = y.want[p]
    <3>1. p \in ReachOf(y)
      BY <2>4, <1>r DEF Peers
    <3> QED
      BY <2>1, <2>2, <2>4, <3>1, <1>3, <1>4 DEF NewHolds
  <2>5. ASSUME Clear(y.entry)'
        PROVE  /\ y.pc \notin {"ais", "record"} => relations'[y.entry] = NoLinks
               /\ y.pc # "record" => aiRelations'[y.entry] = NoLinks
    <3>1. Clear(y.entry) /\ y.entry \notin met
      BY <2>2, <2>5, <1>3 DEF Clear
    <3> QED
      BY <2>1, <2>2, <3>1, <1>3, <1>4 DEF NewHolds
  <2> QED
    BY <2>3, <2>4, <2>5
<1>8. LinksHold(y)'
  <2>1. LinksHold(y)
    BY <1>y DEF TaskHolds
  <2> SUFFICES ASSUME y.pc \in Places, NEW p \in ReachOf(y), p # y.entry, Clear(p)', Clear(y.entry)',
                      NEW s \in Both(y.entry, p), Done(y, s), y.op = "analyze" => s[2] = y.entry
               PROVE  /\ relations'[s[1]][s[2]] = y.want[p]
                      /\ y.op # "analyze" => aiRelations'[s[1]][s[2]] = "none"
    BY DEF LinksHold, Done, ReachOf, Both
  <2>2. p \in Entries /\ y.entry \in Entries /\ y.entry \in ReachOf(y)
    BY <1>r
  <2>3. Clear(p) /\ Clear(y.entry) /\ p \notin met /\ y.entry \notin met
    BY <2>2, <1>3 DEF Clear
  <2>4. s[1] \in {p, y.entry}
    BY DEF Both
  <2>5. relations'[s[1]] = relations[s[1]] /\ aiRelations'[s[1]] = aiRelations[s[1]]
    BY <2>2, <2>3, <2>4, <1>4
  <2> QED
    BY <2>1, <2>3, <2>5 DEF LinksHold
<1>9. RowsHold(y)'
  <2>1. RowsHold(y)
    BY <1>y DEF TaskHolds
  <2> SUFFICES ASSUME y.pc \in Places, NEW p \in ReachOf(y), p # y.entry, Clear(p)', Clear(y.entry)',
                      {p, y.entry} \cap overtaken' = {}, NEW s \in Both(y.entry, p)
               PROVE  IF y.op = "analyze" /\ y.pc # "record" THEN timeline'[s[1]][s[2]] = "none"
                      ELSE s \in y.rows \/ timeline'[s[1]][s[2]] = y.want[p]
    BY DEF RowsHold, ReachOf, Both
  <2>2. p \in Entries /\ y.entry \in Entries /\ y.entry \in ReachOf(y)
    BY <1>r
  <2>3. Clear(p) /\ Clear(y.entry) /\ p \notin met /\ y.entry \notin met
    BY <2>2, <1>3 DEF Clear
  <2>4. s[1] \in {p, y.entry}
    BY DEF Both
  <2>5. timeline'[s[1]] = timeline[s[1]]
    BY <2>2, <2>3, <2>4, <1>4
  <2>6. {p, y.entry} \cap overtaken = {}
    BY <2>2, <1>3
  <2> QED
    BY <2>1, <2>3, <2>5, <2>6 DEF RowsHold
<1>10. TaskHolds(y)'
  BY <1>5, <1>6, <1>7, <1>8, <1>9 DEF TaskHolds
<1> QED
  BY <1>1, <1>10, TaskIs

-----------------------------------------------------------------------------
(* An actor's own steps.                                                   *)

LEMMA GhostsGrow ==
    ASSUME Observed
    PROVE  \A e \in Entries : /\ e \notin met' => e \notin met
                              /\ Clear(e)' => Clear(e)
                              /\ e \notin overtaken' => e \notin overtaken
BY DEF Observed, Clear

\* The link and the flag of a side do not change in the course of a task.
LEMMA SameTask ==
    ASSUME NEW y, NEW x, GoesOn(y, x)
    PROVE  \A s : LinkOf(x, s) = LinkOf(y, s) /\ FlagOf(x, s) = FlagOf(y, s)
BY DEF GoesOn, LinkOf, FlagOf, Peer

LEMMA OwnSide ==
    ASSUME TypeInv, OneWriter, Observed, NEW a \in Actors, NEW x \in ActType, Step(a, x),
           TaskHolds(act[a])
    PROVE  SideHolds(x)'
<1>y. PICK y \in ActType : y = act[a] /\ ActorFits(a, y)
  BY ActorIs
<1>1. SideHolds(y) /\ CopyFits(y)
  BY <1>y DEF TaskHolds, ActorFits
<1>t. relations \in [Entries -> Links] /\ aiRelations \in [Entries -> Links]
  BY DEF TypeInv, StoreTyped
<1>2. CASE x.pc \notin AtASide
  BY <1>2 DEF SideHolds
<1> SUFFICES ASSUME x.pc \in AtASide, x.side[1] \notin met'
             PROVE  LET s == x.side IN
                    /\ x.pc = "relations" => x.rels = [relations'[s[1]] EXCEPT ![s[2]] = LinkOf(x, s)]
                    /\ x.pc # "reason" => x.ais = [aiRelations'[s[1]] EXCEPT ![s[2]] = FlagOf(x, s)]
                    /\ x.pc # "relations" => relations'[s[1]][s[2]] = LinkOf(x, s)
                    /\ x.pc = "reason" => aiRelations'[s[1]][s[2]] = "none"
  BY <1>2 DEF SideHolds, LinkOf, FlagOf, Peer
<1>m. x.side[1] \notin met
  BY DEF Observed
<1>3. Proceeds(a, x)
  BY DEF Step, Quiet, GivesUp, BeginsEdit, BeginsAnalysis, Ends, AtASide, Places
<1>4. \A s : LinkOf(x, s) = LinkOf(y, s) /\ FlagOf(x, s) = FlagOf(y, s)
  BY <1>3, <1>y, SameTask DEF Proceeds
<1>5. CASE ReadsSide(a, x)
  <2>1. PICK s : HasRead(x, s, relations[s[1]], aiRelations[s[1]])
    BY <1>5 DEF ReadsSide, AtASide
  <2>2. relations' = relations /\ aiRelations' = aiRelations
    BY <1>5 DEF ReadsSide, entry
  <2> QED
    BY <2>1, <2>2 DEF HasRead
<1>6. CASE WritesRelations(a, x)
  <2>0. act[a].pc \in AtASide
    BY <1>6 DEF WritesRelations, AtASide
  <2>1. /\ y.side[1] \in Entries /\ y.side[2] \in Entries /\ y.pc = "relations"
        /\ x.pc = "airelations" /\ x.side = y.side /\ x.ais = y.ais
        /\ relations' = [relations EXCEPT ![y.side[1]] = y.rels] /\ aiRelations' = aiRelations
    BY <1>6, <1>y, <2>0, SideAt DEF WritesRelations
  <2>2. /\ y.rels = [relations[y.side[1]] EXCEPT ![y.side[2]] = LinkOf(y, y.side)]
        /\ y.ais = [aiRelations[y.side[1]] EXCEPT ![y.side[2]] = FlagOf(y, y.side)]
    BY <1>1, <1>m, <2>1 DEF SideHolds, AtASide
  <2>3. relations[y.side[1]] \in Links /\ relations'[y.side[1]] = y.rels
    BY <1>t, <2>1
  <2>4. relations'[y.side[1]][y.side[2]] = LinkOf(y, y.side)
    BY <2>1, <2>2, <2>3 DEF Links
  <2> QED
    BY <2>1, <2>2, <2>4, <1>4
<1>7. CASE WritesAIRelations(a, x)
  <2>0. act[a].pc \in AtASide
    BY <1>7 DEF WritesAIRelations, AtASide
  <2>1. /\ y.side[1] \in Entries /\ y.side[2] \in Entries /\ y.pc = "airelations"
        /\ x.pc = "reason" /\ x.side = y.side /\ FlagOf(y, y.side) = "none"
        /\ aiRelations' = [aiRelations EXCEPT ![y.side[1]] = y.ais] /\ relations' = relations
    BY <1>7, <1>y, <2>0, SideAt DEF WritesAIRelations, AtASide
  <2>2. relations[y.side[1]][y.side[2]] = LinkOf(y, y.side)
    BY <1>1, <1>m, <2>1 DEF SideHolds, AtASide
  <2>3. aiRelations'[y.side[1]] = y.ais /\ y.ais[y.side[2]] = "none"
    BY <1>t, <1>1, <2>1 DEF CopyFits, AtASide
  <2> QED
    BY <2>1, <2>2, <2>3, <1>4
<1> QED
  BY <1>3, <1>5, <1>6, <1>7
     DEF Proceeds, PassesReason, PassesRow, TurnsToRows, UnsetsAgain, SetsRelations,
         SetsAIRelations, AtASide

LEMMA OwnWhole ==
    ASSUME TypeInv, OneWriter, Observed, NEW a \in Actors, NEW x \in ActType, Step(a, x),
           TaskHolds(act[a])
    PROVE  WholeHolds(x)'
<1>y. PICK y \in ActType : y = act[a] /\ ActorFits(a, y)
  BY ActorIs
<1>1. WholeHolds(y)
  BY <1>y DEF TaskHolds
<1>t. relations \in [Entries -> Links] /\ aiRelations \in [Entries -> Links]
  BY DEF TypeInv, StoreTyped
<1> SUFFICES ASSUME x.op = "analyze", x.entry \notin met', x.pc \in {"ais", "record"}
             PROVE  /\ relations'[x.entry] = x.want
                    /\ x.pc = "record" => aiRelations'[x.entry] = x.want
  BY DEF WholeHolds
<1>m. x.entry \notin met
  BY DEF Observed
<1>3. Proceeds(a, x)
  BY DEF Step, Quiet, GivesUp, BeginsEdit, BeginsAnalysis, Ends, AtASide, Places
<1>4. GoesOn(y, x) /\ y.op = "analyze" /\ y.entry = x.entry /\ y.want = x.want /\ y.entry \in Entries
  BY <1>3, <1>y, WriterIs DEF Proceeds, GoesOn
<1>5. a \notin Requests
  BY <1>4, <1>y DEF ActorFits, RequestFits
<1>6. CASE SetsRelations(a, x)
  BY <1>6, <1>4, <1>t DEF SetsRelations
<1>7. CASE SetsAIRelations(a, x)
  <2>1. relations[x.entry] = x.want
    BY <1>7, <1>y, <1>1, <1>4, <1>m DEF SetsAIRelations, WholeHolds
  <2> QED
    BY <1>7, <2>1, <1>4, <1>t DEF SetsAIRelations
<1>8. CASE PassesRow(a, x)
  BY <1>8, <1>y, <1>1, <1>4, <1>m DEF PassesRow, WholeHolds
<1> QED
  BY <1>3, <1>5, <1>6, <1>7, <1>8
     DEF Proceeds, ReadsSide, HasRead, WritesRelations, WritesAIRelations, PassesReason,
         TurnsToRows, UnsetsAgain

\* While x is at its task, nobody else is where it writes.
LEMMA Alone ==
    ASSUME TypeInv, OneWriter', NEW a \in Actors, NEW x \in ActType, Step(a, x),
           NEW e \in ReachOf(x), e \in Entries, e \notin met',
           NEW b \in Actors, b # a
    PROVE  e \notin ReachOf(act[b])
<1>1. act'[b] = act[b] /\ act'[a] = x
  BY OthersStay, MineIs
<1> QED
  BY <1>1 DEF OneWriter, ReachOf

LEMMA AloneBefore ==
    ASSUME OneWriter, NEW a \in Actors, NEW e \in ReachOf(act[a]), e \in Entries, e \notin met,
           NEW b \in Actors, b # a
    PROVE  e \notin ReachOf(act[b])
BY DEF OneWriter

\* What an exception of FlagsHold, or who is at a link, says of the reach.
LEMMA ReachedAs ==
    ASSUME TypeInv, NEW b \in Actors, NEW e \in Entries
    PROVE  /\ act[b].pc \in AtASide /\ act[b].side[1] = e => e \in ReachOf(act[b])
           /\ act[b].pc \in Places /\ act[b].entry = e => e \in ReachOf(act[b])
<1>1. act[b] \in ActType /\ PlaceFits(act[b]) /\ SidesFit(act[b]) /\ CopyFits(act[b])
  BY ActorIs DEF ActorFits
<1>2. act[b].pc \in AtASide => act[b].pc \in Places
  BY DEF Places
<1> QED
  BY <1>1, <1>2, Reached

\* A side of a link that x has done, now or before this step.
LEMMA DoneBefore ==
    ASSUME TypeInv, NEW a \in Actors, NEW x \in ActType, Step(a, x), Proceeds(a, x),
           NEW s, Done(x, s), ~Done(act[a], s)
    PROVE  \/ /\ WritesAIRelations(a, x) /\ x.pc = "sides" /\ act[a].side = s
           \/ PassesReason(a, x) /\ act[a].side = s
           \/ ReadsSide(a, x) /\ s \in act[a].drop
              /\ relations[s[1]][s[2]] = "none" /\ aiRelations[s[1]][s[2]] = "none"
<1>y. PICK y \in ActType : y = act[a] /\ ActorFits(a, y)
  BY ActorIs
<1>1. PlaceFits(y) /\ PlaceFits(x) /\ GoesOn(y, x)
  BY <1>y, MineIs DEF ActorFits, Proceeds
<1>2. CASE ReadsSide(a, x)
  <2>1. PICK t \in y.drop \cup y.link :
          /\ x.drop = y.drop \ {t} /\ x.link = y.link \ {t}
          /\ \/ HasRead(x, t, relations[t[1]], aiRelations[t[1]])
             \/ /\ x.pc = "sides" /\ x.side = NoSide /\ t \in y.drop
                /\ relations[t[1]][t[2]] = "none" /\ aiRelations[t[1]][t[2]] = "none"
    BY <1>2, <1>y DEF ReadsSide
  <2>2. y.pc \notin AtASide
    BY <1>2, <1>y DEF ReadsSide, AtASide
  <2>3. s \in y.drop \cup y.link
    BY <2>2, <1>y DEF Done
  <2>4. s = t
    BY <2>1, <2>3 DEF Done
  <2>5. ~HasRead(x, t, relations[t[1]], aiRelations[t[1]])
    BY <2>4 DEF HasRead, Done, AtASide
  <2> QED
    BY <1>2, <1>y, <2>1, <2>4, <2>5
<1>3. CASE WritesRelations(a, x)
  <2>1. x.drop = y.drop /\ x.link = y.link /\ x.side = y.side /\ x.pc \in AtASide /\ y.pc \in AtASide
    BY <1>1, <1>3, <1>y DEF WritesRelations, GoesOn, PlaceFits, AtASide
  <2> QED
    BY <1>y, <2>1 DEF Done
<1>4. CASE WritesAIRelations(a, x)
  <2>1. x.drop = y.drop /\ x.link = y.link /\ y.pc \in AtASide
    BY <1>1, <1>4, <1>y DEF WritesAIRelations, GoesOn, PlaceFits, AtASide
  <2>2. y.side = s
    BY <1>y, <2>1 DEF Done
  <2>3. x.pc = "sides"
    BY <1>4, <1>y, <2>2 DEF Done, WritesAIRelations, AtASide
  <2> QED
    BY <1>4, <1>y, <2>2, <2>3
<1>5. CASE PassesReason(a, x)
  <2>1. x.drop = y.drop /\ x.link = y.link /\ y.pc \in AtASide
    BY <1>1, <1>5, <1>y DEF PassesReason, GoesOn, PlaceFits, AtASide
  <2>2. y.side = s
    BY <1>y, <2>1 DEF Done
  <2> QED
    BY <1>5, <1>y, <2>2
<1>6. CASE PassesRow(a, x) \/ TurnsToRows(a, x) \/ SetsRelations(a, x) \/ SetsAIRelations(a, x)
  <2>1. y.drop = {} /\ y.link = {} /\ y.pc \notin AtASide
    BY <1>1, <1>6, <1>y DEF PassesRow, TurnsToRows, SetsRelations, SetsAIRelations, PlaceFits, AtASide
  <2> QED
    BY <1>y, <2>1 DEF Done
<1>7. CASE UnsetsAgain(a, x)
  <2>1. y.drop = {} /\ y.link = x.link /\ y.pc \notin AtASide
    BY <1>7, <1>y DEF UnsetsAgain, AtASide
  <2> QED
    BY <1>y, <2>1 DEF Done
<1> QED
  BY <1>2, <1>3, <1>4, <1>5, <1>6, <1>7 DEF Proceeds

\* The writes of a writer, cell by cell: WriteRelations and WriteAIRelations change
\* no more than the side that was read.
LEMMA Cells ==
    ASSUME TypeInv, Observed, NEW a \in Actors, NEW x \in ActType, Step(a, x), Proceeds(a, x),
           SideHolds(act[a]), NEW e \in Entries, NEW p \in Entries, e \notin met'
    PROVE  /\ \/ relations'[e][p] = relations[e][p]
              \/ WritesRelations(a, x) /\ act[a].side = <<e, p>>
                 /\ relations'[e][p] = LinkOf(x, <<e, p>>)
              \/ SetsRelations(a, x) /\ e = x.entry /\ relations'[e][p] = x.want[p]
           /\ \/ aiRelations'[e][p] = aiRelations[e][p]
              \/ WritesAIRelations(a, x) /\ act[a].side = <<e, p>>
                 /\ aiRelations'[e][p] = FlagOf(x, <<e, p>>)
              \/ SetsAIRelations(a, x) /\ e = x.entry /\ aiRelations'[e][p] = x.want[p]
<1>y. PICK y \in ActType : y = act[a] /\ ActorFits(a, y)
  BY ActorIs
<1>0. SideHolds(y) /\ GoesOn(y, x) /\ e \notin met
  BY <1>y DEF Proceeds, Observed
<1>l. \A s : LinkOf(x, s) = LinkOf(y, s) /\ FlagOf(x, s) = FlagOf(y, s)
  BY <1>0, SameTask
<1>t. relations \in [Entries -> Links] /\ aiRelations \in [Entries -> Links]
  BY DEF TypeInv, StoreTyped
<1>1. CASE WritesRelations(a, x)
  <2>1. y.pc = "relations" /\ y.pc \in AtASide
    BY <1>1, <1>y DEF WritesRelations, AtASide
  <2>2. y.side \in Sides /\ y.side[1] \in Entries /\ y.side[2] \in Entries /\ y.rels \in Links
    BY <2>1, <1>y, SideAt
  <2>3. relations' = [relations EXCEPT ![y.side[1]] = y.rels] /\ aiRelations' = aiRelations
    BY <1>1, <1>y DEF WritesRelations
  <2>4. CASE y.side[1] # e
    BY <2>2, <2>3, <2>4, <1>t
  <2>5. CASE y.side[1] = e
    <3>1. y.rels = [relations[e] EXCEPT ![y.side[2]] = LinkOf(y, y.side)]
      BY <1>0, <2>1, <2>5 DEF SideHolds
    <3>2. relations'[e] = y.rels /\ relations[e] \in Links
      BY <1>t, <2>2, <2>3, <2>5
    <3>3. CASE y.side[2] # p
      BY <2>2, <2>3, <3>1, <3>2, <3>3 DEF Links
    <3>4. CASE y.side[2] = p
      <4>1. y.side = <<e, p>>
        BY <2>2, <2>5, <3>4, SideIs
      <4>2. relations'[e][p] = LinkOf(y, y.side)
        BY <3>1, <3>2, <3>4 DEF Links
      <4> QED
        BY <1>1, <1>y, <1>l, <2>3, <4>1, <4>2
    <3> QED
      BY <3>3, <3>4
  <2> QED
    BY <2>4, <2>5
<1>2. CASE WritesAIRelations(a, x)
  <2>1. y.pc = "airelations" /\ y.pc \in AtASide
    BY <1>2, <1>y DEF WritesAIRelations, AtASide
  <2>2. y.side \in Sides /\ y.side[1] \in Entries /\ y.side[2] \in Entries /\ y.ais \in Links
    BY <2>1, <1>y, SideAt
  <2>3. aiRelations' = [aiRelations EXCEPT ![y.side[1]] = y.ais] /\ relations' = relations
    BY <1>2, <1>y DEF WritesAIRelations
  <2>4. CASE y.side[1] # e
    BY <2>2, <2>3, <2>4, <1>t
  <2>5. CASE y.side[1] = e
    <3>1. y.ais = [aiRelations[e] EXCEPT ![y.side[2]] = FlagOf(y, y.side)]
      BY <1>0, <2>1, <2>5 DEF SideHolds
    <3>2. aiRelations'[e] = y.ais /\ aiRelations[e] \in Links
      BY <1>t, <2>2, <2>3, <2>5
    <3>3. CASE y.side[2] # p
      BY <2>2, <2>3, <3>1, <3>2, <3>3 DEF Links
    <3>4. CASE y.side[2] = p
      <4>1. y.side = <<e, p>>
        BY <2>2, <2>5, <3>4, SideIs
      <4>2. aiRelations'[e][p] = FlagOf(y, y.side)
        BY <3>1, <3>2, <3>4 DEF Links
      <4> QED
        BY <1>2, <1>y, <1>l, <2>3, <4>1, <4>2
    <3> QED
      BY <3>3, <3>4
  <2> QED
    BY <2>4, <2>5
<1>3. CASE SetsRelations(a, x)
  <2>1. x.entry \in Entries /\ relations' = [relations EXCEPT ![x.entry] = x.want] /\ aiRelations' = aiRelations
    BY <1>3, <1>0, <1>y, WriterIs DEF SetsRelations, GoesOn
  <2> QED
    BY <1>3, <2>1, <1>t
<1>4. CASE SetsAIRelations(a, x)
  <2>1. x.entry \in Entries /\ aiRelations' = [aiRelations EXCEPT ![x.entry] = x.want] /\ relations' = relations
    BY <1>4, <1>0, <1>y, WriterIs DEF SetsAIRelations, GoesOn
  <2> QED
    BY <1>4, <2>1, <1>t
<1>5. CASE relations' = relations /\ aiRelations' = aiRelations
  BY <1>5
<1> QED
  BY <1>1, <1>2, <1>3, <1>4, <1>5
     DEF Proceeds, ReadsSide, PassesReason, PassesRow, TurnsToRows, UnsetsAgain, entry

\* The reach of a writer that goes on gets no larger.
LEMMA ReachShrinks ==
    ASSUME TypeInv, NEW a \in Actors, NEW x \in ActType, Step(a, x), Proceeds(a, x)
    PROVE  ReachOf(x) \subseteq ReachOf(act[a])
<1>y. PICK y \in ActType : y = act[a] /\ ActorFits(a, y)
  BY ActorIs
<1>1. PlaceFits(y) /\ SidesFit(y) /\ CopyFits(y) /\ GoesOn(y, x) /\ y.pc \in Places
  BY <1>y DEF ActorFits, Proceeds, GoesOn
<1>r. /\ y.entry \in ReachOf(y) /\ Peers(y.want) \subseteq ReachOf(y)
      /\ \A s \in y.drop \cup y.link \cup y.unset \cup y.rows :
            s[1] \in ReachOf(y) /\ s[2] \in ReachOf(y)
      /\ y.pc \in AtASide => y.side[1] \in ReachOf(y)
  BY <1>1, Reached
<1>2. x.entry = y.entry /\ x.want = y.want /\ x.unset \subseteq y.unset
  BY <1>1 DEF GoesOn
<1>3. PlaceFits(x)
  BY MineIs
<1>4. x.drop \subseteq y.drop
  BY <1>1, <1>3, <1>y
     DEF Proceeds, GoesOn, ReadsSide, WritesRelations, WritesAIRelations, PassesReason, PassesRow,
         TurnsToRows, UnsetsAgain, SetsRelations, SetsAIRelations, PlaceFits, AtASide
<1>5. x.rows \subseteq y.rows \cup AllRows(y)
  BY <1>y DEF Proceeds, ReadsSide, WritesRelations, WritesAIRelations, PassesReason, PassesRow,
         TurnsToRows, UnsetsAgain, SetsRelations, SetsAIRelations
<1>6. x.side = NoSide \/ x.side \in y.drop \cup y.link \/ (y.pc \in AtASide /\ x.side = y.side)
  BY <1>y DEF Proceeds, ReadsSide, HasRead, WritesRelations, WritesAIRelations, PassesReason,
         PassesRow, TurnsToRows, UnsetsAgain, SetsRelations, SetsAIRelations, AtASide
<1>7. \A s \in AllRows(y) : s[1] \in ReachOf(y)
  BY <1>r DEF AllRows
<1>8. \A s \in x.drop \cup x.unset \cup x.rows : s[1] \in ReachOf(y)
  BY <1>2, <1>4, <1>5, <1>7, <1>r
<1>9. x.side[1] = NoEntry \/ x.side[1] \in ReachOf(y)
  BY <1>6, <1>r DEF NoSide
<1> QED
  BY <1>2, <1>8, <1>9, <1>r, <1>y DEF ReachOf

\* The invariant of an actor's task, when it begins and when it goes on.
LEMMA BeginsNew ==
    ASSUME TypeInv, OneWriter', Observed, NEW a \in Actors, NEW x \in ActType, Step(a, x),
           BeginsAnalysis(a, x), \A e \in Entries : FlagsHold(e)
    PROVE  NewHolds(x)'
<1>m. PlaceFits(x) /\ SidesFit(x) /\ CopyFits(x)
  BY MineIs
<1>1. x.entry \in Entries /\ x.pc \in Places /\ x.pc \notin AtASide \cup {"ais", "record"}
  BY DEF BeginsAnalysis, Places, AtASide
<1>u. relations' = relations /\ aiRelations' = aiRelations
  BY DEF BeginsAnalysis, entry
<1>t. relations[x.entry] \in Links /\ aiRelations[x.entry] \in Links
  BY <1>1 DEF TypeInv, StoreTyped
<1> SUFFICES ASSUME x.entry \notin overtaken'
             PROVE  /\ x.drop = {}
                    /\ \A p \in Entries : x.want[p] # "none" => ~Done(x, <<p, x.entry>>)
                    /\ Clear(x.entry)' => /\ relations[x.entry] = NoLinks
                                          /\ aiRelations[x.entry] = NoLinks
  BY <1>1, <1>u DEF NewHolds, Done
<1>2. Peers(relations[x.entry]) = {}
  BY DEF BeginsAnalysis
<1>3. \A p \in Entries : relations[x.entry][p] = "none"
  BY <1>2 DEF Peers
<1>4. x.drop = {}
  BY <1>2 DEF BeginsAnalysis
<1>5. ASSUME NEW p \in Entries, x.want[p] # "none"
      PROVE  ~Done(x, <<p, x.entry>>)
  <2>1. <<p, x.entry>> \in x.link
    BY <1>3, <1>5 DEF BeginsAnalysis, Peers
  <2> QED
    BY <2>1 DEF Done
<1>6. relations[x.entry] = NoLinks
  BY <1>3, <1>t DEF Links, NoLinks
<1>7. ASSUME Clear(x.entry)'
      PROVE  aiRelations[x.entry] = NoLinks
  <2>1. Clear(x.entry) /\ x.entry \notin met'
    BY <1>7, <1>1, GhostsGrow DEF Clear
  <2>2. x.entry \in ReachOf(x)
    BY <1>1, <1>m, Reached
  <2>3. act[a].pc = "existing"
    BY DEF BeginsAnalysis
  <2>4. \A b \in Actors : ~(act[b].pc = "ais" /\ act[b].entry = x.entry)
    <3> SUFFICES ASSUME NEW b \in Actors, act[b].pc = "ais", act[b].entry = x.entry PROVE FALSE
      OBVIOUS
    <3>1. b # a /\ act[b].pc \in Places
      BY <2>3 DEF Places
    <3> QED
      BY <3>1, <2>1, <2>2, <1>1, Alone, ReachedAs
  <2>5. \A p \in Entries, b \in Actors : ~(act[b].pc = "airelations" /\ act[b].side = <<x.entry, p>>)
    <3> SUFFICES ASSUME NEW p \in Entries, NEW b \in Actors, act[b].pc = "airelations",
                        act[b].side = <<x.entry, p>>
                 PROVE  FALSE
      OBVIOUS
    <3>1. b # a /\ act[b].pc \in AtASide /\ act[b].side[1] = x.entry
      BY <2>3 DEF AtASide
    <3> QED
      BY <3>1, <2>1, <2>2, <1>1, Alone, ReachedAs
  <2>6. ASSUME NEW p \in Entries
        PROVE  aiRelations[x.entry][p] = "none"
    <3>1. FlagsHold(x.entry)
      BY <1>1
    <3>2. \/ aiRelations[x.entry][p] \in {"none", relations[x.entry][p]}
          \/ \E b \in Actors : act[b].pc = "airelations" /\ act[b].side = <<x.entry, p>>
          \/ \E b \in Actors : act[b].pc = "ais" /\ act[b].entry = x.entry
      BY <2>1, <3>1 DEF FlagsHold
    <3> QED
      BY <3>2, <1>3, <2>4, <2>5
  <2> QED
    BY <2>6, <1>t DEF Links, NoLinks
<1> QED
  BY <1>4, <1>5, <1>6, <1>7

LEMMA OwnNew ==
    ASSUME TypeInv, OneWriter, OneWriter', Observed, NEW a \in Actors, NEW x \in ActType, Step(a, x),
           TaskHolds(act[a]), \A e \in Entries : FlagsHold(e)
    PROVE  NewHolds(x)'
<1>y. PICK y \in ActType : y = act[a] /\ ActorFits(a, y)
  BY ActorIs
<1>m. PlaceFits(x) /\ SidesFit(x) /\ CopyFits(x) /\ PlaceFits(y) /\ SidesFit(y) /\ CopyFits(y)
  BY <1>y, MineIs DEF ActorFits
<1>1. CASE BeginsAnalysis(a, x)
  BY <1>1, BeginsNew
<1>2. CASE BeginsEdit(a, x)
  <2>1. x.op # "analyze"
    BY <1>2 DEF BeginsEdit, Step, Turns, ActorFits, RequestFits
  <2> QED
    BY <2>1 DEF NewHolds
<1>3. CASE x.pc \notin Places
  BY <1>3 DEF NewHolds
<1>4. CASE Proceeds(a, x) /\ x.op = "analyze" /\ x.entry \notin overtaken'
  <2>1. GoesOn(y, x) /\ y.op = "analyze" /\ x.entry = y.entry /\ x.want = y.want /\ y.pc \in Places
    BY <1>4, <1>y DEF Proceeds, GoesOn
  <2>2. y.entry \in Entries /\ y.want \in Links /\ y.want[y.entry] = "none"
    BY <2>1, <1>y, WriterIs
  <2>3. y.entry \notin overtaken
    BY <1>4, <2>1, <2>2, GhostsGrow
  <2>4. NewHolds(y) /\ SideHolds(y) /\ WholeHolds(y)
    BY <1>y DEF TaskHolds
  <2>5. y.drop = {} /\ y.unset = {}
    BY <2>1, <2>3, <2>4, <1>m DEF NewHolds, SidesFit
  <2>l. \A s : LinkOf(x, s) = LinkOf(y, s) /\ FlagOf(x, s) = FlagOf(y, s)
    BY <2>1, SameTask
  <2>6. x.drop = {}
    BY <1>4, <1>m, <2>1, <2>5, <1>y
       DEF Proceeds, GoesOn, ReadsSide, WritesRelations, WritesAIRelations, PassesReason, PassesRow,
           TurnsToRows, UnsetsAgain, SetsRelations, SetsAIRelations, PlaceFits, AtASide
  <2>s. x.pc \in AtASide => LinkOf(x, x.side) # "none"
    <3>1. y.pc \in AtASide => LinkOf(y, y.side) # "none"
      BY <2>1, <2>3, <2>4 DEF NewHolds
    <3>2. \A s \in y.link : LinkOf(y, s) # "none"
      BY <1>m DEF SidesFit
    <3>3. CASE ReadsSide(a, x)
      <4>1. x.pc \in AtASide => x.side \in y.link
        BY <3>3, <1>y, <2>5 DEF ReadsSide, HasRead, AtASide
      <4> QED
        BY <4>1, <3>2, <2>l
    <3>4. CASE WritesRelations(a, x) \/ WritesAIRelations(a, x)
      <4>1. x.pc \in AtASide => x.side = y.side /\ y.pc \in AtASide
        BY <3>4, <1>y DEF WritesRelations, WritesAIRelations, AtASide
      <4> QED
        BY <4>1, <3>1, <2>l
    <3>5. CASE x.pc \in {"sides", "ais", "record"}
      BY <3>5 DEF AtASide
    <3> QED
      BY <1>4, <3>3, <3>4, <3>5
         DEF Proceeds, PassesReason, PassesRow, TurnsToRows, UnsetsAgain, SetsRelations,
             SetsAIRelations
  <2>7. ASSUME NEW p \in Entries, x.want[p] # "none", p \notin met', Done(x, <<p, x.entry>>)
        PROVE  relations'[p][x.entry] = x.want[p] /\ aiRelations'[p][x.entry] = x.want[p]
    <3>0. p \notin met /\ p # x.entry
      BY <2>1, <2>2, <2>7, GhostsGrow
    <3>l. LinkOf(y, <<p, x.entry>>) = x.want[p] /\ FlagOf(y, <<p, x.entry>>) = x.want[p]
      BY <2>1, <3>0 DEF LinkOf, FlagOf, Peer
    <3>1. CASE Done(y, <<p, x.entry>>)
      <4>1. relations[p][x.entry] = x.want[p] /\ aiRelations[p][x.entry] = x.want[p]
        BY <2>1, <2>3, <2>4, <2>7, <3>0, <3>1 DEF NewHolds
      <4>2. \/ relations'[p][x.entry] = relations[p][x.entry]
            \/ relations'[p][x.entry] = LinkOf(x, <<p, x.entry>>)
        BY <1>4, <1>y, <2>1, <2>2, <2>4, <2>7, <3>0, Cells
      <4>3. \/ aiRelations'[p][x.entry] = aiRelations[p][x.entry]
            \/ aiRelations'[p][x.entry] = FlagOf(x, <<p, x.entry>>)
        BY <1>4, <1>y, <2>1, <2>2, <2>4, <2>7, <3>0, Cells
      <4> QED
        BY <4>1, <4>2, <4>3, <3>l, <2>l
    <3>2. CASE ~Done(y, <<p, x.entry>>)
      <4>1. PICK s \in Entries \X Entries : s = <<p, x.entry>>
        BY <2>1, <2>2
      <4>2. \/ /\ WritesAIRelations(a, x) /\ x.pc = "sides" /\ y.side = s
            \/ PassesReason(a, x) /\ y.side = s
            \/ s \in y.drop
        BY <4>1, <3>2, <2>7, <1>4, <1>y, DoneBefore
      <4>3. ~PassesReason(a, x)
        <5> SUFFICES ASSUME PassesReason(a, x) PROVE FALSE
          OBVIOUS
        <5>1. y.pc = "reason" /\ y.side = s
          BY <4>2, <2>5, <1>y DEF PassesReason, WritesAIRelations
        <5>2. FlagOf(y, s) = "none"
          BY <5>1, <1>m DEF CopyFits, AtASide
        <5> QED
          BY <5>2, <4>1, <3>l, <2>7
      <4>4. WritesAIRelations(a, x) /\ y.side = s /\ y.pc = "airelations"
        BY <4>2, <4>3, <2>5, <1>y DEF WritesAIRelations
      <4>5. relations[p][x.entry] = x.want[p]
        BY <4>1, <4>4, <2>4, <3>0, <3>l DEF SideHolds, AtASide
      <4>6. relations' = relations /\ aiRelations' = [aiRelations EXCEPT ![p] = y.ais]
        <5>1. y.side[1] = p
          BY <4>1, <4>4
        <5>2. relations' = relations /\ aiRelations' = [aiRelations EXCEPT ![y.side[1]] = y.ais]
          BY <4>4, <1>y DEF WritesAIRelations
        <5> QED
          BY <5>1, <5>2
      <4>7. y.ais[x.entry] = FlagOf(y, s)
        BY <4>1, <4>4, <1>m DEF CopyFits, AtASide
      <4>8. aiRelations'[p] = y.ais
        BY <4>6, <2>7 DEF TypeInv, StoreTyped
      <4> QED
        BY <4>1, <4>5, <4>6, <4>7, <4>8, <3>l
    <3> QED
      BY <3>1, <3>2
  <2>8. ASSUME Clear(x.entry)'
        PROVE  /\ x.pc \notin {"ais", "record"} => relations'[x.entry] = NoLinks
               /\ x.pc # "record" => aiRelations'[x.entry] = NoLinks
    <3>1. Clear(y.entry) /\ x.entry \notin met'
      BY <2>8, <2>1, <2>2, GhostsGrow DEF Clear
    <3>2. /\ y.pc \notin {"ais", "record"} => relations[y.entry] = NoLinks
          /\ y.pc # "record" => aiRelations[y.entry] = NoLinks
      BY <3>1, <2>1, <2>3, <2>4 DEF NewHolds
    <3>3. y.pc \in AtASide => y.side[2] = y.entry /\ y.side[1] # y.entry
      BY <1>m, <1>y, <2>1, SideAt DEF CopyFits
    <3>t. /\ relations \in [Entries -> Links] /\ aiRelations \in [Entries -> Links]
      BY DEF TypeInv, StoreTyped
    <3>4. x.pc \notin {"ais", "record"} =>
            y.pc \notin {"ais", "record"} /\ relations'[x.entry] = relations[x.entry]
      <4> SUFFICES ASSUME x.pc \notin {"ais", "record"}
                   PROVE  y.pc \notin {"ais", "record"} /\ relations'[x.entry] = relations[x.entry]
        OBVIOUS
      <4>1. y.pc \notin {"ais", "record"}
        BY <1>4, <1>y
           DEF Proceeds, ReadsSide, WritesRelations, WritesAIRelations, PassesReason, PassesRow,
               TurnsToRows, UnsetsAgain, SetsRelations, SetsAIRelations
      <4>2. CASE WritesRelations(a, x)
        <5>1. y.pc \in AtASide
          BY <4>2, <1>y DEF WritesRelations, AtASide
        <5> QED
          BY <4>1, <4>2, <5>1, <3>3, <3>t, <2>1, <2>2, <1>y DEF WritesRelations
      <4>3. CASE relations' = relations
        BY <4>1, <4>3
      <4> QED
        BY <1>4, <4>2, <4>3
           DEF Proceeds, ReadsSide, WritesAIRelations, PassesReason, PassesRow,
               TurnsToRows, UnsetsAgain, SetsRelations, SetsAIRelations, entry
    <3>5. x.pc # "record" => y.pc # "record" /\ aiRelations'[x.entry] = aiRelations[x.entry]
      <4> SUFFICES ASSUME x.pc # "record"
                   PROVE  y.pc # "record" /\ aiRelations'[x.entry] = aiRelations[x.entry]
        OBVIOUS
      <4>1. y.pc # "record"
        BY <1>4, <1>y
           DEF Proceeds, ReadsSide, WritesRelations, WritesAIRelations, PassesReason, PassesRow,
               TurnsToRows, UnsetsAgain, SetsRelations, SetsAIRelations
      <4>2. CASE WritesAIRelations(a, x)
        <5>1. y.pc \in AtASide
          BY <4>2, <1>y DEF WritesAIRelations, AtASide
        <5> QED
          BY <4>1, <4>2, <5>1, <3>3, <3>t, <2>1, <2>2, <1>y DEF WritesAIRelations
      <4>3. CASE aiRelations' = aiRelations
        BY <4>1, <4>3
      <4> QED
        BY <1>4, <4>2, <4>3
           DEF Proceeds, ReadsSide, WritesRelations, PassesReason, PassesRow,
               TurnsToRows, UnsetsAgain, SetsRelations, SetsAIRelations, entry
    <3> QED
      BY <3>2, <3>4, <3>5, <2>1
  <2> QED
    BY <2>6, <2>7, <2>8, <2>s DEF NewHolds, Done, LinkOf, Peer
<1>5. CASE ~(x.op = "analyze" /\ x.entry \notin overtaken')
  BY <1>5 DEF NewHolds
<1> QED
  BY <1>1, <1>2, <1>3, <1>4, <1>5 DEF Step, Quiet, GivesUp, Ends

\* A writer reads its first side when nobody else is at its link.
LEMMA NobodyOn ==
    ASSUME TypeInv, OneWriter', NEW a \in Actors, NEW x \in ActType, Step(a, x),
           act[a].pc \notin Places, NEW e \in ReachOf(x), NEW p \in ReachOf(x),
           e \in Entries, p \in Entries, e \notin met', p \notin met'
    PROVE  /\ \A b \in Actors : ~On(act[b], e, p) /\ ~On(act[b], p, e)
           /\ ~Analyzed(e) /\ ~Analyzed(p) /\ ~Loose(e) /\ ~Loose(p)
<1>1. ASSUME NEW b \in Actors, act[b].pc \in Places, act[b].entry \in {e, p}
      PROVE  FALSE
  <2>1. b # a
    BY <1>1
  <2>2. act[b].entry \in ReachOf(act[b])
    BY <1>1, ReachedAs
  <2> QED
    BY <1>1, <2>1, <2>2, Alone
<1> QED
  BY <1>1 DEF On, Analyzed, Loose, Replaces, Loosens

\* The pairs of an edit or an analysis that begins.
LEMMA BeginsLinks ==
    ASSUME TypeInv, OneWriter', Observed, NEW a \in Actors, NEW x \in ActType, Step(a, x),
           BeginsEdit(a, x) \/ BeginsAnalysis(a, x), \A e, p \in Entries : PairHolds(e, p)
    PROVE  LinksHold(x)' /\ RowsHold(x)'
<1>m. PlaceFits(x) /\ SidesFit(x) /\ CopyFits(x)
  BY MineIs
<1>u. relations' = relations /\ aiRelations' = aiRelations /\ timeline' = timeline
  BY DEF BeginsAnalysis, BeginsEdit, entry
<1>1. /\ x.pc = "sides" /\ x.pc \in Places /\ x.entry \in Entries /\ x.side = NoSide
      /\ act[a].pc \notin Places /\ x.pc \notin AtASide
  BY DEF BeginsEdit, BeginsAnalysis, Places, AtASide
<1> SUFFICES ASSUME NEW p \in ReachOf(x), p # x.entry, Clear(p)', Clear(x.entry)'
             PROVE  /\ \A s \in Both(x.entry, p) :
                          Done(x, s) /\ (x.op = "analyze" => s[2] = x.entry)
                          => /\ relations[s[1]][s[2]] = x.want[p]
                             /\ x.op # "analyze" => aiRelations[s[1]][s[2]] = "none"
                    /\ {p, x.entry} \cap overtaken' = {} =>
                          \A s \in Both(x.entry, p) :
                              IF x.op = "analyze" /\ x.pc # "record" THEN timeline[s[1]][s[2]] = "none"
                              ELSE s \in x.rows \/ timeline[s[1]][s[2]] = x.want[p]
  BY <1>u, <1>1 DEF LinksHold, RowsHold, Done, ReachOf, Both
<1>2. /\ p \in Entries
      /\ x.want[p] # "none" \/ <<p, x.entry>> \in x.drop \cup x.unset \cup x.rows
  BY <1>m, <1>1, ReachedFrom
<1>3. x.entry \in ReachOf(x)
  BY <1>m, <1>1, Reached
<1>4. Clear(p) /\ Clear(x.entry) /\ p \notin met' /\ x.entry \notin met'
  BY <1>1, <1>2, GhostsGrow DEF Clear
<1>5. /\ \A b \in Actors : ~On(act[b], x.entry, p) /\ ~On(act[b], p, x.entry)
      /\ ~Loose(x.entry) /\ ~Loose(p)
  BY <1>1, <1>2, <1>3, <1>4, NobodyOn
<1>6. PairHolds(x.entry, p)
  BY <1>1, <1>2
<1>7. /\ relations[x.entry][p] = relations[p][x.entry]
      /\ {x.entry, p} \cap overtaken = {} =>
            /\ timeline[x.entry][p] = relations[x.entry][p]
            /\ timeline[p][x.entry] = relations[p][x.entry]
  BY <1>4, <1>5, <1>6 DEF PairHolds
<1>8. {p, x.entry} \cap overtaken' = {} => {x.entry, p} \cap overtaken = {}
  BY <1>1, <1>2, GhostsGrow
<1>9. CASE BeginsEdit(a, x)
  <2>1. PICK q \in Entries :
          /\ q # x.entry /\ \A u \in Entries : u # q => x.want[u] = "none"
          /\ x.drop \cup x.link = Both(x.entry, q) /\ x.unset \subseteq Both(x.entry, q)
          /\ x.rows = IF relations[x.entry][q] = x.want[q] THEN {} ELSE Both(x.entry, q)
          /\ a \in Requests
    BY <1>9 DEF BeginsEdit
  <2>2. p = q
    <3>1. x.want[p] # "none" \/ <<p, x.entry>> \in Both(x.entry, q)
      BY <1>2, <2>1
    <3> QED
      BY <3>1, <2>1, <1>2 DEF Both
  <2>3. x.op # "analyze"
    BY <2>1 DEF Step, Turns, ActorFits, RequestFits
  <2>4. \A s \in Both(x.entry, p) : ~Done(x, s)
    BY <2>1, <2>2 DEF Done
  <2>5. ASSUME {p, x.entry} \cap overtaken' = {}, NEW s \in Both(x.entry, p), s \notin x.rows
        PROVE  timeline[s[1]][s[2]] = x.want[p]
    <3>1. relations[x.entry][p] = x.want[p]
      BY <2>1, <2>2, <2>5
    <3>2. s = <<x.entry, p>> \/ s = <<p, x.entry>>
      BY DEF Both
    <3> QED
      BY <3>1, <3>2, <2>5, <1>7, <1>8
  <2> QED
    BY <2>3, <2>4, <2>5
<1>10. CASE BeginsAnalysis(a, x)
  <2>1. x.op = "analyze"
    BY <1>10, <1>1 DEF BeginsAnalysis, Step, Turns, ActorFits, WorkerFits
  <2>2. ASSUME NEW s \in Both(x.entry, p), Done(x, s), s[2] = x.entry
        PROVE  relations[s[1]][s[2]] = x.want[p]
    <3>1. s = <<p, x.entry>>
      BY <2>2 DEF Both
    <3>2. <<p, x.entry>> \notin x.drop \cup x.link
      BY <2>2, <3>1 DEF Done
    <3>3. x.unset = {} /\ x.rows = {}
      BY <1>10 DEF BeginsAnalysis
    <3>4. x.want[p] # "none"
      BY <1>2, <3>2, <3>3
    <3>5. x.want[p] = relations[x.entry][p]
      BY <1>2, <1>10, <3>2, <3>4 DEF BeginsAnalysis, Peers
    <3> QED
      BY <3>1, <3>5, <1>7
  <2>3. ASSUME {p, x.entry} \cap overtaken' = {}, NEW s \in Both(x.entry, p)
        PROVE  timeline[s[1]][s[2]] = "none"
    <3>1. Peers(relations[x.entry]) = {}
      BY <1>10, <2>3 DEF BeginsAnalysis
    <3>2. relations[x.entry][p] = "none"
      BY <3>1, <1>2 DEF Peers
    <3>3. s = <<x.entry, p>> \/ s = <<p, x.entry>>
      BY DEF Both
    <3> QED
      BY <3>2, <3>3, <2>3, <1>7, <1>8
  <2> QED
    BY <2>1, <2>2, <2>3, <1>1
<1> QED
  BY <1>9, <1>10

\* What a writer that goes on has done at the links in its reach.
LEMMA LinkWritten ==
    ASSUME TypeInv, OneWriter, Observed, NEW a \in Actors, NEW x \in ActType, Step(a, x),
           TaskHolds(act[a]), Proceeds(a, x),
           NEW p \in ReachOf(act[a]), p # x.entry, Clear(p)', Clear(x.entry)',
           NEW s \in Both(x.entry, p), Done(x, s), x.op = "analyze" => s[2] = x.entry
    PROVE  /\ relations'[s[1]][s[2]] = x.want[p]
           /\ x.op # "analyze" => aiRelations'[s[1]][s[2]] = "none"
<1>y. PICK y \in ActType : y = act[a] /\ ActorFits(a, y)
  BY ActorIs
<1>m. PlaceFits(x) /\ SidesFit(x) /\ CopyFits(x) /\ PlaceFits(y) /\ SidesFit(y) /\ CopyFits(y)
  BY <1>y, MineIs DEF ActorFits
<1>1. /\ GoesOn(y, x) /\ x.op = y.op /\ x.entry = y.entry /\ x.want = y.want
      /\ y.pc \in Places /\ y.entry \in Entries
  BY <1>y, WriterIs DEF Proceeds, GoesOn
<1>2. p \in ReachOf(y) /\ p \in Entries
  BY <1>m, <1>y, <1>1, Reached
<1>3. Clear(p) /\ Clear(y.entry) /\ p \notin met' /\ y.entry \notin met'
  BY <1>1, <1>2, GhostsGrow DEF Clear
<1>4. SideHolds(y) /\ LinksHold(y)
  BY <1>y DEF TaskHolds
<1>l. LinkOf(x, s) = LinkOf(y, s)
  BY <1>1, SameTask
<1>b. s = <<x.entry, p>> \/ s = <<p, x.entry>>
  BY DEF Both
<1>k. LinkOf(x, s) = x.want[p]
  BY <1>b DEF LinkOf, Peer
<1>5. /\ LinkOf(x, s) = x.want[p] /\ LinkOf(y, s) = x.want[p]
      /\ s[1] \in {x.entry, p} /\ s[2] \in {x.entry, p} /\ s = <<s[1], s[2]>>
  BY <1>b, <1>k, <1>l
<1>6. s[1] \in Entries /\ s[2] \in Entries /\ s[1] \notin met' /\ s[1] \notin met
  BY <1>1, <1>2, <1>3, <1>5, GhostsGrow
<1>7. FlagOf(x, s) = IF x.op = "analyze" THEN x.want[p] ELSE "none"
  BY <1>5 DEF FlagOf
<1>e. x.op = "analyze" => s[1] # x.entry
  BY DEF Both
<1>8. /\ \/ relations'[s[1]][s[2]] = relations[s[1]][s[2]]
         \/ relations'[s[1]][s[2]] = x.want[p]
         \/ a \in Workers /\ s[1] = x.entry
      /\ \/ aiRelations'[s[1]][s[2]] = aiRelations[s[1]][s[2]]
         \/ aiRelations'[s[1]][s[2]] = FlagOf(x, s)
         \/ a \in Workers /\ s[1] = x.entry
  BY <1>y, <1>4, <1>5, <1>6, Cells DEF SetsRelations, SetsAIRelations
<1>9. a \in Workers => x.op = "analyze"
  BY <1>y, <1>1 DEF ActorFits, WorkerFits
<1>10. CASE Done(y, s)
  <2>1. /\ relations[s[1]][s[2]] = x.want[p]
        /\ x.op # "analyze" => aiRelations[s[1]][s[2]] = "none"
    BY <1>1, <1>2, <1>3, <1>4, <1>10 DEF LinksHold
  <2> QED
    BY <2>1, <1>7, <1>8, <1>9, <1>e
<1>11. CASE ~Done(y, s)
  <2>1. \/ /\ WritesAIRelations(a, x) /\ x.pc = "sides" /\ y.side = s
        \/ PassesReason(a, x) /\ y.side = s
        \/ ReadsSide(a, x) /\ s \in y.drop
           /\ relations[s[1]][s[2]] = "none" /\ aiRelations[s[1]][s[2]] = "none"
    BY <1>y, <1>11, DoneBefore
  <2>2. CASE WritesAIRelations(a, x) /\ x.pc = "sides" /\ y.side = s
    <3>1. y.pc = "airelations" /\ FlagOf(y, s) # "none" /\ relations' = relations
      BY <2>2, <1>y DEF WritesAIRelations
    <3>2. relations[s[1]][s[2]] = x.want[p]
      BY <3>1, <2>2, <1>4, <1>5, <1>6 DEF SideHolds, AtASide
    <3>3. x.op = "analyze"
      BY <3>1, <1>1 DEF FlagOf
    <3> QED
      BY <3>1, <3>2, <3>3
  <2>3. CASE PassesReason(a, x) /\ y.side = s
    <3>1. y.pc = "reason" /\ relations' = relations /\ aiRelations' = aiRelations
      BY <2>3, <1>y DEF PassesReason
    <3>2. relations[s[1]][s[2]] = x.want[p] /\ aiRelations[s[1]][s[2]] = "none"
      BY <3>1, <2>3, <1>4, <1>5, <1>6 DEF SideHolds, AtASide
    <3> QED
      BY <3>1, <3>2
  <2>4. CASE ReadsSide(a, x) /\ s \in y.drop
             /\ relations[s[1]][s[2]] = "none" /\ aiRelations[s[1]][s[2]] = "none"
    <3>1. relations' = relations /\ aiRelations' = aiRelations
      BY <2>4 DEF ReadsSide, entry
    <3>2. x.want[p] = "none"
      BY <2>4, <1>5, <1>m DEF SidesFit
    <3> QED
      BY <3>1, <3>2, <2>4
  <2> QED
    BY <2>1, <2>2, <2>3, <2>4
<1> QED
  BY <1>10, <1>11

LEMMA RowWritten ==
    ASSUME TypeInv, OneWriter, Observed, NEW a \in Actors, NEW x \in ActType, Step(a, x),
           TaskHolds(act[a]), Proceeds(a, x),
           NEW p \in ReachOf(act[a]), p # x.entry, Clear(p)', Clear(x.entry)',
           {p, x.entry} \cap overtaken' = {}, NEW s \in Both(x.entry, p)
    PROVE  IF x.op = "analyze" /\ x.pc # "record" THEN timeline'[s[1]][s[2]] = "none"
           ELSE s \in x.rows \/ timeline'[s[1]][s[2]] = x.want[p]
<1>y. PICK y \in ActType : y = act[a] /\ ActorFits(a, y)
  BY ActorIs
<1>m. PlaceFits(x) /\ SidesFit(x) /\ CopyFits(x) /\ PlaceFits(y) /\ SidesFit(y) /\ CopyFits(y)
  BY <1>y, MineIs DEF ActorFits
<1>1. /\ GoesOn(y, x) /\ x.op = y.op /\ x.entry = y.entry /\ x.want = y.want
      /\ y.pc \in Places /\ y.entry \in Entries
  BY <1>y, WriterIs DEF Proceeds, GoesOn
<1>2. p \in ReachOf(y) /\ p \in Entries
  BY <1>m, <1>y, <1>1, Reached
<1>3. Clear(p) /\ Clear(y.entry) /\ {p, y.entry} \cap overtaken = {}
  BY <1>1, <1>2, GhostsGrow
<1>4. IF y.op = "analyze" /\ y.pc # "record" THEN timeline[s[1]][s[2]] = "none"
      ELSE s \in y.rows \/ timeline[s[1]][s[2]] = y.want[p]
  BY <1>y, <1>1, <1>2, <1>3 DEF TaskHolds, RowsHold
<1>l. LinkOf(x, s) = LinkOf(y, s)
  BY <1>1, SameTask
<1>b. s = <<x.entry, p>> \/ s = <<p, x.entry>>
  BY DEF Both
<1>k. LinkOf(x, s) = x.want[p]
  BY <1>b DEF LinkOf, Peer
<1>5. /\ LinkOf(x, s) = x.want[p] /\ LinkOf(y, s) = x.want[p]
      /\ s[1] \in {x.entry, p} /\ s[2] \in {x.entry, p} /\ s = <<s[1], s[2]>>
  BY <1>b, <1>k, <1>l
<1>6. s[1] \in Entries /\ s[2] \in Entries
  BY <1>1, <1>2, <1>5
<1>7. CASE PassesRow(a, x)
  <2>1. /\ y.pc = "record" /\ x.pc = "record"
        /\ y.entry \in ReachOf(y)
    BY <1>7, <1>y, <1>m, <1>1, Reached DEF PassesRow
  <2>2. PICK t \in y.rows : /\ x.rows = y.rows \ {t}
                            /\ \/ timeline' = [timeline EXCEPT ![t[1]][t[2]] = LinkOf(x, t)]
                               \/ timeline' = timeline /\ left' = left \cup Reach(a)
    BY <1>7, <1>y DEF PassesRow
  <2>3. Reach(a) = ReachOf(y)
    BY <1>y, ReachIs
  <2>4. timeline' = [timeline EXCEPT ![t[1]][t[2]] = LinkOf(x, t)]
    BY <2>1, <2>2, <2>3, <1>1 DEF Clear
  <2>5. s \in y.rows \/ timeline[s[1]][s[2]] = x.want[p]
    BY <1>1, <1>4, <2>1
  <2>6. /\ t \in Sides /\ t[1] \in Entries /\ t[2] \in Entries /\ t = <<t[1], t[2]>>
    BY SideIs DEF ActType
  <2>7. timeline \in [Entries -> Links]
    BY DEF TypeInv, StoreTyped
  <2>8. CASE s = t
    <3>1. LinkOf(x, t) = x.want[p]
      BY <1>5, <2>8
    <3>2. timeline'[t[1]][t[2]] = LinkOf(x, t)
      BY <2>4, <2>6, <2>7 DEF Links
    <3> QED
      BY <3>1, <3>2, <2>1, <2>8
  <2>9. CASE s # t
    <3>1. s[1] # t[1] \/ s[2] # t[2]
      BY <2>9, <2>6, <1>5
    <3>2. timeline'[s[1]][s[2]] = timeline[s[1]][s[2]]
      BY <3>1, <2>4, <2>6, <2>7, <1>6 DEF Links
    <3> QED
      BY <3>2, <2>1, <2>2, <2>5, <2>9
  <2> QED
    BY <2>8, <2>9
<1>8. CASE SetsAIRelations(a, x)
  <2>1. /\ y.pc = "ais" /\ x.rows = AllRows(y) /\ x.pc = "record" /\ a \in Workers
    BY <1>8, <1>y DEF SetsAIRelations
  <2>2. y.op = "analyze"
    BY <2>1, <1>y, <1>1 DEF ActorFits, WorkerFits
  <2>3. y.want[p] # "none"
    <3>1. y.drop = {} /\ y.unset = {} /\ y.rows = {} /\ y.pc \notin AtASide
      BY <2>1, <2>2, <1>m DEF PlaceFits, SidesFit, AtASide
    <3> QED
      BY <3>1, <1>m, <1>1, <1>y, ReachedFrom
  <2>4. p \in Peers(y.want)
    BY <2>3, <1>2 DEF Peers
  <2>5. s \in AllRows(y)
    BY <2>4, <1>1 DEF AllRows, Both
  <2> QED
    BY <2>1, <2>5
<1>9. CASE timeline' = timeline /\ x.rows = y.rows /\ (x.pc = "record" => y.op # "analyze")
           /\ (y.pc = "record" => x.pc = "record")
  BY <1>1, <1>4, <1>9
<1>10. CASE TurnsToRows(a, x)
  <2>1. y.op # "analyze"
    BY <1>10, <1>y DEF TurnsToRows, ActorFits, RequestFits
  <2> QED
    BY <1>9, <1>10, <2>1, <1>y DEF TurnsToRows, entry
<1> QED
  BY <1>y, <1>7, <1>8, <1>9, <1>10
     DEF Proceeds, ReadsSide, HasRead, WritesRelations, WritesAIRelations, PassesReason,
         UnsetsAgain, SetsRelations, entry

LEMMA OwnLinks ==
    ASSUME TypeInv, OneWriter, OneWriter', Observed, NEW a \in Actors, NEW x \in ActType, Step(a, x),
           TaskHolds(act[a]), \A e, p \in Entries : PairHolds(e, p)
    PROVE  LinksHold(x)'
<1>y. PICK y \in ActType : y = act[a] /\ ActorFits(a, y)
  BY ActorIs
<1>m. PlaceFits(x) /\ SidesFit(x) /\ CopyFits(x) /\ PlaceFits(y) /\ SidesFit(y) /\ CopyFits(y)
  BY <1>y, MineIs DEF ActorFits
<1>1. CASE BeginsEdit(a, x) \/ BeginsAnalysis(a, x)
  BY <1>1, BeginsLinks
<1>2. CASE x.pc \notin Places
  BY <1>2 DEF LinksHold
<1>3. CASE Proceeds(a, x) /\ x.pc \in Places
  <2>1. ReachOf(x) \subseteq ReachOf(act[a])
    BY <1>3, ReachShrinks
  <2>2. SUFFICES ASSUME NEW p \in ReachOf(x), p # x.entry, Clear(p)', Clear(x.entry)',
                        NEW s \in Both(x.entry, p), Done(x, s), x.op = "analyze" => s[2] = x.entry
                 PROVE  /\ relations'[s[1]][s[2]] = x.want[p]
                        /\ x.op # "analyze" => aiRelations'[s[1]][s[2]] = "none"
    BY DEF LinksHold, Done, ReachOf, Both
  <2> QED
    BY <1>3, <2>1, <2>2, LinkWritten
<1> QED
  BY <1>1, <1>2, <1>3 DEF Step, Quiet, GivesUp, Ends

LEMMA OwnRows ==
    ASSUME TypeInv, OneWriter, OneWriter', Observed, NEW a \in Actors, NEW x \in ActType, Step(a, x),
           TaskHolds(act[a]), \A e, p \in Entries : PairHolds(e, p)
    PROVE  RowsHold(x)'
<1>y. PICK y \in ActType : y = act[a] /\ ActorFits(a, y)
  BY ActorIs
<1>m. PlaceFits(x) /\ SidesFit(x) /\ CopyFits(x) /\ PlaceFits(y) /\ SidesFit(y) /\ CopyFits(y)
  BY <1>y, MineIs DEF ActorFits
<1>1. CASE BeginsEdit(a, x) \/ BeginsAnalysis(a, x)
  BY <1>1, BeginsLinks
<1>2. CASE x.pc \notin Places
  BY <1>2 DEF RowsHold
<1>3. CASE Proceeds(a, x) /\ x.pc \in Places
  <2>1. ReachOf(x) \subseteq ReachOf(act[a])
    BY <1>3, ReachShrinks
  <2>2. SUFFICES ASSUME NEW p \in ReachOf(x), p # x.entry, Clear(p)', Clear(x.entry)',
                        {p, x.entry} \cap overtaken' = {}, NEW s \in Both(x.entry, p)
                 PROVE  IF x.op = "analyze" /\ x.pc # "record" THEN timeline'[s[1]][s[2]] = "none"
                        ELSE s \in x.rows \/ timeline'[s[1]][s[2]] = x.want[p]
    BY DEF RowsHold, ReachOf, Both
  <2> QED
    BY <1>3, <2>1, <2>2, RowWritten
<1> QED
  BY <1>1, <1>2, <1>3 DEF Step, Quiet, GivesUp, Ends

\* The flags and the reasons of an entry.
LEMMA FlagsStay ==
    ASSUME TypeInv, OneWriter, Observed, NEW a \in Actors, NEW x \in ActType, Step(a, x),
           TaskHolds(act[a]), NEW e \in Entries, FlagsHold(e)
    PROVE  FlagsHold(e)'
<1>y. PICK y \in ActType : y = act[a] /\ ActorFits(a, y)
  BY ActorIs
<1>m. PlaceFits(y) /\ SidesFit(y) /\ CopyFits(y) /\ SideHolds(y) /\ WholeHolds(y)
  BY <1>y DEF ActorFits, TaskHolds
<1>x. act'[a] = x
  BY MineIs
<1>t. /\ relations \in [Entries -> Links] /\ aiRelations \in [Entries -> Links]
      /\ reasons \in [Entries -> SUBSET Entries]
  BY DEF TypeInv, StoreTyped
<1>g. SUFFICES ASSUME Clear(e)', NEW p \in Entries
               PROVE  /\ \/ aiRelations'[e][p] \in {"none", relations'[e][p]}
                         \/ \E b \in Actors : act'[b].pc = "airelations" /\ act'[b].side = <<e, p>>
                         \/ \E b \in Actors : act'[b].pc = "ais" /\ act'[b].entry = e
                      /\ \/ p \in reasons'[e] => aiRelations'[e][p] # "none"
                         \/ \E b \in Actors : act'[b].pc = "reason" /\ act'[b].side = <<e, p>>
                         \/ \E b \in Workers : act'[b].pc = "record" /\ act'[b].entry = e
  BY DEF FlagsHold
<1>c. Clear(e) /\ e \notin met' /\ e \notin met /\ e \notin left'
  BY <1>g, GhostsGrow DEF Clear
<1>1. \/ aiRelations[e][p] \in {"none", relations[e][p]}
      \/ \E b \in Actors : act[b].pc = "airelations" /\ act[b].side = <<e, p>>
      \/ \E b \in Actors : act[b].pc = "ais" /\ act[b].entry = e
  BY <1>c, <1>g DEF FlagsHold
<1>2. \/ p \in reasons[e] => aiRelations[e][p] # "none"
      \/ \E b \in Actors : act[b].pc = "reason" /\ act[b].side = <<e, p>>
      \/ \E b \in Workers : act[b].pc = "record" /\ act[b].entry = e
  BY <1>c, <1>g DEF FlagsHold
<1>w. Workers \subseteq Actors
  BY DEF Actors
<1>3. \A b \in Actors :
        \/ act[b].pc \in AtASide /\ act[b].side = <<e, p>>
        \/ act[b].pc \in {"ais", "record"} /\ act[b].entry = e
        => e \in ReachOf(act[b])
  <2>1. {"ais", "record"} \subseteq Places
    BY DEF Places
  <2> QED
    BY <2>1, ReachedAs
<1>4. CASE e \notin ReachOf(act[a])
  <2>1. relations'[e] = relations[e] /\ aiRelations'[e] = aiRelations[e] /\ reasons'[e] \subseteq reasons[e]
    BY <1>4, Untouched
  <2>2. \A b \in Actors : e \in ReachOf(act[b]) => act'[b] = act[b]
    BY <1>4, OthersStay
  <2> QED
    BY <1>1, <1>2, <1>3, <1>w, <2>1, <2>2 DEF AtASide
<1>5. CASE e \in ReachOf(act[a])
  <2>p. y.pc \in Places /\ e \in ReachOf(y)
    BY <1>5, <1>y DEF ReachOf
  <2>a. \A b \in Actors : e \in ReachOf(act[b]) => b = a
    BY <1>5, <1>c, AloneBefore
  <2>1. \/ aiRelations[e][p] \in {"none", relations[e][p]}
        \/ y.pc = "airelations" /\ y.side = <<e, p>>
        \/ y.pc = "ais" /\ y.entry = e
    BY <1>1, <1>3, <1>y, <2>a DEF AtASide
  <2>2. \/ p \in reasons[e] => aiRelations[e][p] # "none"
        \/ y.pc = "reason" /\ y.side = <<e, p>>
        \/ a \in Workers /\ y.pc = "record" /\ y.entry = e
    BY <1>2, <1>3, <1>w, <1>y, <2>a DEF AtASide
  <2>3. SUFFICES /\ \/ aiRelations'[e][p] \in {"none", relations'[e][p]}
                    \/ x.pc = "airelations" /\ x.side = <<e, p>>
                    \/ x.pc = "ais" /\ x.entry = e
                 /\ \/ p \in reasons'[e] => aiRelations'[e][p] # "none"
                    \/ x.pc = "reason" /\ x.side = <<e, p>>
                    \/ a \in Workers /\ x.pc = "record" /\ x.entry = e
    BY <1>x
  <2>o. a \in Workers => y.op = "analyze"
    BY <1>y, <2>p DEF ActorFits, WorkerFits
  <2>4. CASE Ends(a, x)
    <3>1. /\ y.pc = "record" /\ relations' = relations /\ aiRelations' = aiRelations
          /\ reasons' = IF a \in Workers THEN [reasons EXCEPT ![y.entry] = Peers(y.want)] ELSE reasons
      BY <2>4, <1>y DEF Ends
    <3>2. CASE a \in Workers /\ y.entry = e
      <4>1. aiRelations[e] = y.want /\ reasons'[e] = Peers(y.want)
        BY <3>1, <3>2, <2>o, <1>c, <1>m, <1>t DEF WholeHolds
      <4> QED
        BY <4>1, <3>1, <2>1 DEF Peers
    <3>3. CASE ~(a \in Workers /\ y.entry = e)
      <4>1. reasons'[e] = reasons[e]
        BY <3>1, <3>3, <1>t
      <4> QED
        BY <4>1, <3>1, <3>3, <2>1, <2>2
    <3> QED
      BY <3>2, <3>3
  <2>5. CASE Proceeds(a, x)
    <3>0. GoesOn(y, x) /\ x.entry = y.entry /\ x.want = y.want /\ y.entry \in Entries
      BY <2>5, <2>p, <1>y, WriterIs DEF Proceeds, GoesOn
    <3>1. CASE ReadsSide(a, x) \/ TurnsToRows(a, x)
      <4>1. y.pc = "sides" /\ UNCHANGED entry
        BY <3>1, <1>y DEF ReadsSide, TurnsToRows
      <4> QED
        BY <4>1, <2>1, <2>2 DEF entry
    <3>2. CASE WritesRelations(a, x)
      <4>1. /\ y.pc = "relations" /\ x.pc = "airelations" /\ x.side = y.side
            /\ aiRelations' = aiRelations /\ reasons' = reasons
        BY <3>2, <1>y DEF WritesRelations
      <4>2. relations'[e][p] = relations[e][p] \/ y.side = <<e, p>>
        <5>1. ~SetsRelations(a, x)
          BY <4>1, <1>y DEF SetsRelations
        <5> QED
          BY <5>1, <2>5, <1>c, <1>m, <1>y, Cells
      <4> QED
        BY <4>1, <4>2, <2>1, <2>2
    <3>3. CASE WritesAIRelations(a, x)
      <4>1. /\ y.pc = "airelations" /\ relations' = relations /\ reasons' = reasons
            /\ aiRelations' = [aiRelations EXCEPT ![y.side[1]] = y.ais]
            /\ \/ x.pc = "reason" /\ x.side = y.side /\ FlagOf(y, y.side) = "none"
               \/ FlagOf(y, y.side) # "none"
        BY <3>3, <1>y DEF WritesAIRelations
      <4>2. CASE y.side = <<e, p>>
        <5>1. y.side[1] = e /\ y.side[2] = p
          BY <4>2
        <5>2. y.ais[p] = FlagOf(y, y.side) /\ relations[e][p] = LinkOf(y, y.side)
          BY <5>1, <4>1, <1>m, <1>c DEF CopyFits, SideHolds, AtASide
        <5>3. aiRelations'[e][p] = FlagOf(y, y.side)
          BY <5>1, <5>2, <4>1, <1>t
        <5>4. FlagOf(y, y.side) \in {"none", LinkOf(y, y.side)}
          BY DEF FlagOf
        <5> QED
          BY <5>2, <5>3, <5>4, <4>1, <4>2
      <4>3. CASE y.side # <<e, p>>
        <5>1. aiRelations'[e][p] = aiRelations[e][p]
          <6>1. ~SetsAIRelations(a, x)
            BY <4>1, <1>y DEF SetsAIRelations
          <6> QED
            BY <6>1, <4>3, <2>5, <1>c, <1>m, <1>y, Cells
        <5> QED
          BY <5>1, <4>1, <4>3, <2>1, <2>2
      <4> QED
        BY <4>2, <4>3
    <3>4. CASE PassesReason(a, x)
      <4>1. Reach(a) = ReachOf(y)
        BY <1>y, ReachIs
      <4>2. /\ y.pc = "reason" /\ relations' = relations /\ aiRelations' = aiRelations
            /\ reasons' = [reasons EXCEPT ![y.side[1]] = @ \ {y.side[2]}]
        BY <3>4, <4>1, <2>p, <1>c, <1>y DEF PassesReason
      <4>3. CASE y.side = <<e, p>>
        <5>1. p \notin reasons'[e]
          BY <4>2, <4>3, <1>t
        <5> QED
          BY <5>1, <4>2, <2>1
      <4>4. CASE y.side # <<e, p>>
        <5>1. reasons'[e] \subseteq reasons[e]
          BY <4>2, <1>t
        <5> QED
          BY <5>1, <4>2, <4>4, <2>1, <2>2
      <4> QED
        BY <4>3, <4>4
    <3>5. CASE PassesRow(a, x)
      <4>1. /\ y.pc = "record" /\ x.pc = "record"
            /\ relations' = relations /\ aiRelations' = aiRelations /\ reasons' = reasons
        BY <3>5, <1>y DEF PassesRow
      <4> QED
        BY <4>1, <3>0, <2>1, <2>2
    <3>6. CASE UnsetsAgain(a, x)
      <4>1. /\ y.pc = "sides" /\ relations' = relations /\ aiRelations' = aiRelations
            /\ \E s : reasons' = [reasons EXCEPT ![s[1]] = @ \ {s[2]}]
        BY <3>6, <1>y DEF UnsetsAgain
      <4>2. reasons'[e] \subseteq reasons[e]
        BY <4>1, <1>t
      <4> QED
        BY <4>1, <4>2, <2>1, <2>2
    <3>7. CASE SetsRelations(a, x)
      <4>1. /\ y.pc = "sides" /\ x.pc = "ais" /\ relations' = [relations EXCEPT ![x.entry] = x.want]
            /\ aiRelations' = aiRelations /\ reasons' = reasons
        BY <3>7, <1>y DEF SetsRelations
      <4>2. x.entry # e => relations'[e] = relations[e]
        BY <4>1, <1>t
      <4> QED
        BY <4>1, <4>2, <2>1, <2>2
    <3>8. CASE SetsAIRelations(a, x)
      <4>1. /\ y.pc = "ais" /\ x.pc = "record" /\ aiRelations' = [aiRelations EXCEPT ![x.entry] = x.want]
            /\ relations' = relations /\ reasons' = reasons /\ a \in Workers
        BY <3>8, <1>y DEF SetsAIRelations
      <4>2. CASE x.entry = e
        <5>1. relations[e] = x.want
          BY <4>1, <4>2, <3>0, <2>o, <1>c, <1>m DEF WholeHolds
        <5>2. aiRelations'[e] = x.want
          BY <4>1, <4>2, <1>t
        <5> QED
          BY <5>1, <5>2, <4>1, <4>2
      <4>3. CASE x.entry # e
        <5>1. aiRelations'[e] = aiRelations[e]
          BY <4>1, <4>3, <1>t
        <5> QED
          BY <5>1, <4>1, <4>3, <3>0, <2>1, <2>2
      <4> QED
        BY <4>2, <4>3
    <3> QED
      BY <2>5, <3>1, <3>2, <3>3, <3>4, <3>5, <3>6, <3>7, <3>8 DEF Proceeds
  <2>6. CASE GivesUp(a, x)
    <3>1. e \in left'
      BY <2>6, <2>p, <1>y, ReachIs DEF GivesUp
    <3> QED
      BY <3>1, <1>c
  <2>7. ~Quiet(a, x) /\ ~BeginsEdit(a, x) /\ ~BeginsAnalysis(a, x)
    BY <2>p, <1>y DEF Quiet, BeginsEdit, BeginsAnalysis, Places, AtASide
  <2> QED
    BY <2>4, <2>5, <2>6, <2>7 DEF Step
<1> QED
  BY <1>4, <1>5

\* The two sides of a link once its writer is through with it.
LEMMA LeavesPair ==
    ASSUME TypeInv, OneWriter, Observed, NEW a \in Actors, NEW x \in ActType, Step(a, x),
           TaskHolds(act[a]), WholeHolds(x)', NEW e \in Entries, NEW p \in Entries, e # p,
           On(act[a], e, p), ~On(x, e, p), Clear(e)', Clear(p)'
    PROVE  PairHolds(e, p)'
<1>y. PICK y \in ActType : y = act[a] /\ ActorFits(a, y)
  BY ActorIs
<1>m. PlaceFits(x) /\ SidesFit(x) /\ CopyFits(x) /\ PlaceFits(y) /\ SidesFit(y) /\ CopyFits(y)
  BY <1>y, MineIs DEF ActorFits
<1>h. WholeHolds(y) /\ NewHolds(y) /\ LinksHold(y) /\ RowsHold(y)
  BY <1>y DEF TaskHolds
<1>x. act'[a] = x
  BY MineIs
<1>o. y.pc \in Places /\ y.entry = e /\ p \in ReachOf(y) /\ e \in ReachOf(y)
  BY <1>y, <1>m, Reached DEF On
<1>c. /\ Clear(e) /\ Clear(p) /\ e \notin met' /\ p \notin met' /\ e \notin left'
      /\ e \notin met /\ p \notin met
      /\ {e, p} \cap overtaken' = {} => {e, p} \cap overtaken = {}
  BY GhostsGrow DEF Clear
<1>1. \A b \in Actors : b # a => ~(act'[b].pc \in Places /\ act'[b].entry \in {e, p})
  <2> SUFFICES ASSUME NEW b \in Actors, b # a, act'[b].pc \in Places, act'[b].entry \in {e, p}
               PROVE  FALSE
    OBVIOUS
  <2>1. act'[b] = act[b]
    BY OthersStay
  <2>2. act[b].entry \in ReachOf(act[b])
    BY <2>1, ReachedAs
  <2> QED
    BY <2>1, <2>2, <1>o, <1>c, <1>y, AloneBefore
<1>w. a \in Workers => y.op = "analyze"
  BY <1>y, <1>o DEF ActorFits, WorkerFits
<1>r. a \notin Workers => y.op # "analyze"
  BY <1>y DEF ActorFits, RequestFits, Actors
<1>b. <<e, p>> \in Both(e, p) /\ <<p, e>> \in Both(e, p)
  BY DEF Both
<1>2. CASE Proceeds(a, x)
  <2>1. GoesOn(y, x) /\ x.entry = e /\ x.want = y.want /\ x.op = y.op /\ x.pc \in Places
    BY <1>2, <1>o, <1>y DEF Proceeds, GoesOn
  <2>2. p \notin ReachOf(x)
    BY <2>1 DEF On
  <2>3. /\ x.want[p] = "none"
        /\ \A s \in x.drop \cup x.link \cup x.unset \cup x.rows : s \notin Both(e, p)
        /\ x.pc \in AtASide => x.side \notin Both(e, p)
    <3>1. /\ Peers(x.want) \subseteq ReachOf(x)
          /\ \A s \in x.drop \cup x.link \cup x.unset \cup x.rows :
                s[1] \in ReachOf(x) /\ s[2] \in ReachOf(x)
          /\ x.pc \in AtASide => x.side[1] \in ReachOf(x) /\ x.side[2] \in ReachOf(x)
      BY <1>m, <2>1, Reached
    <3>2. x.want[p] = "none"
      BY <3>1, <2>2 DEF Peers
    <3>3. \A s \in Both(e, p) : s[1] = p \/ s[2] = p
      BY DEF Both
    <3> QED
      BY <3>1, <3>2, <3>3, <2>2
  <2>4. \A s \in Both(e, p) : Done(x, s)
    BY <2>3 DEF Done
  <2>5. \A s \in Both(e, p) : (x.op = "analyze" => s[2] = x.entry) =>
           /\ relations'[s[1]][s[2]] = "none"
           /\ x.op # "analyze" => aiRelations'[s[1]][s[2]] = "none"
    BY <1>2, <1>o, <1>y, <2>1, <2>3, <2>4, LinkWritten
  <2>6. relations'[p][e] = "none"
    BY <2>5, <2>1, <1>b
  <2>7. relations'[e][p] = "none" \/ Loose(e)'
    <3>1. CASE x.op # "analyze"
      BY <3>1, <2>5, <1>b
    <3>2. CASE x.op = "analyze" /\ x.pc \in {"ais", "record"}
      <4>1. relations'[x.entry] = x.want
        BY <3>2, <2>1, <1>c DEF WholeHolds
      <4> QED
        BY <4>1, <2>1, <2>3
    <3>3. CASE x.op = "analyze" /\ x.pc \notin {"ais", "record"}
      <4>1. Loosens(x, e)
        BY <3>3, <2>1 DEF Loosens, Replaces
      <4> QED
        BY <4>1, <1>x DEF Loose, Loosens, Replaces
    <3> QED
      BY <3>1, <3>2, <3>3
  <2>8. ~Analyzed(p)'
    <3>1. \A b \in Actors : ~(act'[b].pc \in Places /\ act'[b].entry = p)
      BY <1>1, <1>x, <2>1
    <3> QED
      BY <3>1 DEF Analyzed, Replaces
  <2>9. ASSUME {e, p} \cap overtaken' = {}
        PROVE  /\ relations'[e][p] = relations'[p][e] /\ aiRelations'[e][p] = aiRelations'[p][e]
               /\ timeline'[e][p] = relations'[e][p] /\ timeline'[p][e] = relations'[p][e]
    <3>1. x.op # "analyze"
      <4> SUFFICES ASSUME x.op = "analyze" PROVE FALSE
        OBVIOUS
      <4>1. /\ y.drop = {} /\ y.unset = {}
            /\ y.pc \in AtASide => LinkOf(y, y.side) # "none"
        BY <1>h, <1>m, <1>o, <1>c, <2>1, <2>9 DEF NewHolds, SidesFit
      <4>2. \/ y.want[p] # "none"
            \/ <<p, e>> \in y.rows
            \/ y.pc \in AtASide /\ y.side = <<p, e>>
        BY <4>1, <1>m, <1>o, ReachedFrom
      <4>3. LinkOf(y, <<p, e>>) = y.want[p]
        BY <1>o DEF LinkOf, Peer
      <4>4. \A s \in y.rows : LinkOf(y, s) # "none"
        BY <1>m, <2>1 DEF SidesFit
      <4> QED
        BY <4>1, <4>2, <4>3, <4>4, <2>1, <2>3
    <3>2. /\ relations'[e][p] = "none" /\ relations'[p][e] = "none"
          /\ aiRelations'[e][p] = "none" /\ aiRelations'[p][e] = "none"
      BY <3>1, <2>5, <1>b
    <3>3. \A s \in Both(e, p) : timeline'[s[1]][s[2]] = "none"
      <4> SUFFICES ASSUME NEW s \in Both(e, p) PROVE timeline'[s[1]][s[2]] = "none"
        OBVIOUS
      <4>1. {p, x.entry} \cap overtaken' = {}
        BY <2>1, <2>9
      <4>2. s \in x.rows \/ timeline'[s[1]][s[2]] = x.want[p]
        BY <4>1, <3>1, <1>2, <1>o, <1>y, <2>1, RowWritten
      <4> QED
        BY <4>2, <2>3
    <3> QED
      BY <3>2, <3>3, <1>b
  <2> QED
    BY <2>6, <2>7, <2>8, <2>9 DEF PairHolds
<1>3. CASE Ends(a, x)
  <2>1. /\ y.pc = "record" /\ y.rows = {} /\ x.pc \notin Places
        /\ relations' = relations /\ aiRelations' = aiRelations /\ timeline' = timeline
    BY <1>3, <1>y DEF Ends
  <2>2. y.drop = {} /\ y.link = {} /\ y.unset = {} /\ y.pc \notin AtASide
    BY <2>1, <1>m DEF PlaceFits, AtASide
  <2>3. \A s : Done(y, s)
    BY <2>2 DEF Done
  <2>4. relations[p][e] = y.want[p]
    BY <1>h, <1>o, <1>c, <1>b, <2>3 DEF LinksHold
  <2>5. relations[e][p] = y.want[p]
    <3>1. CASE a \in Workers
      BY <3>1, <1>w, <1>h, <1>o, <1>c, <2>1 DEF WholeHolds
    <3>2. CASE a \notin Workers
      BY <3>2, <1>r, <1>h, <1>o, <1>c, <1>b, <2>3 DEF LinksHold
    <3> QED
      BY <3>1, <3>2
  <2>6. ~Analyzed(e)' /\ ~Analyzed(p)'
    BY <1>1, <1>x, <2>1 DEF Analyzed, Replaces
  <2>7. ASSUME {e, p} \cap overtaken' = {}
        PROVE  /\ aiRelations[e][p] = aiRelations[p][e]
               /\ timeline[e][p] = y.want[p] /\ timeline[p][e] = y.want[p]
    <3>1. {p, e} \cap overtaken = {}
      BY <2>7, <1>c
    <3>2. timeline[e][p] = y.want[p] /\ timeline[p][e] = y.want[p]
      <4>1. \A s \in Both(e, p) : timeline[s[1]][s[2]] = y.want[p]
        BY <3>1, <1>h, <1>o, <1>c, <2>1 DEF RowsHold
      <4> QED
        BY <4>1, <1>b
    <3>3. CASE a \in Workers
      <4>1. y.want[p] # "none"
        BY <2>1, <2>2, <1>m, <1>o, ReachedFrom
      <4>2. aiRelations[p][e] = y.want[p]
        BY <4>1, <3>1, <3>3, <1>w, <1>h, <1>o, <1>c, <2>3 DEF NewHolds
      <4>3. aiRelations[e] = y.want
        BY <3>3, <1>w, <1>h, <1>o, <1>c, <2>1 DEF WholeHolds
      <4> QED
        BY <4>2, <4>3, <3>2
    <3>4. CASE a \notin Workers
      <4>1. \A s \in Both(e, p) : aiRelations[s[1]][s[2]] = "none"
        BY <3>4, <1>r, <1>h, <1>o, <1>c, <2>3 DEF LinksHold
      <4> QED
        BY <4>1, <1>b, <3>2
    <3> QED
      BY <3>3, <3>4
  <2> QED
    BY <2>1, <2>4, <2>5, <2>6, <2>7 DEF PairHolds
<1>4. CASE GivesUp(a, x)
  <2>1. e \in left'
    BY <1>4, <1>o, <1>y, ReachIs DEF GivesUp
  <2> QED
    BY <2>1, <1>c
<1>5. ~Quiet(a, x) /\ ~BeginsEdit(a, x) /\ ~BeginsAnalysis(a, x)
  BY <1>o, <1>y DEF Quiet, BeginsEdit, BeginsAnalysis, Places, AtASide
<1> QED
  BY <1>2, <1>3, <1>4, <1>5 DEF Step

\* The step of an actor that is not at a link changes of it no more than what the
\* arrays of an analyzed entry lose.
LEMMA CellStays ==
    ASSUME TypeInv, Observed, NEW a \in Actors, NEW x \in ActType, Step(a, x),
           SideHolds(act[a]), NEW e \in Entries, NEW p \in Entries, e # p, e \notin met',
           ~On(act[a], e, p), ~On(act[a], p, e)
    PROVE  /\ \/ relations'[e][p] = relations[e][p]
              \/ Proceeds(a, x) /\ SetsRelations(a, x) /\ e = x.entry /\ relations'[e][p] = "none"
           /\ \/ aiRelations'[e][p] = aiRelations[e][p]
              \/ Proceeds(a, x) /\ SetsAIRelations(a, x) /\ e = x.entry /\ aiRelations'[e][p] = "none"
           /\ timeline'[e][p] = timeline[e][p]
<1>y. PICK y \in ActType : y = act[a] /\ ActorFits(a, y)
  BY ActorIs
<1>m. PlaceFits(y) /\ SidesFit(y) /\ CopyFits(y)
  BY <1>y DEF ActorFits
<1>1. CASE UNCHANGED <<relations, aiRelations, timeline>>
  BY <1>1
<1>2. CASE Proceeds(a, x)
  <2>1. GoesOn(y, x) /\ y.pc \in Places /\ x.entry = y.entry /\ x.want = y.want /\ y.entry \in Entries
    BY <1>2, <1>y, WriterIs DEF Proceeds, GoesOn
  <2>2. /\ Peers(y.want) \subseteq ReachOf(y)
        /\ \A s \in y.drop \cup y.link \cup y.unset \cup y.rows :
              s[1] \in ReachOf(y) /\ s[2] \in ReachOf(y) /\ y.entry \in {s[1], s[2]}
        /\ y.pc \in AtASide => /\ y.side[1] \in ReachOf(y) /\ y.side[2] \in ReachOf(y)
                               /\ y.entry \in {y.side[1], y.side[2]}
    BY <2>1, <1>m, Reached DEF SidesFit, CopyFits
  <2>3. y.pc \in AtASide => y.side # <<e, p>>
    BY <2>1, <2>2, <1>y DEF On
  <2>4. e = x.entry => x.want[p] = "none"
    BY <2>1, <2>2, <1>y DEF On, Peers
  <2>5. WritesRelations(a, x) \/ WritesAIRelations(a, x) => y.pc \in AtASide
    BY <1>y DEF WritesRelations, WritesAIRelations, AtASide
  <2>6. /\ \/ relations'[e][p] = relations[e][p]
           \/ SetsRelations(a, x) /\ e = x.entry /\ relations'[e][p] = x.want[p]
        /\ \/ aiRelations'[e][p] = aiRelations[e][p]
           \/ SetsAIRelations(a, x) /\ e = x.entry /\ aiRelations'[e][p] = x.want[p]
    BY <1>2, <1>y, <2>3, <2>5, Cells
  <2>7. timeline'[e][p] = timeline[e][p]
    <3>1. CASE PassesRow(a, x)
      <4>1. PICK s \in y.rows : \/ timeline' = [timeline EXCEPT ![s[1]][s[2]] = LinkOf(x, s)]
                                \/ timeline' = timeline
        BY <3>1, <1>y DEF PassesRow
      <4>2. s[1] # e \/ s[2] # p
        BY <2>1, <2>2, <1>y DEF On
      <4>3. s[1] \in Entries /\ s[2] \in Entries /\ timeline \in [Entries -> Links]
        BY SideIs DEF ActType, TypeInv, StoreTyped
      <4> QED
        BY <4>1, <4>2, <4>3 DEF Links
    <3>2. CASE timeline' = timeline
      BY <3>2
    <3> QED
      BY <1>2, <3>1, <3>2
         DEF Proceeds, ReadsSide, WritesRelations, WritesAIRelations, PassesReason, TurnsToRows,
             UnsetsAgain, SetsRelations, SetsAIRelations, entry
  <2> QED
    BY <1>2, <2>4, <2>6, <2>7
<1> QED
  BY <1>1, <1>2 DEF Step, Quiet, GivesUp, BeginsEdit, BeginsAnalysis, Ends, entry

\* An entry that is clear of faults keeps its analyzer until that one has set its
\* relations, and gets one no other way than by BeginsAnalysis.
LEMMA LooseStays ==
    ASSUME TypeInv, OneWriter, Observed, NEW a \in Actors, NEW x \in ActType, Step(a, x),
           NEW e \in Entries, Clear(e)'
    PROVE  /\ Loose(e) => Loose(e)' \/ (Proceeds(a, x) /\ SetsRelations(a, x) /\ x.entry = e)
           /\ Analyzed(e)' => Analyzed(e) \/ (BeginsAnalysis(a, x) /\ x.entry = e)
<1>y. PICK y \in ActType : y = act[a] /\ ActorFits(a, y)
  BY ActorIs
<1>x. act'[a] = x
  BY MineIs
<1>1. ASSUME NEW b \in Actors, Loosens(act[b], e)
      PROVE  Loose(e)' \/ (Proceeds(a, x) /\ SetsRelations(a, x) /\ x.entry = e)
  <2>1. CASE b # a
    <3>1. act'[b] = act[b]
      BY <2>1, OthersStay
    <3> QED
      BY <1>1, <3>1 DEF Loose, Loosens, Replaces
  <2>2. CASE b = a
    <3>1. y.pc \in Places \ {"ais", "record"} /\ y.op = "analyze" /\ y.entry = e
      BY <1>1, <1>y, <2>2 DEF Loosens, Replaces
    <3>2. e \in ReachOf(act[a])
      BY <3>1, <1>y, ReachedAs
    <3>3. CASE Proceeds(a, x)
      <4>1. x.op = "analyze" /\ x.entry = e /\ x.pc \in Places
        BY <3>3, <3>1, <1>y DEF Proceeds, GoesOn
      <4>2. CASE x.pc \notin {"ais", "record"}
        BY <4>1, <4>2, <1>x DEF Loose, Loosens, Replaces
      <4>3. CASE x.pc \in {"ais", "record"}
        <5>1. a \notin Requests
          BY <3>1, <1>y DEF ActorFits, RequestFits
        <5>2. SetsRelations(a, x)
          BY <3>1, <3>3, <4>3, <5>1, <1>y
             DEF Proceeds, ReadsSide, HasRead, WritesRelations, WritesAIRelations, PassesReason,
                 PassesRow, TurnsToRows, UnsetsAgain, SetsAIRelations
        <5> QED
          BY <3>3, <4>1, <5>2
      <4> QED
        BY <4>2, <4>3
    <3>4. CASE GivesUp(a, x)
      <4>1. e \in left'
        BY <3>2, <3>4, <1>y, ReachIs DEF GivesUp
      <4> QED
        BY <4>1 DEF Clear
    <3>5. ~Quiet(a, x) /\ ~BeginsEdit(a, x) /\ ~BeginsAnalysis(a, x) /\ ~Ends(a, x)
      BY <3>1, <1>y DEF Quiet, BeginsEdit, BeginsAnalysis, Ends, Places, AtASide
    <3> QED
      BY <3>3, <3>4, <3>5 DEF Step
  <2> QED
    BY <2>1, <2>2
<1>2. ASSUME NEW b \in Actors, Replaces(act'[b], e)
      PROVE  Analyzed(e) \/ (BeginsAnalysis(a, x) /\ x.entry = e)
  <2>1. CASE b # a
    <3>1. act'[b] = act[b]
      BY <2>1, OthersStay
    <3> QED
      BY <1>2, <3>1 DEF Analyzed
  <2>2. CASE b = a
    <3>1. x.pc \in Places /\ x.op = "analyze" /\ x.entry = e
      BY <1>2, <1>x, <2>2 DEF Replaces
    <3>2. CASE Proceeds(a, x)
      <4>1. Replaces(act[a], e)
        BY <3>1, <3>2 DEF Replaces, Proceeds, GoesOn
      <4> QED
        BY <4>1 DEF Analyzed
    <3>3. CASE BeginsAnalysis(a, x)
      BY <3>1, <3>3
    <3>4. ~BeginsEdit(a, x)
      BY <3>1 DEF BeginsEdit, Step, Turns, ActorFits, RequestFits
    <3> QED
      BY <3>1, <3>2, <3>3, <3>4 DEF Step, Quiet, GivesUp, Ends
  <2> QED
    BY <2>1, <2>2
<1>3. Loose(e) => Loose(e)' \/ (Proceeds(a, x) /\ SetsRelations(a, x) /\ x.entry = e)
  <2> SUFFICES ASSUME Loose(e)
               PROVE  Loose(e)' \/ (Proceeds(a, x) /\ SetsRelations(a, x) /\ x.entry = e)
    OBVIOUS
  <2>1. PICK b \in Actors : Loosens(act[b], e)
    BY DEF Loose
  <2> QED
    BY <2>1, <1>1
<1>4. Analyzed(e)' => Analyzed(e) \/ (BeginsAnalysis(a, x) /\ x.entry = e)
  <2> SUFFICES ASSUME Analyzed(e)'
               PROVE  Analyzed(e) \/ (BeginsAnalysis(a, x) /\ x.entry = e)
    OBVIOUS
  <2>1. PICK b \in Actors : Replaces(act'[b], e)
    BY DEF Analyzed, Replaces
  <2> QED
    BY <2>1, <1>2
<1> QED
  BY <1>3, <1>4

\* A link that no actor is at, neither before the step nor after it.
LEMMA PairKept ==
    ASSUME TypeInv, OneWriter, OneWriter', Observed, NEW a \in Actors, NEW x \in ActType,
           Step(a, x), TaskHolds(act[a]), NEW e \in Entries, NEW p \in Entries, e # p,
           Clear(e)', Clear(p)', ~On(act[a], e, p), ~On(act[a], p, e), ~On(x, e, p),
           \A b \in Actors : ~On(act[b], e, p) /\ ~On(act[b], p, e),
           PairHolds(e, p),
           \/ x.entry # p
           \/ ~SetsRelations(a, x) /\ ~SetsAIRelations(a, x) /\ ~BeginsAnalysis(a, x)
    PROVE  PairHolds(e, p)'
<1>y. PICK y \in ActType : y = act[a] /\ ActorFits(a, y)
  BY ActorIs
<1>m. PlaceFits(x) /\ SidesFit(x) /\ CopyFits(x)
  BY MineIs
<1>h. SideHolds(y) /\ NewHolds(y)
  BY <1>y DEF TaskHolds
<1>c. /\ Clear(e) /\ Clear(p) /\ e \notin met' /\ p \notin met'
      /\ {e, p} \cap overtaken' = {} => {e, p} \cap overtaken = {}
  BY GhostsGrow DEF Clear
<1>1. /\ relations[e][p] = relations[p][e] \/ Loose(e) \/ Loose(p)
      /\ Analyzed(e) => relations[p][e] = "none" \/ Loose(p)
      /\ Analyzed(p) => relations[e][p] = "none" \/ Loose(e)
      /\ {e, p} \cap overtaken = {} =>
            /\ relations[e][p] = relations[p][e] /\ aiRelations[e][p] = aiRelations[p][e]
            /\ timeline[e][p] = relations[e][p] /\ timeline[p][e] = relations[p][e]
  BY <1>c DEF PairHolds
<1>2. /\ relations'[p][e] = relations[p][e] /\ aiRelations'[p][e] = aiRelations[p][e]
      /\ timeline'[p][e] = timeline[p][e] /\ timeline'[e][p] = timeline[e][p]
  BY <1>c, <1>h, <1>y, CellStays
<1>3. /\ Loose(p) => Loose(p)'
      /\ Analyzed(p)' => Analyzed(p)
  BY <1>c, LooseStays
<1>4. /\ \/ relations'[e][p] = relations[e][p]
         \/ Proceeds(a, x) /\ SetsRelations(a, x) /\ e = x.entry /\ relations'[e][p] = "none"
      /\ \/ aiRelations'[e][p] = aiRelations[e][p]
         \/ Proceeds(a, x) /\ SetsAIRelations(a, x) /\ e = x.entry /\ aiRelations'[e][p] = "none"
  BY <1>c, <1>h, <1>y, CellStays
<1>5. /\ Loose(e) => Loose(e)' \/ (Proceeds(a, x) /\ SetsRelations(a, x) /\ x.entry = e)
      /\ Analyzed(e)' => Analyzed(e) \/ (BeginsAnalysis(a, x) /\ x.entry = e)
  BY <1>c, LooseStays
<1>6. SUFFICES /\ relations'[e][p] = relations[p][e] \/ Loose(e)' \/ Loose(p)'
               /\ Analyzed(e)' => relations[p][e] = "none" \/ Loose(p)'
               /\ Analyzed(p)' => relations'[e][p] = "none" \/ Loose(e)'
               /\ {e, p} \cap overtaken = {} =>
                     /\ relations'[e][p] = relations[e][p]
                     /\ aiRelations'[e][p] = aiRelations[e][p]
  BY <1>1, <1>2, <1>c DEF PairHolds
<1>7. CASE Proceeds(a, x) /\ SetsRelations(a, x) /\ x.entry = e
  <2>1. /\ y.pc = "sides" /\ y.pc \in Places /\ y.entry = e /\ y.op = "analyze"
        /\ aiRelations' = aiRelations
    BY <1>7, <1>y DEF Proceeds, GoesOn, SetsRelations, ActorFits, WorkerFits
  <2>2. Analyzed(e)
    BY <2>1, <1>y DEF Analyzed, Replaces
  <2>3. relations[p][e] = "none" \/ Loose(p)'
    BY <2>2, <1>1, <1>3
  <2>4. relations'[e][p] = "none"
    <3>1. relations' = [relations EXCEPT ![e] = x.want] /\ x.want = y.want
      BY <1>7, <1>y DEF SetsRelations, Proceeds, GoesOn
    <3>2. relations'[e] = y.want
      BY <3>1 DEF TypeInv, StoreTyped
    <3>3. p \notin Peers(y.want)
      BY <2>1, <1>y, Reached DEF On, ActorFits
    <3> QED
      BY <3>2, <3>3 DEF Peers
  <2>5. {e, p} \cap overtaken = {} => relations[e][p] = "none"
    BY <2>1, <1>c, <1>h DEF NewHolds, NoLinks
  <2> QED
    BY <2>1, <2>3, <2>4, <2>5
<1>8. CASE Proceeds(a, x) /\ SetsAIRelations(a, x) /\ x.entry = e
  <2>1. /\ y.pc = "ais" /\ y.pc \in Places /\ y.entry = e /\ y.op = "analyze"
        /\ relations' = relations
    BY <1>8, <1>y DEF Proceeds, GoesOn, SetsAIRelations, ActorFits, WorkerFits
  <2>2. ~SetsRelations(a, x) /\ ~BeginsAnalysis(a, x)
    BY <2>1, <1>y DEF SetsRelations, BeginsAnalysis
  <2>3. {e, p} \cap overtaken = {} => aiRelations[e][p] = "none"
    BY <2>1, <1>c, <1>h DEF NewHolds, NoLinks
  <2> QED
    BY <2>1, <2>2, <2>3, <1>1, <1>3, <1>4, <1>5
<1>9. CASE BeginsAnalysis(a, x) /\ x.entry = e
  <2>1. /\ x.pc = "sides" /\ x.pc \in Places /\ act[a].pc = "existing" /\ a \in Workers
        /\ relations' = relations /\ aiRelations' = aiRelations
        /\ x.drop = {<<q, e>> : q \in Peers(relations[e]) \ Peers(x.want)}
    BY <1>9 DEF BeginsAnalysis, Places, entry
  <2>2. x.op = "analyze"
    BY <2>1 DEF Step, Turns, ActorFits, WorkerFits
  <2>3. Loose(e)'
    <3>1. act'[a] = x
      BY MineIs
    <3> QED
      BY <3>1, <2>1, <2>2, <1>9 DEF Loose, Loosens, Replaces
  <2>4. e \in ReachOf(x) /\ p \notin ReachOf(x)
    BY <2>1, <1>9, <1>m, Reached DEF On
  <2>5. ~Loose(e)
    <3> SUFFICES ASSUME NEW b \in Actors, Loosens(act[b], e) PROVE FALSE
      BY DEF Loose
    <3>1. b # a /\ act[b].pc \in Places /\ act[b].entry = e
      BY <2>1 DEF Loosens, Replaces, Places, AtASide
    <3>2. e \in ReachOf(act[b])
      BY <3>1, ReachedAs
    <3> QED
      BY <3>1, <3>2, <2>4, <1>c, Alone
  <2>6. relations[e][p] = "none"
    <3>1. p \notin Peers(x.want) /\ <<p, e>> \notin x.drop
      <4>1. /\ Peers(x.want) \subseteq ReachOf(x)
            /\ \A s \in x.drop : s[1] \in ReachOf(x)
        BY <2>1, <1>m, Reached
      <4> QED
        BY <4>1, <2>4
    <3>2. p \notin Peers(relations[e])
      BY <3>1, <2>1
    <3> QED
      BY <3>2 DEF Peers
  <2>7. relations[p][e] = "none" \/ Loose(p)'
    BY <2>5, <2>6, <1>1, <1>3
  <2> QED
    BY <2>1, <2>3, <2>6, <2>7
<1>10. CASE ~(Proceeds(a, x) /\ SetsRelations(a, x) /\ x.entry = e)
            /\ ~(Proceeds(a, x) /\ SetsAIRelations(a, x) /\ x.entry = e)
            /\ ~(BeginsAnalysis(a, x) /\ x.entry = e)
  BY <1>10, <1>1, <1>3, <1>4, <1>5
<1> QED
  BY <1>7, <1>8, <1>9, <1>10

\* The two sides of a link, either way round.
LEMMA PairTurned ==
    ASSUME NEW e, NEW p
    PROVE  /\ PairHolds(e, p) => PairHolds(p, e)
           /\ PairHolds(e, p)' => PairHolds(p, e)'
BY DEF PairHolds

LEMMA PairStays ==
    ASSUME TypeInv, OneWriter, OneWriter', Observed, NEW a \in Actors, NEW x \in ActType,
           Step(a, x), TaskHolds(act[a]), WholeHolds(x)',
           \A e, p \in Entries : PairHolds(e, p), NEW e \in Entries, NEW p \in Entries
    PROVE  PairHolds(e, p)'
<1>x. act'[a] = x
  BY MineIs
<1>1. SUFFICES ASSUME e # p, Clear(e)', Clear(p)',
                      ~On(x, e, p), ~On(x, p, e),
                      \A b \in Actors : b # a => ~On(act'[b], e, p) /\ ~On(act'[b], p, e)
               PROVE  PairHolds(e, p)'
  <2>1. CASE e # p /\ Clear(e)' /\ Clear(p)'
             /\ \A b \in Actors : ~On(act'[b], e, p) /\ ~On(act'[b], p, e)
    BY <2>1, <1>x, <1>1
  <2>2. CASE ~(e # p /\ Clear(e)' /\ Clear(p)')
    BY <2>2 DEF PairHolds
  <2>3. CASE \E b \in Actors : On(act'[b], e, p) \/ On(act'[b], p, e)
    BY <2>3 DEF PairHolds, On, ReachOf
  <2> QED
    BY <2>1, <2>2, <2>3
<1>2. CASE On(act[a], e, p)
  BY <1>1, <1>2, LeavesPair
<1>3. CASE On(act[a], p, e)
  <2>1. PairHolds(p, e)'
    BY <1>1, <1>3, LeavesPair
  <2> QED
    BY <2>1, PairTurned
<1>4. CASE ~On(act[a], e, p) /\ ~On(act[a], p, e)
  <2>1. \A b \in Actors : ~On(act[b], e, p) /\ ~On(act[b], p, e)
    <3> SUFFICES ASSUME NEW b \in Actors, b # a PROVE ~On(act[b], e, p) /\ ~On(act[b], p, e)
      BY <1>4
    <3>1. act'[b] = act[b]
      BY OthersStay
    <3> QED
      BY <1>1, <3>1
  <2>2. CASE x.entry # p
    BY <1>1, <1>4, <2>1, <2>2, PairKept
  <2>3. CASE x.entry # e
    <3>1. PairHolds(p, e)'
      BY <1>1, <1>4, <2>1, <2>3, PairKept
    <3> QED
      BY <3>1, PairTurned
  <2> QED
    BY <1>1, <2>2, <2>3
<1> QED
  BY <1>2, <1>3, <1>4

-----------------------------------------------------------------------------
(* The invariant, from the start and through every step.                   *)

LEMMA HoldsStart == Init => Holds
<1> SUFFICES ASSUME Init PROVE Holds
  OBVIOUS
<1>t. TypeInv
  BY TypesStart
<1>1. \A a \in Actors : act[a].op = "none" /\ act[a].pc \notin Places
  <2> SUFFICES ASSUME NEW a \in Actors PROVE act[a].op = "none" /\ act[a].pc \notin Places
    OBVIOUS
  <2>1. PICK pc \in {"idle", "new"} : act[a] = Ended(pc)
    BY DEF Init, Actors
  <2> QED
    BY <2>1 DEF Ended, Places, AtASide
<1>2. \A a \in Actors : TaskHolds(act[a])
  BY <1>1 DEF TaskHolds, SideHolds, WholeHolds, NewHolds, LinksHold, RowsHold, Places
<1>3. \A e, p \in Entries : /\ relations[e][p] = "none" /\ aiRelations[e][p] = "none"
                            /\ reasons[e] = {} /\ timeline[e][p] = "none"
  BY DEF Init, NoLinks
<1>4. \A e \in Entries : FlagsHold(e)
  BY <1>3 DEF FlagsHold
<1>5. \A e, p \in Entries : PairHolds(e, p)
  BY <1>3 DEF PairHolds
<1> QED
  BY <1>2, <1>4, <1>5 DEF Holds

\* Claims that expire, and steps that change nothing here, leave it as it is.
LEMMA HoldsStill ==
    ASSUME TypeInv, Holds, UNCHANGED <<entry, act>>,
           met \subseteq met', left \subseteq left', overtaken \subseteq overtaken'
    PROVE  Holds'
<1>u. /\ relations' = relations /\ aiRelations' = aiRelations /\ reasons' = reasons
      /\ timeline' = timeline /\ act' = act
  BY DEF entry
<1>c. \A e : /\ Clear(e)' => Clear(e)
             /\ e \notin met' => e \notin met
             /\ e \notin overtaken' => e \notin overtaken
  BY DEF Clear
<1>1. ASSUME NEW a \in Actors
      PROVE  TaskHolds(act[a])'
  <2>y. PICK y \in ActType : y = act[a]
    BY ActorIs
  <2>1. SideHolds(y) /\ WholeHolds(y) /\ NewHolds(y) /\ LinksHold(y) /\ RowsHold(y)
    BY <2>y DEF Holds, TaskHolds
  <2>2. SideHolds(y)'
    BY <2>1, <1>u, <1>c DEF SideHolds
  <2>3. WholeHolds(y)'
    BY <2>1, <1>u, <1>c DEF WholeHolds
  <2>4. NewHolds(y)'
    BY <2>1, <1>u, <1>c DEF NewHolds, Done, LinkOf, Peer
  <2>5. LinksHold(y)'
    BY <2>1, <1>u, <1>c DEF LinksHold, ReachOf, Both, Done
  <2>6. RowsHold(y)'
    <3>1. \A p : {p, y.entry} \cap overtaken' = {} => {p, y.entry} \cap overtaken = {}
      BY <1>c
    <3> QED
      BY <2>1, <1>u, <1>c, <3>1 DEF RowsHold, ReachOf, Both
  <2> QED
    <3>1. TaskHolds(y)'
      BY <2>2, <2>3, <2>4, <2>5, <2>6 DEF TaskHolds
    <3>2. act'[a] = y
      BY <2>y, <1>u
    <3> QED
      BY <3>1, <3>2, TaskIs
<1>2. ASSUME NEW e \in Entries
      PROVE  FlagsHold(e)'
  <2>1. FlagsHold(e)
    BY DEF Holds
  <2> QED
    BY <2>1, <1>u, <1>c DEF FlagsHold
<1>3. ASSUME NEW e \in Entries, NEW p \in Entries
      PROVE  PairHolds(e, p)'
  <2>1. PairHolds(e, p)
    BY DEF Holds
  <2>2. /\ \A a \in Actors : On(act[a], e, p)' = On(act[a], e, p) /\ On(act[a], p, e)' = On(act[a], p, e)
        /\ Analyzed(e)' = Analyzed(e) /\ Analyzed(p)' = Analyzed(p)
        /\ Loose(e)' = Loose(e) /\ Loose(p)' = Loose(p)
    BY <1>u DEF On, ReachOf, Analyzed, Loose, Loosens, Replaces
  <2>3. {e, p} \cap overtaken' = {} => {e, p} \cap overtaken = {}
    BY <1>c
  <2> QED
    BY <2>1, <2>2, <2>3, <1>u, <1>c DEF PairHolds
<1> QED
  BY <1>1, <1>2, <1>3 DEF Holds

LEMMA HoldsStays == IInv /\ [Next]_vars => Holds'
<1> SUFFICES ASSUME IInv, [Next]_vars PROVE Holds'
  OBVIOUS
<1>i. TypeInv /\ OneWriter /\ Holds /\ OneWriter'
  BY OneWriterStays DEF IInv
<1>1. CASE UNCHANGED vars
  BY <1>i, <1>1, HoldsStill DEF vars, ghosts
<1>2. CASE Next
  <2>1. Observed
    BY <1>i, <1>2, Observing
  <2>2. CASE \E e \in Entries : Expire(e)
    <3>1. /\ UNCHANGED <<entry, act>>
          /\ met \subseteq met' /\ left \subseteq left' /\ overtaken \subseteq overtaken'
      BY <2>1, <2>2 DEF Expire, Observed
    <3> QED
      BY <3>1, <1>i, HoldsStill
  <2>3. CASE \E a \in Actors, x \in ActType : Step(a, x)
    <3>1. PICK a \in Actors, x \in ActType : Step(a, x)
      BY <2>3
    <3>2. /\ TaskHolds(act[a])
          /\ \A e \in Entries : FlagsHold(e)
          /\ \A e, p \in Entries : PairHolds(e, p)
      BY <1>i DEF Holds
    <3>w. WholeHolds(x)'
      BY <1>i, <2>1, <3>1, <3>2, OwnWhole
    <3>3. TaskHolds(x)'
      <4>1. SideHolds(x)' /\ NewHolds(x)'
        BY <1>i, <2>1, <3>1, <3>2, OwnSide, OwnNew
      <4>2. LinksHold(x)' /\ RowsHold(x)'
        BY <1>i, <2>1, <3>1, <3>2, OwnLinks, OwnRows
      <4> QED
        BY <3>w, <4>1, <4>2 DEF TaskHolds
    <3>4. ASSUME NEW b \in Actors
          PROVE  TaskHolds(act[b])'
      <4>1. CASE b = a
        <5>1. act'[b] = x
          BY <4>1, <3>1, <1>i, MineIs
        <5> QED
          BY <4>1, <5>1, <3>3, TaskIs
      <4>2. CASE b # a
        <5>1. TaskHolds(act[b])
          BY <1>i DEF Holds
        <5> QED
          BY <5>1, <4>2, <3>1, <2>1, <1>i, Bystander
      <4> QED
        BY <4>1, <4>2
    <3>5. \A e \in Entries : FlagsHold(e)'
      BY <1>i, <2>1, <3>1, <3>2, FlagsStay
    <3>6. \A e, p \in Entries : PairHolds(e, p)'
      BY <1>i, <2>1, <3>1, <3>2, <3>w, PairStays
    <3> QED
      BY <3>4, <3>5, <3>6 DEF Holds
  <2> QED
    BY <1>i, <1>2, <2>2, <2>3, Steps
<1> QED
  BY <1>1, <1>2

-----------------------------------------------------------------------------
(* The theorems.                                                           *)

\* Throughout, every actor, entry and link is as the inductive invariant says.
THEOREM Invariant == Spec => []IInv
<1>1. Init => IInv
  BY TypesStart, OneWriterStarts, HoldsStart DEF IInv
<1>2. IInv /\ [Next]_vars => IInv'
  BY TypesStay, OneWriterStays, HoldsStays DEF IInv
<1> QED
  BY <1>1, <1>2, PTL DEF Spec

\* Every variable stays in its type, and an analyzer that is not idle has an entry.
THEOREM TypesHold == Spec => []TypeOK
<1>1. IInv => TypeOK
  <2> SUFFICES ASSUME TypeInv PROVE TypeOK
    BY DEF IInv
  <2>1. ASSUME NEW w \in Workers
        PROVE  act[w].pc = "idle" <=> act[w].entry = NoEntry
    <3>1. w \in Actors
      BY DEF Actors
    <3>2. PlaceFits(act[w]) /\ WorkerFits(act[w])
      BY <3>1, ActorIs DEF ActorFits
    <3> QED
      BY <3>2 DEF PlaceFits, WorkerFits, Resting
  <2>2. ASSUME NEW a \in Actors
        PROVE  /\ act[a].want \in Links
               /\ act[a].drop \cup act[a].link \cup act[a].unset \cup act[a].rows
                  \subseteq Entries \X Entries
               /\ act[a].rels \in Links /\ act[a].ais \in Links
               /\ act[a].pc \in {"relations", "airelations", "reason"} <=> act[a].side # NoSide
    <3>1. act[a] \in ActType /\ PlaceFits(act[a])
      BY ActorIs DEF ActorFits
    <3>2. Sides \subseteq Entries \X Entries
      BY DEF Sides
    <3> QED
      BY <3>1, <3>2 DEF ActType, PlaceFits, AtASide
  <2>3. met \cup left \cup overtaken \subseteq Entries
    BY DEF TypeInv
  <2> QED
    BY <2>1, <2>2, <2>3 DEF TypeOK, TypeInv, StoreTyped, Actors
<1> QED
  BY <1>1, Invariant, PTL

\* Nobody writes to a settled entry.
LEMMA SettledIs ==
    ASSUME TypeInv, NEW e \in Entries, Settled(e)
    PROVE  /\ Clear(e) /\ \A a \in Actors : e \notin ReachOf(act[a])
           /\ \A a \in Actors, p \in Entries : ~On(act[a], e, p)
           /\ ~Analyzed(e) /\ ~Loose(e)
<1>1. \A a \in Actors : e \notin ReachOf(act[a])
  <2> SUFFICES ASSUME NEW a \in Actors, e \in ReachOf(act[a]) PROVE FALSE
    OBVIOUS
  <2>1. Reach(a) = ReachOf(act[a])
    BY ActorIs, ReachIs
  <2> QED
    BY <2>1 DEF Settled, Writers, Actors
<1>2. \A a \in Actors : ~(act[a].pc \in Places /\ act[a].entry = e)
  BY <1>1, ReachedAs
<1> QED
  BY <1>1, <1>2 DEF Settled, Clear, On, Analyzed, Loose, Loosens, Replaces

\* A link is on both of its entries, with one type, wherever no two writers met
\* and none failed.
THEOREM LinksStayMutual == Spec => []LinksAreMutual
<1>1. IInv => LinksAreMutual
  <2> SUFFICES ASSUME IInv, NEW e \in Entries, NEW p \in Entries, Settled(e), Settled(p)
               PROVE  relations[e][p] = relations[p][e]
    BY DEF LinksAreMutual
  <2>1. CASE e # p
    <3>1. TypeInv /\ PairHolds(e, p)
      BY DEF IInv, Holds
    <3> QED
      BY <2>1, <3>1, SettledIs DEF PairHolds
  <2> QED
    BY <2>1
<1> QED
  BY <1>1, Invariant, PTL

\* There, only links that are there are flagged, and only flagged ones have reasons.
THEOREM FlagsKeepStep == Spec => []FlagsInLockstep
<1>1. IInv => FlagsInLockstep
  <2> SUFFICES ASSUME IInv, NEW e \in Entries, Settled(e), NEW p \in Entries
               PROVE  /\ aiRelations[e][p] \in {"none", relations[e][p]}
                      /\ p \in reasons[e] => aiRelations[e][p] # "none"
    BY DEF FlagsInLockstep
  <2>1. TypeInv /\ FlagsHold(e)
    BY DEF IInv, Holds
  <2>2. Clear(e) /\ \A a \in Actors : e \notin ReachOf(act[a])
    BY <2>1, SettledIs
  <2>3. \A a \in Actors :
          /\ ~(act[a].pc \in AtASide /\ act[a].side[1] = e)
          /\ ~(act[a].pc \in Places /\ act[a].entry = e)
    BY <2>1, <2>2, ReachedAs
  <2>4. \A a \in Actors :
          /\ ~(act[a].pc \in {"airelations", "reason"} /\ act[a].side = <<e, p>>)
          /\ ~(act[a].pc \in {"ais", "record"} /\ act[a].entry = e)
    BY <2>3 DEF AtASide, Places
  <2>5. Workers \subseteq Actors
    BY DEF Actors
  <2> QED
    BY <2>1, <2>2, <2>4, <2>5 DEF FlagsHold
<1> QED
  BY <1>1, Invariant, PTL

\* There, both sides agree on who made a link, and both timelines show it, unless an
\* admin linked one of the entries while it was analyzed.
THEOREM SidesStayAgreed == Spec => []SidesAgree
<1>1. IInv => SidesAgree
  <2> SUFFICES ASSUME IInv, NEW e \in Entries, NEW p \in Entries, Settled(e), Settled(p),
                      {e, p} \cap overtaken = {}
               PROVE  /\ timeline[e][p] = relations[e][p]
                      /\ aiRelations[e][p] = aiRelations[p][e]
    BY DEF SidesAgree
  <2>1. TypeInv /\ PairHolds(e, p)
    BY DEF IInv, Holds
  <2>2. CASE e # p
    BY <2>1, <2>2, SettledIs DEF PairHolds
  <2>3. CASE e = p
    BY <2>1, <2>3 DEF TypeInv, NoSelf
  <2> QED
    BY <2>2, <2>3
<1> QED
  BY <1>1, Invariant, PTL

\* An analysis that ends well leaves every link of its entry on both sides, whatever
\* was left half-way before it, unless writers met.
THEOREM AnalysisMends == Spec => RetryMends
<1>1. IInv /\ [Next]_vars =>
        [\A w \in Workers :
           LET e == act[w].entry IN
           Finish(w) /\ e \notin overtaken
           => \A p \in Peers(relations[e]) :
                 {e, p} \cap met = {} => relations[p][e] = relations[e][p]]_vars
  <2> SUFFICES ASSUME IInv, NEW w \in Workers, Finish(w), act[w].entry \notin overtaken,
                      NEW p \in Peers(relations[act[w].entry]), {act[w].entry, p} \cap met = {}
               PROVE  relations[p][act[w].entry] = relations[act[w].entry][p]
    OBVIOUS
  <2>a. w \in Actors /\ TypeInv
    BY DEF Actors, IInv
  <2>y. PICK y \in ActType : y = act[w] /\ ActorFits(w, y)
    BY <2>a, ActorIs
  <2>1. y.pc = "record" /\ y.pc \in Places /\ y.pc \notin AtASide
    BY <2>y DEF Finish, Places, AtASide
  <2>2. y.op = "analyze" /\ y.drop = {} /\ y.link = {}
    BY <2>1, <2>y DEF ActorFits, WorkerFits, PlaceFits
  <2>3. WholeHolds(y) /\ NewHolds(y)
    BY <2>a, <2>y DEF IInv, Holds, TaskHolds
  <2>4. relations[y.entry] = y.want
    BY <2>1, <2>2, <2>3, <2>y DEF WholeHolds
  <2>5. p \in Entries /\ y.want[p] # "none"
    BY <2>4, <2>y DEF Peers
  <2>6. Done(y, <<p, y.entry>>)
    BY <2>1, <2>2 DEF Done
  <2>7. relations[p][y.entry] = y.want[p]
    BY <2>1, <2>2, <2>3, <2>5, <2>6, <2>y DEF NewHolds
  <2> QED
    BY <2>4, <2>7, <2>y
<1> QED
  BY <1>1, Invariant, PTL DEF Spec, RetryMends
=============================================================================
