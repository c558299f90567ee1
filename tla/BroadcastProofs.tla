-------------------------- MODULE BroadcastProofs --------------------------
(***************************************************************************)
(* The properties of Broadcast for any number of connections, rooms,       *)
(* admins and broadcasts.                                                  *)
(***************************************************************************)
EXTENDS Broadcast, RoomManagerProofs, FiniteSetTheorems

Casts == [room : Rooms \cup {None}, except : Conns \cup {None}, obj : Objs \cup {None},
          todo : SUBSET Conns, got : SUBSET Conns, refused : SUBSET Conns,
          count : Nat, steady : SUBSET Conns]

CastType ==
    /\ bpc \in [Broadcasters -> {"idle", "busy", "done"}]
    /\ bcast \in [Broadcasters -> Casts]

\* The guard of the room's entry keeps the object that of the room.
HeldInv == \A b \in Busy : bcast[b].room # None =>
    bcast[b].obj = rooms[bcast[b].room] /\ bcast[b].obj # None

\* Who is steady is a recipient now, and has been come to or will be.
SteadyInv == \A b \in Busy :
    /\ bcast[b].steady \subseteq Present[bcast[b].room] \ {bcast[b].except}
    /\ bcast[b].steady \subseteq bcast[b].got \cup bcast[b].refused \cup bcast[b].todo

\* Nobody is come to twice, so that the copies are counted right.
CountInv == \A b \in Broadcasters :
    /\ IsFiniteSet(bcast[b].got) /\ bcast[b].count = Cardinality(bcast[b].got)
    /\ bcast[b].got \cap bcast[b].todo = {}

CastInv == Base /\ CastType /\ HeldInv /\ SteadyInv /\ CountInv /\ AllMembersOffered

\* What a step may hand out.
HandedOut == \A b \in Broadcasters : \A c \in bcast'[b].got \ bcast[b].got :
    c \in Present[bcast[b].room] /\ c # bcast[b].except

-----------------------------------------------------------------------------

\* A broadcast that has not begun has a well-typed record.
LEMMA NoCastType == NoCast \in Casts
BY DEF NoCast, Casts

\* Present has connections only.
LEMMA PresentType ==
    ASSUME TypeOK, NEW r \in Rooms \cup {None}
    PROVE  Present[r] \subseteq Conns
BY DEF Present, TypeOK

\* A steady recipient is a recipient when it is come to.
LEMMA SteadyRecipient ==
    ASSUME CastInv, NEW b \in Busy, NEW c \in bcast[b].steady
    PROVE  Recipient(b, c)
<1>1. bcast[b].room \in Rooms \cup {None}
  BY DEF CastInv, CastType, Casts, Busy
<1>2. c \in Present[bcast[b].room] /\ c # bcast[b].except
  BY DEF CastInv, SteadyInv
<1> QED
  BY <1>1, <1>2 DEF CastInv, HeldInv, Present, Mapped, Recipient

\* And only those present are recipients.
LEMMA RecipientPresent ==
    ASSUME CastInv, NEW b \in Busy, NEW c, Recipient(b, c)
    PROVE  c \in Present[bcast[b].room] /\ c # bcast[b].except
<1>1. bcast[b].room \in Rooms \cup {None}
  BY DEF CastInv, CastType, Casts, Busy
<1>2. c \in connections /\ c # bcast[b].except
  BY DEF Recipient
<1>3. bcast[b].room # None => Mapped(c, bcast[b].room)
  BY DEF Recipient, CastInv, HeldInv, Mapped
<1> QED
  BY <1>1, <1>2, <1>3 DEF Present

-----------------------------------------------------------------------------
(* Each step keeps CastInv.                                                *)

\* A step of the RoomManager: it leaves the entries that are held, and who
\* is no recipient any more is not steady.
LEMMA ManagerCast ==
    ASSUME CastInv, Manager
    PROVE  CastInv' /\ HandedOut
<1> USE DEF CastInv
<1>1. Base'
  BY BaseStep DEF Manager
<1>2. UNCHANGED bpc /\ Busy' = Busy
  BY DEF Manager, Busy
<1>3. ASSUME NEW b \in Broadcasters
      PROVE  /\ bcast[b] \in Casts /\ bcast'[b] \in Casts
             /\ bcast'[b].room = bcast[b].room /\ bcast'[b].except = bcast[b].except
             /\ bcast'[b].obj = bcast[b].obj /\ bcast'[b].todo = bcast[b].todo
             /\ bcast'[b].got = bcast[b].got /\ bcast'[b].refused = bcast[b].refused
             /\ bcast'[b].count = bcast[b].count
             /\ bcast'[b].steady = bcast[b].steady \cap Present'[bcast[b].room]
  <2>1. bcast[b] \in Casts
    BY DEF CastType
  <2>2. bcast'[b] = [bcast[b] EXCEPT !.steady = @ \cap Present'[bcast[b].room]]
    BY DEF Manager
  <2> QED
    BY <2>1, <2>2 DEF Casts
<1>4. CastType'
  BY <1>2, <1>3 DEF CastType, Manager
<1>5. HeldInv'
  <2> SUFFICES ASSUME NEW b \in Busy, bcast[b].room # None
               PROVE  rooms'[bcast[b].room] = rooms[bcast[b].room]
    BY <1>2, <1>3 DEF HeldInv, Busy
  <2>1. bcast[b].room \in Guarded
    BY DEF Guarded
  <2> QED
    BY <2>1 DEF Manager
<1>6. SteadyInv'
  BY <1>2, <1>3 DEF SteadyInv, Busy
<1>7. CountInv'
  BY <1>3 DEF CountInv
<1>8. AllMembersOffered'
  BY <1>2, <1>3 DEF AllMembersOffered
<1>9. HandedOut
  BY <1>3 DEF HandedOut
<1> QED
  BY <1>1, <1>4, <1>5, <1>6, <1>7, <1>8, <1>9

\* A broadcast begins: everybody is still to be come to.
LEMMA BeginCast ==
    ASSUME CastInv, NEW b \in Broadcasters, BcastBegin(b)
    PROVE  CastInv' /\ HandedOut
<1> USE DEF CastInv
<1>1. PICK r \in Rooms \cup {None}, x \in Conns \cup {None} : Start(b, r, x)
  BY DEF BcastBegin
<1>2. UNCHANGED vars /\ Base' /\ Present' = Present
  BY <1>1, BaseStep DEF Start, vars, maps, Present, Mapped
<1> DEFINE a == [NoCast EXCEPT !.room = r, !.except = x, !.todo = Conns,
                               !.obj = IF r = None THEN None ELSE rooms[r],
                               !.steady = Present[r] \ {x}]
<1>3. /\ a.room = r /\ a.except = x /\ a.todo = Conns /\ a.got = {} /\ a.count = 0
      /\ a.obj = (IF r = None THEN None ELSE rooms[r]) /\ a.steady = Present[r] \ {x}
      /\ a \in Casts
  <2>1. rooms \in [Rooms -> Objs \cup {None}]
    BY DEF Base, TypeOK
  <2>2. (IF r = None THEN None ELSE rooms[r]) \in Objs \cup {None}
    BY <2>1
  <2>3. Present[r] \ {x} \subseteq Conns
    BY PresentType DEF Base
  <2> QED
    BY <2>2, <2>3 DEF NoCast, Casts
<1>4. bcast' = [bcast EXCEPT ![b] = a] /\ bpc' = [bpc EXCEPT ![b] = "busy"]
      /\ bpc[b] = "idle" /\ (r # None => rooms[r] # None)
  BY <1>1 DEF Start
<1> HIDE DEF a
<1>5. /\ bcast'[b] = a /\ bpc'[b] = "busy"
      /\ \A d \in Broadcasters \ {b} : bcast'[d] = bcast[d] /\ bpc'[d] = bpc[d]
  BY <1>4 DEF CastType
<1>6. CastType'
  BY <1>3, <1>4 DEF CastType
<1>7. UNCHANGED rooms
  BY <1>2 DEF vars, maps
<1>8. HeldInv'
  BY <1>3, <1>4, <1>5, <1>7 DEF HeldInv, Busy
<1>9. SteadyInv'
  <2>1. a.steady \subseteq a.todo
    BY <1>3, PresentType DEF Base
  <2> QED
    BY <1>2, <1>3, <1>5, <2>1 DEF SteadyInv, Busy
<1>10. CountInv'
  BY <1>3, <1>5, FS_EmptySet DEF CountInv
<1>11. AllMembersOffered'
  BY <1>5 DEF AllMembersOffered
<1>12. HandedOut
  BY <1>3, <1>5 DEF HandedOut
<1> QED
  BY <1>2, <1>6, <1>8, <1>9, <1>10, <1>11, <1>12

\* A connection is come to: passed over, given a copy, or refusing one.
LEMMA VisitCast ==
    ASSUME CastInv, NEW b \in Broadcasters, BcastVisit(b)
    PROVE  CastInv' /\ HandedOut
<1> USE DEF CastInv
<1>1. PICK c \in Conns :
        \/ ~Recipient(b, c) /\ Visit(b, c, Passed(b, c))
        \/ Recipient(b, c) /\ (Visit(b, c, Copy(b, c)) \/ Visit(b, c, Refuse(b, c)))
  BY DEF BcastVisit
<1>2. b \in Busy /\ c \in bcast[b].todo /\ UNCHANGED <<vars, bpc>>
  BY <1>1 DEF Visit
<1>3. Base' /\ Present' = Present /\ UNCHANGED rooms /\ Busy' = Busy
  BY <1>2, BaseStep DEF vars, maps, Present, Mapped, Busy
<1>4. bcast[b] \in Casts /\ IsFiniteSet(bcast[b].got) /\ c \notin bcast[b].got
      /\ bcast[b].count = Cardinality(bcast[b].got)
  BY <1>2 DEF CastType, CountInv
<1>5. \A d \in Broadcasters \ {b} : bcast'[d] = bcast[d]
  BY <1>1 DEF Visit, CastType
<1>6. /\ bcast'[b] \in Casts
      /\ bcast'[b].room = bcast[b].room /\ bcast'[b].except = bcast[b].except
      /\ bcast'[b].obj = bcast[b].obj /\ bcast'[b].steady = bcast[b].steady
      /\ bcast'[b].todo = bcast[b].todo \ {c}
      /\ \/ /\ ~Recipient(b, c) /\ bcast'[b].count = bcast[b].count
            /\ bcast'[b].got = bcast[b].got /\ bcast'[b].refused = bcast[b].refused
         \/ /\ Recipient(b, c) /\ bcast'[b].count = bcast[b].count + 1
            /\ bcast'[b].got = bcast[b].got \cup {c}
            /\ bcast'[b].refused = bcast[b].refused
         \/ /\ Recipient(b, c) /\ bcast'[b].count = bcast[b].count
            /\ bcast'[b].got = bcast[b].got
            /\ bcast'[b].refused = bcast[b].refused \cup {c}
  <2>0. bcast[b].count + 1 \in Nat
    BY <1>4 DEF Casts
  <2>1. CASE ~Recipient(b, c) /\ Visit(b, c, Passed(b, c))
    <3>1. bcast'[b] = [bcast[b] EXCEPT !.todo = @ \ {c}]
      BY <2>1 DEF Visit, Passed, CastType
    <3> QED
      BY <1>4, <2>1, <3>1 DEF Casts
  <2>2. CASE Recipient(b, c) /\ Visit(b, c, Copy(b, c))
    <3>1. bcast'[b] = [bcast[b] EXCEPT !.todo = @ \ {c}, !.got = @ \cup {c},
                                       !.count = @ + 1]
      BY <1>4, <2>2 DEF Visit, Copy, Passed, CastType, Casts
    <3>2. bcast[b].got \cup {c} \in SUBSET Conns /\ bcast[b].todo \ {c} \in SUBSET Conns
      BY <1>4 DEF Casts
    <3>3. /\ bcast'[b].room = bcast[b].room /\ bcast'[b].except = bcast[b].except
          /\ bcast'[b].obj = bcast[b].obj /\ bcast'[b].steady = bcast[b].steady
          /\ bcast'[b].refused = bcast[b].refused /\ bcast'[b].todo = bcast[b].todo \ {c}
          /\ bcast'[b].got = bcast[b].got \cup {c}
          /\ bcast'[b].count = bcast[b].count + 1
      BY <1>4, <3>1 DEF Casts
    <3>4. bcast'[b] \in Casts
      BY <1>4, <2>0, <3>1, <3>2 DEF Casts
    <3> QED
      BY <2>2, <3>3, <3>4
  <2>3. CASE Recipient(b, c) /\ Visit(b, c, Refuse(b, c))
    <3>1. bcast'[b] = [bcast[b] EXCEPT !.todo = @ \ {c}, !.refused = @ \cup {c}]
      BY <1>4, <2>3 DEF Visit, Refuse, Passed, CastType, Casts
    <3>2. bcast[b].refused \cup {c} \in SUBSET Conns /\ bcast[b].todo \ {c} \in SUBSET Conns
      BY <1>4 DEF Casts
    <3>3. /\ bcast'[b].room = bcast[b].room /\ bcast'[b].except = bcast[b].except
          /\ bcast'[b].obj = bcast[b].obj /\ bcast'[b].steady = bcast[b].steady
          /\ bcast'[b].refused = bcast[b].refused \cup {c}
          /\ bcast'[b].todo = bcast[b].todo \ {c}
          /\ bcast'[b].got = bcast[b].got /\ bcast'[b].count = bcast[b].count
      BY <1>4, <3>1 DEF Casts
    <3>4. bcast'[b] \in Casts
      BY <1>4, <3>1, <3>2 DEF Casts
    <3> QED
      BY <2>3, <3>3, <3>4
  <2> QED
    BY <1>1, <2>1, <2>2, <2>3
<1>7. CastType'
  <2>1. bcast' \in [Broadcasters -> Casts]
    BY <1>1, <1>5, <1>6 DEF Visit, CastType
  <2> QED
    BY <1>2, <2>1 DEF CastType
<1>8. HeldInv'
  BY <1>3, <1>5, <1>6 DEF HeldInv, Busy
<1>9. c \in bcast[b].steady => Recipient(b, c)
  BY <1>2, SteadyRecipient
<1>10. SteadyInv'
  <2>1. bcast'[b].steady \subseteq bcast'[b].got \cup bcast'[b].refused \cup bcast'[b].todo
    BY <1>2, <1>6, <1>9 DEF SteadyInv
  <2> QED
    BY <1>3, <1>5, <1>6, <2>1 DEF SteadyInv, Busy
<1>11. CountInv'
  <2>1. /\ IsFiniteSet(bcast'[b].got) /\ bcast'[b].count = Cardinality(bcast'[b].got)
        /\ bcast'[b].got \cap bcast'[b].todo = {}
    <3>1. /\ IsFiniteSet(bcast[b].got \cup {c})
          /\ Cardinality(bcast[b].got \cup {c}) = Cardinality(bcast[b].got) + 1
      BY <1>4, FS_AddElement
    <3>2. bcast[b].got \cap bcast[b].todo = {}
      BY DEF CountInv
    <3> QED
      BY <1>4, <1>6, <3>1, <3>2
  <2> QED
    BY <1>5, <2>1 DEF CountInv
<1>12. AllMembersOffered'
  BY <1>2, <1>5 DEF AllMembersOffered, Busy
<1>13. HandedOut
  BY <1>2, <1>5, <1>6, RecipientPresent DEF HandedOut
<1> QED
  BY <1>3, <1>7, <1>8, <1>10, <1>11, <1>12, <1>13

\* A broadcast returns: nobody is left to be come to.
LEMMA EndCast ==
    ASSUME CastInv, NEW b \in Broadcasters, BcastEnd(b)
    PROVE  CastInv' /\ HandedOut
<1> USE DEF CastInv
<1>1. /\ b \in Busy /\ bcast[b].todo = {} /\ UNCHANGED <<vars, bcast>>
      /\ bpc' = [bpc EXCEPT ![b] = "done"]
  BY DEF BcastEnd
<1>2. Base' /\ Present' = Present /\ UNCHANGED rooms
  BY <1>1, BaseStep DEF vars, maps, Present, Mapped
<1>3. bpc'[b] = "done" /\ \A d \in Broadcasters \ {b} : bpc'[d] = bpc[d]
  BY <1>1 DEF CastType
<1>4. CastType'
  BY <1>1 DEF CastType
<1>5. HeldInv' /\ SteadyInv'
  BY <1>1, <1>2, <1>3 DEF HeldInv, SteadyInv, Busy
<1>6. CountInv' /\ HandedOut
  BY <1>1 DEF CountInv, HandedOut
<1>7. AllMembersOffered'
  BY <1>1, <1>3 DEF AllMembersOffered, SteadyInv, CountInv
<1> QED
  BY <1>2, <1>4, <1>5, <1>6, <1>7

-----------------------------------------------------------------------------

\* CastInv holds throughout: a broadcast visits the members of the room it
\* was called for, each once.
LEMMA CastCorrect == BSpec => []CastInv
<1>1. BInit => CastInv
  <2> SUFFICES ASSUME BInit PROVE CastInv
    OBVIOUS
  <2>1. Base
    BY BaseInit DEF BInit
  <2>2. CastType /\ Busy = {} /\ \A b \in Broadcasters : bcast[b] = NoCast /\ bpc[b] = "idle"
    BY NoCastType DEF BInit, CastType, Busy
  <2>3. CountInv
    BY <2>2, FS_EmptySet DEF CountInv, NoCast
  <2> QED
    BY <2>1, <2>2, <2>3 DEF CastInv, HeldInv, SteadyInv, AllMembersOffered
<1>2. CastInv /\ [BNext]_bvars => CastInv'
  <2>1. ASSUME CastInv, UNCHANGED bvars
        PROVE  CastInv'
    <3>1. UNCHANGED <<vars, bpc, bcast>> /\ Base' /\ Present' = Present /\ UNCHANGED rooms
      BY <2>1, BaseStep DEF bvars, vars, maps, Present, Mapped, CastInv
    <3> QED
      BY <2>1, <3>1
         DEF CastInv, CastType, HeldInv, SteadyInv, CountInv, AllMembersOffered, Busy
  <2> QED
    BY <2>1, ManagerCast, BeginCast, VisitCast, EndCast DEF BNext
<1> QED
  BY <1>1, <1>2, PTL DEF BSpec

\* Whoever is a recipient all the while is offered a copy and the count is
\* right, for any number of broadcasts among any operations.
THEOREM OfferedCorrect == BSpec => []AllMembersOffered
<1>1. CastInv => AllMembersOffered
  BY DEF CastInv
<1> QED
  BY CastCorrect, <1>1, PTL

\* Copies go to members only, and never to the one excepted.
THEOREM RecipientsCorrect == BSpec => OnlyMembersGet
<1>1. CastInv /\ [BNext]_bvars
        => [\A b \in Broadcasters : \A c \in bcast'[b].got \ bcast[b].got :
              c \in Present[bcast[b].room] /\ c # bcast[b].except]_bvars
  BY ManagerCast, BeginCast, VisitCast, EndCast DEF BNext, HandedOut
<1> QED
  BY CastCorrect, <1>1, PTL DEF BSpec, OnlyMembersGet

=============================================================================
