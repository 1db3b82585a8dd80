------------------------- MODULE BackOffice_proofs -------------------------
(* Proofs about the back office, for any number of workers, customers, businesses, accounts
   and edits: each component in focus keeps an inductive invariant of its own. *)
EXTENDS MCBackOffice, OrderLemmas, FiniteSetTheorems, SequenceTheorems, TLAPS

-----------------------------------------------------------------------------
(* Loyalty codes. A booking that carries the code carries it for its customer, and one that
   was never made carries nothing. *)
LoyaltyInv == /\ Loyalty!TypeOK
              /\ Loyalty!RewardStaysPersonal
              /\ \A b \in Bookings : booked[b].status = "none" => ~booked[b].coded

-----------------------------------------------------------------------------
(* What the helpers do to the rows *)

\* Giving back the uses of fallen bookings touches nothing but the use.
LEMMA HealedRows ==
    ASSUME Loyalty!TypeOK
    PROVE  /\ Loyalty!Healed(booked) \in [Bookings -> Loyalty!DiscountRedemption]
           /\ \A b \in Bookings : /\ Loyalty!Healed(booked)[b].status = booked[b].status
                                  /\ Loyalty!Healed(booked)[b].customer = booked[b].customer
                                  /\ Loyalty!Healed(booked)[b].coded = booked[b].coded
                                  /\ Loyalty!Healed(booked)[b].charged = booked[b].charged
                                  /\ Loyalty!Active(Loyalty!Healed(booked)[b])
                                         => Loyalty!Active(booked[b])
  BY DEF Loyalty!TypeOK, Loyalty!Healed, Loyalty!DiscountRedemption, Loyalty!Active

\* A redeemed row is the customer's whom the code was evaluated for.
LEMMA RedeemedRows ==
    ASSUME Loyalty!TypeOK, NEW rows \in [Bookings -> Loyalty!DiscountRedemption], NEW b \in Bookings,
           NEW c \in Customers \union {None},
           NEW status \in {"none"} \union Loyalty!RequestStatus \union Loyalty!AppointmentStatus
    PROVE  /\ Loyalty!Redeemed(rows, b, status, c) \in [Bookings -> Loyalty!DiscountRedemption]
           /\ Loyalty!Redeemed(rows, b, status, c)[b].status = status
           /\ Loyalty!Redeemed(rows, b, status, c)[b].customer = c
           /\ Loyalty!Redeemed(rows, b, status, c)[b].charged = c
           /\ \A o \in Bookings \ {b} : Loyalty!Redeemed(rows, b, status, c)[o] = rows[o]
<1> DEFINE row == [status |-> status, customer |-> c, coded |-> TRUE,
                   use |-> IF status \in Loyalty!Fallen THEN "RELEASED"
                           ELSE IF status = "AWAITING_PAYMENT" THEN "RESERVED" ELSE "CONSUMED",
                   charged |-> c, single |-> code.limit = 1]
<1>1. Loyalty!Redeemed(rows, b, status, c) = [rows EXCEPT ![b] = row]
  BY DEF Loyalty!Redeemed
<1>2. row \in Loyalty!DiscountRedemption
  BY DEF Loyalty!DiscountRedemption
<1> HIDE DEF row
<1>3. row.status = status /\ row.customer = c /\ row.charged = c
  BY DEF row
<1> QED
  BY <1>1, <1>2, <1>3

\* A move changes the status and the use of one row.
LEMMA MovedRows ==
    ASSUME Loyalty!TypeOK, NEW b \in Bookings,
           NEW status \in Loyalty!RequestStatus \union Loyalty!AppointmentStatus,
           Loyalty!Move(b, status)
    PROVE  /\ booked' \in [Bookings -> Loyalty!DiscountRedemption] /\ code' = code
           /\ \A o \in Bookings \ {b} : booked'[o] = booked[o]
           /\ booked'[b].status = status
           /\ booked'[b].customer = booked[b].customer
           /\ booked'[b].coded = booked[b].coded
           /\ booked'[b].charged = booked[b].charged
           /\ \/ ~Loyalty!Active(booked'[b]) \/ Loyalty!Active(booked[b])
              \/ Loyalty!Within(Loyalty!Cardinality(Loyalty!Holders(booked)), code.limit)
<1> DEFINE use == IF booked[b].coded 
                  THEN Loyalty!Synced(booked[b], status, Loyalty!Cardinality(Loyalty!Holders(booked)))
                  ELSE booked[b].use
<1>1. booked' = [booked EXCEPT ![b].status = status, ![b].use = use] /\ code' = code
  BY DEF Loyalty!Move
<1>2. booked \in [Bookings -> Loyalty!DiscountRedemption]
  BY DEF Loyalty!TypeOK
<1>3. use \in {"none", "RESERVED", "CONSUMED", "RELEASED"}
  BY <1>2 DEF Loyalty!Synced, Loyalty!DiscountRedemption
<1>4. \/ use \notin {"RESERVED", "CONSUMED"} \/ Loyalty!Active(booked[b])
      \/ Loyalty!Within(Loyalty!Cardinality(Loyalty!Holders(booked)), code.limit)
  BY <1>2 DEF Loyalty!Synced, Loyalty!DiscountRedemption, Loyalty!Active
<1> HIDE DEF use
<1>5. /\ booked'[b] = [booked[b] EXCEPT !.status = status, !.use = use]
      /\ \A o \in Bookings \ {b} : booked'[o] = booked[o]
  BY <1>1, <1>2
<1>6. booked'[b] \in Loyalty!DiscountRedemption
  BY <1>2, <1>3, <1>5 DEF Loyalty!DiscountRedemption
<1>7. booked' \in [Bookings -> Loyalty!DiscountRedemption]
  BY <1>1, <1>2, <1>5, <1>6
<1>8. booked'[b].use = use /\ booked'[b].status = status
  BY <1>2, <1>5 DEF Loyalty!DiscountRedemption
<1> QED
  BY <1>1, <1>2, <1>4, <1>5, <1>7, <1>8 DEF Loyalty!DiscountRedemption, Loyalty!Active

-----------------------------------------------------------------------------
(* What a step may do *)

\* b takes a use while H hold theirs and the code has one left; nobody else takes one.
Takes(b) == \E H \in SUBSET Bookings : /\ Loyalty!Within(Loyalty!Cardinality(H), code.limit)
                                       /\ Loyalty!Holders(booked') \subseteq H \union {b}
                                       /\ code' = code

\* A sound step keeps the invariant, and takes a use only like that.
LoyaltySound == /\ LoyaltyInv'
                /\ \/ Loyalty!Holders(booked') \subseteq Loyalty!Holders(booked)
                   \/ \E b \in Bookings : Takes(b)

\* Rows that keep their customer and their code keep a reward with its customer, whatever
\* becomes of one row that is given a status and satisfies Loyalty!RewardStaysPersonal itself.
LEMMA OneRowSound ==
    ASSUME LoyaltyInv, NEW b \in Bookings, code' = code,
           booked' \in [Bookings -> Loyalty!DiscountRedemption],
           \A o \in Bookings \ {b} : /\ booked'[o].customer = booked[o].customer
                                     /\ booked'[o].coded = booked[o].coded
                                     /\ booked'[o].charged = booked[o].charged
                                     /\ booked'[o].status = booked[o].status,
           booked'[b].status = "none" => ~booked'[b].coded,
           code.owner # None /\ booked'[b].coded =>
               booked'[b].customer = code.owner /\ booked'[b].charged = code.owner
    PROVE  LoyaltyInv'
  BY DEF LoyaltyInv, Loyalty!TypeOK, Loyalty!RewardStaysPersonal

LEMMA MoveSound ==
    ASSUME LoyaltyInv, NEW b \in Bookings,
           NEW status \in Loyalty!RequestStatus \union Loyalty!AppointmentStatus,
           Loyalty!Move(b, status)
    PROVE  LoyaltySound
<1>1. Loyalty!TypeOK
  BY DEF LoyaltyInv
<1>2. /\ booked' \in [Bookings -> Loyalty!DiscountRedemption] /\ code' = code
      /\ \A o \in Bookings \ {b} : booked'[o] = booked[o]
      /\ booked'[b].status = status
      /\ booked'[b].customer = booked[b].customer
      /\ booked'[b].coded = booked[b].coded
      /\ booked'[b].charged = booked[b].charged
      /\ \/ ~Loyalty!Active(booked'[b]) \/ Loyalty!Active(booked[b])
         \/ Loyalty!Within(Loyalty!Cardinality(Loyalty!Holders(booked)), code.limit)
  BY <1>1, MovedRows
<1>3. status # "none"
  BY DEF Loyalty!RequestStatus, Loyalty!AppointmentStatus
<1>4. LoyaltyInv'
  BY <1>2, <1>3, OneRowSound DEF LoyaltyInv, Loyalty!RewardStaysPersonal
<1>5. Loyalty!Holders(booked') \subseteq Loyalty!Holders(booked) \/ Takes(b)
  <2>1. Loyalty!Holders(booked) \in SUBSET Bookings
    BY DEF Loyalty!Holders
  <2>2. CASE ~Loyalty!Active(booked'[b]) \/ Loyalty!Active(booked[b])
    BY <1>2, <2>2 DEF Loyalty!Holders
  <2>3. CASE Loyalty!Within(Loyalty!Cardinality(Loyalty!Holders(booked)), code.limit)
    <3>1. Loyalty!Holders(booked') \subseteq Loyalty!Holders(booked) \union {b}
      BY <1>2 DEF Loyalty!Holders
    <3> QED
      BY <1>2, <2>1, <2>3, <3>1 DEF Takes
  <2> QED
    BY <1>2, <2>2, <2>3
<1> QED
  BY <1>4, <1>5 DEF LoyaltySound

\* Redeeming the code on healed rows, for the customer it was evaluated for.
LEMMA TakeSound ==
    ASSUME LoyaltyInv, NEW b \in Bookings, NEW c, Loyalty!Applies(Loyalty!Healed(booked), c),
           code' = code,
           booked' \in [Bookings -> Loyalty!DiscountRedemption],
           booked'[b].status # "none", booked'[b].customer = c, booked'[b].charged = c,
           \A o \in Bookings \ {b} : booked'[o] = Loyalty!Healed(booked)[o]
    PROVE  LoyaltySound
<1> DEFINE rows == Loyalty!Healed(booked)
<1>1. \A o \in Bookings : /\ rows[o].status = booked[o].status
                          /\ rows[o].customer = booked[o].customer
                          /\ rows[o].coded = booked[o].coded
                          /\ rows[o].charged = booked[o].charged
  BY HealedRows DEF LoyaltyInv
<1>2. code.owner \in {None, c} /\ Loyalty!Within(Loyalty!Cardinality(Loyalty!Holders(rows)), code.limit)
  BY DEF Loyalty!Applies
<1>3. \A o \in Bookings \ {b} : booked'[o] = rows[o]
  OBVIOUS
<1> HIDE DEF rows
<1>4. LoyaltyInv'
  BY <1>1, <1>2, <1>3, OneRowSound
<1>5. Takes(b)
  <2>1. /\ Loyalty!Holders(rows) \in SUBSET Bookings
        /\ Loyalty!Holders(booked') \subseteq Loyalty!Holders(rows) \union {b}
    BY <1>3 DEF Loyalty!Holders
  <2> QED
    BY <1>2, <2>1 DEF Takes
<1> QED
  BY <1>4, <1>5 DEF LoyaltySound

LEMMA BookSound ==
    ASSUME LoyaltyInv, NEW b \in Bookings, NEW c \in Customers,
           NEW status \in Loyalty!RequestStatus \union Loyalty!AppointmentStatus, Loyalty!Book(b, c, status)
    PROVE  LoyaltySound
<1>1. /\ code' = code /\ booked[b].status = "none" /\ booked \in [Bookings -> Loyalty!DiscountRedemption]
      /\ Loyalty!TypeOK /\ ~booked[b].coded
  BY DEF Loyalty!Book, LoyaltyInv, Loyalty!TypeOK
<1>2. status # "none"
  BY DEF Loyalty!RequestStatus, Loyalty!AppointmentStatus
<1>3. CASE booked' = [booked EXCEPT ![b].status = status, ![b].customer = c]
  <2>1. booked'[b] = [booked[b] EXCEPT !.status = status, !.customer = c]
    BY <1>1, <1>3
  <2>2. /\ booked'[b].coded = booked[b].coded /\ booked'[b].use = booked[b].use
        /\ booked'[b] \in Loyalty!DiscountRedemption
    <3>1. booked[b] \in Loyalty!DiscountRedemption
      BY <1>1
    <3> QED
      BY <2>1, <3>1 DEF Loyalty!DiscountRedemption
  <2>3. \A o \in Bookings \ {b} : booked'[o] = booked[o]
    BY <1>1, <1>3
  <2>4. booked' \in [Bookings -> Loyalty!DiscountRedemption]
    BY <1>1, <1>3, <2>2, <2>3
  <2>5. LoyaltyInv'
    BY <1>1, <2>2, <2>3, <2>4, OneRowSound
  <2>6. Loyalty!Holders(booked') \subseteq Loyalty!Holders(booked)
    BY <2>2, <2>3 DEF Loyalty!Holders, Loyalty!Active
  <2> QED
    BY <2>5, <2>6 DEF LoyaltySound
<1>4. CASE /\ Loyalty!Applies(Loyalty!Healed(booked), c)
           /\ booked' = Loyalty!Redeemed(Loyalty!Healed(booked), b, status, c)
  <2>1. /\ c \in Customers \union {None}
        /\ status \in {"none"} \union Loyalty!RequestStatus \union Loyalty!AppointmentStatus
    OBVIOUS
  <2>2. Loyalty!Healed(booked) \in [Bookings -> Loyalty!DiscountRedemption]
    BY <1>1, HealedRows
  <2>3. /\ booked' \in [Bookings -> Loyalty!DiscountRedemption]
        /\ booked'[b].status = status /\ booked'[b].customer = c /\ booked'[b].charged = c
        /\ \A o \in Bookings \ {b} : booked'[o] = Loyalty!Healed(booked)[o]
    BY <1>1, <1>4, <2>1, <2>2, RedeemedRows
  <2> QED
    BY <1>1, <1>2, <1>4, <2>3, TakeSound
<1> QED
  BY <1>3, <1>4 DEF Loyalty!Book

LEMMA ApplyCodeSound ==
    ASSUME LoyaltyInv, NEW b \in Bookings, Loyalty!ApplyCode(b)
    PROVE  LoyaltySound
<1> DEFINE c == booked[b].customer
           rows == Loyalty!Redeemed(Loyalty!Healed(booked), b, "BOOKED", c)
<1>1. /\ code' = code /\ Loyalty!TypeOK /\ booked \in [Bookings -> Loyalty!DiscountRedemption]
      /\ booked[b].status \in Loyalty!AppointmentStatus
      /\ Loyalty!Applies(Loyalty!Healed(booked), c) /\ booked' = [rows EXCEPT ![b].status = booked[b].status]
  BY DEF Loyalty!ApplyCode, LoyaltyInv, Loyalty!TypeOK
<1>2. c \in Customers \union {None}
  BY <1>1 DEF Loyalty!DiscountRedemption
<1>3. /\ Loyalty!Healed(booked) \in [Bookings -> Loyalty!DiscountRedemption]
      /\ "BOOKED" \in {"none"} \union Loyalty!RequestStatus \union Loyalty!AppointmentStatus
  BY <1>1, HealedRows DEF Loyalty!AppointmentStatus
<1> HIDE DEF c
<1>4. /\ rows \in [Bookings -> Loyalty!DiscountRedemption] /\ rows[b].customer = c /\ rows[b].charged = c
      /\ \A o \in Bookings \ {b} : rows[o] = Loyalty!Healed(booked)[o]
  BY <1>1, <1>2, <1>3, RedeemedRows
<1> HIDE DEF rows
<1>5. /\ booked'[b] = [rows[b] EXCEPT !.status = booked[b].status]
      /\ \A o \in Bookings \ {b} : booked'[o] = rows[o]
  BY <1>1, <1>4
<1>6. /\ booked'[b] \in Loyalty!DiscountRedemption /\ booked'[b].status = booked[b].status
      /\ booked'[b].customer = c /\ booked'[b].charged = c
  BY <1>1, <1>4, <1>5 DEF Loyalty!DiscountRedemption
<1>7. booked' \in [Bookings -> Loyalty!DiscountRedemption]
  BY <1>1, <1>4, <1>5, <1>6
<1>8. booked'[b].status # "none"
  BY <1>1, <1>6 DEF Loyalty!AppointmentStatus
<1> QED
  BY <1>1, <1>4, <1>5, <1>6, <1>7, <1>8, TakeSound

LEMMA ChangeCustomerSound ==
    ASSUME LoyaltyInv, NEW b \in Bookings, NEW c \in Customers, Loyalty!ChangeCustomer(b, c)
    PROVE  LoyaltySound
<1>1. /\ code' = code /\ booked \in [Bookings -> Loyalty!DiscountRedemption]
      /\ booked' = [booked EXCEPT ![b].customer = c]
      /\ booked[b].coded => code.owner \in {None, c}
      /\ booked[b].status \in Loyalty!AppointmentStatus /\ c # booked[b].customer
  BY DEF Loyalty!ChangeCustomer, LoyaltyInv, Loyalty!TypeOK
<1>2. booked'[b] = [booked[b] EXCEPT !.customer = c] /\ \A o \in Bookings \ {b} : booked'[o] = booked[o]
  BY <1>1
<1>3. /\ booked'[b].coded = booked[b].coded /\ booked'[b].use = booked[b].use
      /\ booked'[b].status = booked[b].status /\ booked'[b] \in Loyalty!DiscountRedemption
  BY <1>1, <1>2 DEF Loyalty!DiscountRedemption
<1>4. booked' \in [Bookings -> Loyalty!DiscountRedemption]
  BY <1>1, <1>2, <1>3
\* A personal code that is on the booking would belong to two customers.
<1>5. ~(code.owner # None /\ booked[b].coded)
  BY <1>1 DEF LoyaltyInv, Loyalty!RewardStaysPersonal
<1>6. LoyaltyInv'
  BY <1>1, <1>2, <1>3, <1>4, <1>5, OneRowSound DEF LoyaltyInv
<1>7. Loyalty!Holders(booked') \subseteq Loyalty!Holders(booked)
  BY <1>2, <1>3 DEF Loyalty!Holders, Loyalty!Active
<1> QED
  BY <1>6, <1>7 DEF LoyaltySound

\* The row remove_discount leaves: it counts as no use, and is the same customer's.
Uncoded(x) == [[x EXCEPT !.coded = FALSE] EXCEPT !.use = IF x.use = "none" THEN "none" ELSE "RELEASED"]

LEMMA UncodedRow ==
    ASSUME NEW x \in Loyalty!DiscountRedemption
    PROVE  /\ Uncoded(x) \in Loyalty!DiscountRedemption
           /\ Uncoded(x).status = x.status /\ Uncoded(x).customer = x.customer
           /\ Uncoded(x).charged = x.charged /\ ~Uncoded(x).coded /\ ~Loyalty!Active(Uncoded(x))
<1>1. PICK no \in BOOLEAN : no = FALSE
  OBVIOUS
<1>2. PICK n : n = [x EXCEPT !.coded = no]
  OBVIOUS
<1>3. /\ n \in Loyalty!DiscountRedemption /\ n.coded = no
      /\ n.status = x.status /\ n.customer = x.customer /\ n.charged = x.charged
  BY <1>2 DEF Loyalty!DiscountRedemption
<1>4. PICK u \in {"none", "RELEASED"} : u = IF x.use = "none" THEN "none" ELSE "RELEASED"
  OBVIOUS
<1>5. PICK m : m = [n EXCEPT !.use = u]
  OBVIOUS
<1>6. /\ m \in Loyalty!DiscountRedemption /\ m.use = u /\ m.coded = n.coded
      /\ m.status = n.status /\ m.customer = n.customer /\ m.charged = n.charged
  BY <1>3, <1>5 DEF Loyalty!DiscountRedemption
<1>7. Uncoded(x) = m
  BY <1>1, <1>2, <1>4, <1>5 DEF Uncoded
<1> QED
  BY <1>1, <1>3, <1>6, <1>7 DEF Loyalty!Active

\* Taking the code off, and the chat's cancellation, take no use.
LEMMA ReleaseSound ==
    ASSUME LoyaltyInv, NEW b \in Bookings, Loyalty!RemoveCode(b) \/ Loyalty!CancelByChat(b)
    PROVE  LoyaltySound
<1>1. code' = code /\ booked \in [Bookings -> Loyalty!DiscountRedemption]
  BY DEF Loyalty!RemoveCode, Loyalty!CancelByChat, LoyaltyInv, Loyalty!TypeOK
<1>2. /\ booked' \in [Bookings -> Loyalty!DiscountRedemption]
      /\ \A o \in Bookings \ {b} : booked'[o] = booked[o]
      /\ booked'[b].status # "none"
      /\ booked'[b].coded => booked[b].coded
      /\ booked'[b].customer = booked[b].customer /\ booked'[b].charged = booked[b].charged
      /\ Loyalty!Active(booked'[b]) => Loyalty!Active(booked[b])
  <2>1. CASE Loyalty!RemoveCode(b)
    <3>1. booked' = [booked EXCEPT ![b].coded = FALSE,
                                   ![b].use = IF booked[b].use = "none" THEN "none" ELSE "RELEASED"]
      BY <1>1, <2>1 DEF Loyalty!RemoveCode
    <3>2. booked[b].status \in Loyalty!AppointmentStatus /\ booked[b] \in Loyalty!DiscountRedemption
      BY <1>1, <2>1 DEF Loyalty!RemoveCode
    <3>3. PICK x \in Loyalty!DiscountRedemption : x = booked[b]
      BY <3>2
    <3>4. booked' = [booked EXCEPT ![b] = Uncoded(x)]
      BY <1>1, <3>1, <3>3 DEF Uncoded
    <3>5. PICK m : m = Uncoded(x)
      OBVIOUS
    <3>6. /\ m \in Loyalty!DiscountRedemption
          /\ m.status = x.status /\ m.customer = x.customer /\ m.charged = x.charged
          /\ ~m.coded /\ ~Loyalty!Active(m)
      BY <3>5, UncodedRow
    <3>7. /\ booked'[b] = m /\ booked' \in [Bookings -> Loyalty!DiscountRedemption]
          /\ \A o \in Bookings \ {b} : booked'[o] = booked[o]
      BY <1>1, <3>4, <3>5, <3>6
    <3>8. x.status # "none"
      BY <3>2, <3>3 DEF Loyalty!AppointmentStatus
    <3> QED
      BY <3>3, <3>6, <3>7, <3>8
  <2>2. CASE Loyalty!CancelByChat(b)
    BY <1>1, <2>2 DEF Loyalty!CancelByChat, Loyalty!DiscountRedemption, Loyalty!Active,
                         Loyalty!AppointmentStatus
  <2> QED
    BY <2>1, <2>2
<1>3. LoyaltyInv'
  BY <1>1, <1>2, OneRowSound DEF LoyaltyInv, Loyalty!RewardStaysPersonal
<1>4. Loyalty!Holders(booked') \subseteq Loyalty!Holders(booked)
  BY <1>2 DEF Loyalty!Holders
<1> QED
  BY <1>3, <1>4 DEF LoyaltySound

LEMMA EditCodeSound ==
    ASSUME LoyaltyInv, NEW limit \in Limits \union {None}, NEW usable \in BOOLEAN,
           Loyalty!EditCode(limit, usable)
    PROVE  LoyaltySound
<1>1. code' \in Loyalty!DiscountCode /\ code'.owner = code.owner /\ booked' = booked
  BY DEF Loyalty!EditCode, LoyaltyInv, Loyalty!TypeOK, Loyalty!DiscountCode
<1> QED
  BY <1>1 DEF LoyaltySound, LoyaltyInv, Loyalty!TypeOK, Loyalty!RewardStaysPersonal,
              Loyalty!Holders

-----------------------------------------------------------------------------
LEMMA LoyaltyInitOK == Loyalty!Init => LoyaltyInv
  BY DEF Loyalty!Init, LoyaltyInv, Loyalty!TypeOK, Loyalty!RewardStaysPersonal, Loyalty!NoBooking,
         Loyalty!DiscountRedemption

LEMMA LoyaltyStepSound == ASSUME LoyaltyInv, [Loyalty!Next]_(Loyalty!redemptionVars) PROVE LoyaltySound
<1> USE DEF Loyalty!RequestStatus, Loyalty!AppointmentStatus
<1>1. ASSUME NEW b \in Bookings,
             Loyalty!BecomePending(b) \/ Loyalty!Expire(b) \/ Loyalty!Reject(b) \/ Loyalty!Approve(b)
      PROVE  LoyaltySound
  <2>1. PICK status \in Loyalty!RequestStatus \union Loyalty!AppointmentStatus : Loyalty!Move(b, status)
    BY <1>1 DEF Loyalty!BecomePending, Loyalty!Expire, Loyalty!Reject, Loyalty!Approve
  <2> QED
    BY <2>1, MoveSound
<1>2. ASSUME NEW b \in Bookings, NEW s \in Loyalty!AppointmentStatus, Loyalty!PatchStatus(b, s)
      PROVE  LoyaltySound
  BY <1>2, MoveSound DEF Loyalty!PatchStatus
<1>3. CASE UNCHANGED Loyalty!redemptionVars
  BY <1>3 DEF Loyalty!redemptionVars, LoyaltySound, LoyaltyInv, Loyalty!TypeOK, Loyalty!RewardStaysPersonal,
              Loyalty!Holders
<1> QED
  BY <1>1, <1>2, <1>3, BookSound, ApplyCodeSound, ChangeCustomerSound, ReleaseSound, EditCodeSound
     DEF Loyalty!Next

\* The code's uses are counted with the library's Cardinality.
LEMMA LoyaltyCardinality == ASSUME NEW S PROVE Loyalty!Cardinality(S) = Cardinality(S)
  BY DEF Loyalty!Cardinality, Cardinality

\* One more holder than H, which the limit still had room for, is within the limit.
LEMMA RoomForOne ==
    ASSUME Loyalty!TypeOK, NEW b \in Bookings, Takes(b)
    PROVE  code'.limit = None \/ Cardinality(Loyalty!Holders(booked')) <= code'.limit
<1>1. PICK H \in SUBSET Bookings : /\ Loyalty!Within(Loyalty!Cardinality(H), code.limit)
                                   /\ Loyalty!Holders(booked') \subseteq H \union {b} /\ code' = code
  BY DEF Takes
<1>2. IsFiniteSet(H) /\ Cardinality(H) \in Nat
  BY <1>1, LoyaltyAssumption, FS_Subset, FS_CardinalityType
<1>3. /\ IsFiniteSet(H \union {b}) /\ Cardinality(H \union {b}) \in Nat
      /\ Cardinality(H \union {b}) <= Cardinality(H) + 1
  <2>1. IsFiniteSet(H \union {b})
    BY <1>2, FS_AddElement
  <2>2. Cardinality(H \union {b}) = IF b \in H THEN Cardinality(H) ELSE Cardinality(H) + 1
    BY <1>2, FS_AddElement
  <2> QED
    BY <1>2, <2>1, <2>2
<1>4. /\ Cardinality(Loyalty!Holders(booked')) \in Nat
      /\ Cardinality(Loyalty!Holders(booked')) <= Cardinality(H \union {b})
  BY <1>1, <1>3, FS_Subset, FS_CardinalityType
<1>5. code.limit = None \/ (code.limit \in Nat /\ Cardinality(H) < code.limit)
  BY <1>1, LoyaltyAssumption, LoyaltyCardinality DEF Loyalty!Within, Loyalty!TypeOK, Loyalty!DiscountCode
<1> QED
  BY <1>1, <1>2, <1>3, <1>4, <1>5

\* A step that adds a holder stays within the limit in force after it.
LEMMA UsesFit ==
    ASSUME LoyaltyInv, [Loyalty!Next]_(Loyalty!redemptionVars),
           Loyalty!Cardinality(Loyalty!Holders(booked')) > Loyalty!Cardinality(Loyalty!Holders(booked))
    PROVE  code'.limit = None \/ Loyalty!Cardinality(Loyalty!Holders(booked')) <= code'.limit
<1>1. Cardinality(Loyalty!Holders(booked')) > Cardinality(Loyalty!Holders(booked))
  BY LoyaltyCardinality
<1>2. IsFiniteSet(Loyalty!Holders(booked))
  <2>1. Loyalty!Holders(booked) \in SUBSET Bookings
    BY DEF Loyalty!Holders
  <2> QED
    BY <2>1, LoyaltyAssumption, FS_Subset
<1>3. ~(Loyalty!Holders(booked') \subseteq Loyalty!Holders(booked))
  <2> SUFFICES ASSUME Loyalty!Holders(booked') \subseteq Loyalty!Holders(booked) PROVE FALSE
    OBVIOUS
  <2> QED
    BY <1>1, <1>2, FS_Subset, FS_CardinalityType
<1>4. PICK b \in Bookings : Takes(b)
  BY <1>3, LoyaltyStepSound DEF LoyaltySound
<1>5. code'.limit = None \/ Cardinality(Loyalty!Holders(booked')) <= code'.limit
  BY <1>4, RoomForOne DEF LoyaltyInv
<1> QED
  BY <1>5, LoyaltyCardinality

\* CodesAreRespected: no submission, late payment, approval or reactivation takes a use of a
\* code past the limit in force, and a personal reward discounts its own customer's bookings
\* only, for any number of bookings and customers (LoyaltyRedemption).
THEOREM CodesStayRespected == Spec => CodesAreRespected
<1> DEFINE Inv == focus = "loyalty" => LoyaltyInv
           Fits == Loyalty!Cardinality(Loyalty!Holders(booked')) > Loyalty!Cardinality(Loyalty!Holders(booked))
                       => \/ code'.limit = None
                          \/ Loyalty!Cardinality(Loyalty!Holders(booked')) <= code'.limit
<1>1. Init => Inv
  BY LoyaltyInitOK DEF Init
<1>2. Inv /\ [Next]_vars => Inv' /\ [Fits]_(Loyalty!redemptionVars)
  <2> SUFFICES ASSUME Inv, [Next]_vars PROVE Inv' /\ [Fits]_(Loyalty!redemptionVars)
    OBVIOUS
  <2>1. CASE LoyaltyStep
    <3>1. LoyaltyInv /\ Loyalty!Next
      BY <2>1 DEF LoyaltyStep
    <3>2. Fits
      BY <3>1, UsesFit
    <3> QED
      BY <3>1, <3>2, LoyaltyStepSound DEF LoyaltySound
  <2>2. CASE ~LoyaltyStep
    <3>1. focus' = focus /\ code' = code /\ booked' = booked
      BY <2>2 DEF Next, vars, shopVars, loyaltyVars, RemindersStep, ImportsStep, NumbersStep, ChannelsStep,
                  CarrierStep, TenantsStep, StripeStep, SquareStep, AccessStep, ImagesStep
    <3>2. UNCHANGED Loyalty!redemptionVars
      BY <3>1 DEF Loyalty!redemptionVars
    <3> QED
      BY <3>1, <3>2, LoyaltyStepSound DEF LoyaltySound
  <2> QED
    BY <2>1, <2>2
<1>3. Inv => (focus = "loyalty" => Loyalty!TypeOK /\ Loyalty!RewardStaysPersonal)
  BY DEF LoyaltyInv
<1> QED
  BY <1>1, <1>2, <1>3, PTL DEF Spec, CodesAreRespected, Loyalty!UsesRespectLimit

-----------------------------------------------------------------------------
(* The Stripe account. While a change of provider is on its way, a checkout that begins is
   known to cross it. *)
StripeInv == /\ Stripe!TypeOK
             /\ Stripe!AccountsAreKept
             /\ \A w \in Workers : creating[w].op = "swap" /\ deposit # Stripe!Idle => stale

LEMMA StripeCardinality == ASSUME NEW S PROVE Stripe!Cardinality(S) = Cardinality(S)
  BY DEF Stripe!Cardinality, Cardinality

LEMMA StripeInitOK == Stripe!Init => StripeInv
<1>1. DOMAIN <<>> = {}
  OBVIOUS
<1> QED
  BY <1>1 DEF Stripe!Init, StripeInv, Stripe!TypeOK, Stripe!AccountsAreKept, Stripe!Idle

\* The next account of the platform is one there can be.
LEMMA NextAccount ==
    ASSUME Stripe!TypeOK, Stripe!Cardinality(DOMAIN states) < MaxAccounts
    PROVE  Stripe!Cardinality(DOMAIN states) + 1 \in Stripe!Account
<1>1. MaxAccounts \in Nat /\ DOMAIN states \subseteq 1..MaxAccounts
  BY BoundsAssumption DEF Stripe!TypeOK, Stripe!Account
<1>2. IsFiniteSet(DOMAIN states)
  BY <1>1, FS_Interval, FS_Subset
<1>3. Cardinality(DOMAIN states) \in Nat
  BY <1>2, FS_CardinalityType
<1> QED
  BY <1>1, <1>3, StripeCardinality DEF Stripe!Account

LEMMA StripeStepOK == StripeInv /\ [Stripe!Next]_(Stripe!accountVars) => StripeInv'
<1> SUFFICES ASSUME StripeInv, [Stripe!Next]_(Stripe!accountVars) PROVE StripeInv'
  OBVIOUS
<1> USE DEF StripeInv, Stripe!TypeOK, Stripe!AccountsAreKept, Stripe!Idle
<1> None \notin Stripe!Account
  BY NoneAssumption, BoundsAssumption DEF Stripe!Account
<1>1. ASSUME NEW w \in Workers, Stripe!Make(w) PROVE StripeInv'
  BY <1>1 DEF Stripe!Make, Stripe!Begin, Stripe!Task
<1>2. ASSUME NEW w \in Workers, Stripe!Create(w) PROVE StripeInv'
  BY <1>2, NextAccount DEF Stripe!Create, Stripe!Begin, Stripe!Task
<1>3. ASSUME NEW w \in Workers, Stripe!Created(w) PROVE StripeInv'
  BY <1>3 DEF Stripe!Created, Stripe!Done, Stripe!Task
<1>4. ASSUME NEW w \in Workers, Stripe!Die(w) PROVE StripeInv'
  BY <1>4 DEF Stripe!Die, Stripe!Done, Stripe!Task
<1>5. ASSUME NEW w \in Workers, Stripe!Ask(w) PROVE StripeInv'
  BY <1>5 DEF Stripe!Ask, Stripe!Begin, Stripe!Task
<1>6. ASSUME NEW w \in Workers, Stripe!Answered(w) PROVE StripeInv'
  BY <1>6 DEF Stripe!Answered, Stripe!Done, Stripe!Task
<1>7. ASSUME NEW w \in Workers, Stripe!Notified(w) PROVE StripeInv'
  BY <1>7 DEF Stripe!Notified, Stripe!Done, Stripe!Task
<1>8. ASSUME NEW w \in Workers, Stripe!Reconnect(w) PROVE StripeInv'
  <2>1. /\ creating[w] = Stripe!Idle /\ stripe \in Stripe!Account
        /\ history' = history \union {stripe} /\ stripe' = None /\ charges' = FALSE
        /\ creating' = [creating EXCEPT ![w] = [op |-> "make", seen |-> None]]
        /\ UNCHANGED <<heard, provider, states, deposit, lost, stale>>
    BY <1>8 DEF Stripe!Reconnect, Stripe!Begin
  <2>2. Stripe!TypeOK'
    BY <2>1 DEF Stripe!Task
  <2>3. \A v \in Workers : creating'[v].op \in {"make", "swap"} /\ v # w => creating'[v] = creating[v]
    BY <2>1
  <2>4. creating'[w].op = "make"
    BY <2>1
  <2>5. Stripe!AccountsAreKept'
    BY <2>1, <2>3
  <2> QED
    BY <2>1, <2>2, <2>3, <2>4, <2>5
<1>9. ASSUME NEW w \in Workers, Stripe!Swapped(w) PROVE StripeInv'
  BY <1>9 DEF Stripe!Swapped, Stripe!Done, Stripe!Task
<1>10. ASSUME NEW w \in Workers, NEW p \in {"stripe", "square"}, Stripe!Swap(w, p) PROVE StripeInv'
  BY <1>10 DEF Stripe!Swap, Stripe!Begin, Stripe!Task
<1>11. ASSUME NEW a \in DOMAIN states, NEW state \in {"charges", "incomplete", "unreachable"},
              Stripe!StripeDecides(a, state)
       PROVE  StripeInv'
  BY <1>11 DEF Stripe!StripeDecides
<1>12. CASE Stripe!AccessError
  BY <1>12 DEF Stripe!AccessError
<1>13. CASE Stripe!Checkout
  BY <1>13 DEF Stripe!Checkout
<1>14. CASE Stripe!Settle
  BY <1>14 DEF Stripe!Settle
<1>15. CASE UNCHANGED Stripe!accountVars
  BY <1>15 DEF Stripe!accountVars
<1> QED
  BY <1>1, <1>2, <1>3, <1>4, <1>5, <1>6, <1>7, <1>8, <1>9, <1>10, <1>11, <1>12, <1>13, <1>14, <1>15
     DEF Stripe!Next

\* AccountsAreKept: no Stripe account is forgotten while money may go to it, for any number of
\* requests and accounts (PaymentAccounts).
THEOREM AccountsStayKept == Spec => []AccountsAreKept
<1> DEFINE Inv == focus = "stripe" => StripeInv
<1>1. Init => Inv
  BY StripeInitOK DEF Init
<1>2. Inv /\ [Next]_vars => Inv'
  <2> SUFFICES ASSUME Inv, [Next]_vars, focus' = "stripe" PROVE StripeInv'
    OBVIOUS
  <2> focus = "stripe" /\ [Stripe!Next]_(Stripe!accountVars)
    BY DEF Next, vars, ownerVars, stripeVars, Stripe!accountVars, LoyaltyStep, RemindersStep, ImportsStep,
           NumbersStep, ChannelsStep, CarrierStep, TenantsStep, StripeStep, SquareStep, AccessStep, ImagesStep
  <2> QED
    BY StripeStepOK
<1>3. Inv => AccountsAreKept
  BY DEF AccountsAreKept, StripeInv
<1> QED
  BY <1>1, <1>2, <1>3, PTL DEF Spec

-----------------------------------------------------------------------------
(* Businesses and the accounts of their people. *)
Known(rows, e) == \E p \in DOMAIN rows : rows[p].email = e
Owners(rows, b) == {p \in DOMAIN rows : rows[p].business = b /\ rows[p].owner /\ rows[p].active}
\* The request has flushed the account that it makes.
Flushed(ask) == ask.op \in {"onboard", "preview", "hire"} /\ ask.inserted

\* Addresses are unique, among the accounts and those that are on their way to be one.
AddressesApart ==
    /\ \A p, q \in DOMAIN accounts : accounts[p].email = accounts[q].email => p = q
    /\ \A w \in Workers : Flushed(asking[w]) => ~Known(accounts, asking[w].email)
    /\ \A v, w \in Workers : Flushed(asking[v]) /\ Flushed(asking[w]) /\ asking[v].email = asking[w].email
                                 => v = w

\* The owner of a business that was onboarded is still recognised, or gave the address up.
OwnersKnown ==
    /\ \A b \in DOMAIN businesses : businesses[b] \in moved \/ Known(accounts, businesses[b])
    /\ \A b, c \in DOMAIN businesses : businesses[b] = businesses[c] /\ b # c => businesses[b] \in moved

\* What an edit would leave of the row it read.
Left(a, change) == [owner |-> IF change.owner = None THEN a.owner ELSE change.owner,
                    active |-> IF change.active = None THEN a.active ELSE change.active]
\* The row stays an active owner, was none, or there is another one.
Leaves(rows, p, change) ==
    LET a == rows[p] IN
    (a.owner /\ a.active /\ ~(Left(a, change).owner /\ Left(a, change).active))
        => \E q \in Owners(rows, a.business) : q # p

\* An edit that no other crossed leaves an owner still, when it is saved.
EditsLeaveOwners ==
    /\ \A w \in Workers : asking[w].op = "edit" =>
          /\ asking[w].who \in DOMAIN accounts
          /\ \/ accounts[asking[w].who].business \in late
             \/ Leaves(accounts, asking[w].who, asking[w].change)
    /\ \A v, w \in Workers :
          (v # w /\ asking[v].op = "edit" /\ asking[w].op = "edit"
             /\ accounts[asking[v].who].business = accounts[asking[w].who].business)
                => accounts[asking[v].who].business \in late

TenantInv == /\ Tenants!TypeOK /\ Tenants!OwnersRemain
             /\ AddressesApart /\ OwnersKnown /\ EditsLeaveOwners

LEMMA TenantsCardinality == ASSUME NEW S PROVE Tenants!Cardinality(S) = Cardinality(S)
  BY DEF Tenants!Cardinality, Cardinality

LEMMA OwnersAre == ASSUME NEW b PROVE Tenants!ActiveOwners(b) = Owners(accounts, b)
  BY DEF Tenants!ActiveOwners, Owners
LEMMA TakenIs == ASSUME NEW e PROVE Tenants!Taken(e) <=> Known(accounts, e)
  BY DEF Tenants!Taken, Known

\* There are no more accounts than addresses.
LEMMA AccountsFit ==
    ASSUME NEW rows \in Seq(Tenants!Account),
           \A p, q \in DOMAIN rows : rows[p].email = rows[q].email => p = q
    PROVE  DOMAIN rows \subseteq 1..Tenants!Cardinality(Emails)
<1> DEFINE f == [p \in 1..Len(rows) |-> rows[p].email]
<1>1. Len(rows) \in Nat /\ DOMAIN rows = 1..Len(rows)
  BY LenProperties
<1>2. \A p \in 1..Len(rows) : rows[p].email \in Emails
  <2> SUFFICES ASSUME NEW p \in 1..Len(rows) PROVE rows[p].email \in Emails
    OBVIOUS
  <2>1. rows[p] \in Tenants!Account
    BY ElementOfSeq
  <2> QED
    BY <2>1 DEF Tenants!Account
<1>3. f \in Injection(1..Len(rows), Emails)
  BY <1>1, <1>2 DEF Injection, IsInjective
<1>4. IsFiniteSet(1..Len(rows)) /\ Cardinality(1..Len(rows)) = Len(rows)
  BY <1>1, FS_Interval
<1>5. Cardinality(1..Len(rows)) <= Cardinality(Emails) /\ Cardinality(Emails) \in Nat
  BY <1>3, <1>4, EmailsAssumption, FS_Injection, FS_CardinalityType
<1> QED
  BY <1>1, <1>4, <1>5, TenantsCardinality

LEMMA TenantInitOK == Tenants!Init => TenantInv
<1> SUFFICES ASSUME Tenants!Init PROVE TenantInv
  OBVIOUS
<1>1. /\ businesses = <<>> /\ accounts = <<>> /\ moved = {} /\ late = {}
      /\ asking = [w \in Workers |-> Tenants!Idle]
  BY DEF Tenants!Init
<1>2. DOMAIN businesses = {} /\ DOMAIN accounts = {} /\ Len(businesses) = 0
      /\ businesses \in Seq(Emails) /\ accounts \in Seq(Tenants!Account)
  BY <1>1
<1>3. \A w \in Workers : asking[w].op = "none"
  BY <1>1 DEF Tenants!Idle
<1> QED
  BY <1>1, <1>2, <1>3, BoundsAssumption DEF TenantInv, Tenants!TypeOK, Tenants!OwnersRemain,
     AddressesApart, OwnersKnown, EditsLeaveOwners, Flushed

\* A request that begins, waits or ends, and saves nothing.
LEMMA AskingKeeps ==
    ASSUME TenantInv, NEW w \in Workers,
           NEW ask \in {Tenants!Idle} \union Tenants!Onboarding \union Tenants!Hiring,
           asking' = [asking EXCEPT ![w] = ask],
           UNCHANGED <<businesses, accounts, moved, late>>,
           Flushed(ask) => /\ ~Known(accounts, ask.email)
                           /\ \A v \in Workers \ {w} : Flushed(asking[v]) => asking[v].email # ask.email
    PROVE  TenantInv'
<1>1. /\ asking' \in [Workers -> {Tenants!Idle} \union Tenants!Onboarding \union Tenants!Hiring
                                    \union Tenants!Editing]
      /\ asking'[w] = ask /\ \A v \in Workers \ {w} : asking'[v] = asking[v]
  BY DEF TenantInv, Tenants!TypeOK
<1>2. ask.op # "edit"
  BY DEF Tenants!Idle, Tenants!Onboarding, Tenants!Hiring
<1>3. Tenants!TypeOK'
  BY <1>1 DEF TenantInv, Tenants!TypeOK
<1>4. Tenants!OwnersRemain'
  BY DEF TenantInv, Tenants!OwnersRemain, Tenants!ActiveOwners
<1>5. AddressesApart'
  BY <1>1 DEF TenantInv, AddressesApart
<1>6. OwnersKnown'
  BY DEF TenantInv, OwnersKnown
<1>7. EditsLeaveOwners'
  BY <1>1, <1>2 DEF TenantInv, EditsLeaveOwners
<1> QED
  BY <1>3, <1>4, <1>5, <1>6, <1>7 DEF TenantInv

\* A flushed account is committed, with a business of its own or in one that there is.
LEMMA AddedKeeps ==
    ASSUME TenantInv, NEW w \in Workers, NEW new \in Tenants!Account, Flushed(asking[w]),
           new.email = asking[w].email, new.active = TRUE,
           accounts' = Append(accounts, new), asking' = [asking EXCEPT ![w] = Tenants!Idle],
           UNCHANGED <<moved, late>>,
           \/ businesses' = businesses
           \/ /\ businesses' = Append(businesses, new.email) /\ Len(businesses) < MaxBusinesses
              /\ new.business = Len(businesses) + 1 /\ new.owner = TRUE
    PROVE  TenantInv'
<1> DEFINE n == Len(accounts) + 1
<1>1. /\ accounts' \in Seq(Tenants!Account) /\ DOMAIN accounts = 1..Len(accounts)
      /\ Len(accounts) \in Nat /\ DOMAIN accounts' = DOMAIN accounts \union {n} /\ n \notin DOMAIN accounts
      /\ accounts'[n] = new /\ \A p \in DOMAIN accounts : accounts'[p] = accounts[p]
  <2>1. accounts \in Seq(Tenants!Account)
    BY DEF TenantInv, Tenants!TypeOK
  <2>2. /\ accounts' \in Seq(Tenants!Account) /\ Len(accounts') = Len(accounts) + 1
        /\ \A p \in 1..Len(accounts) : accounts'[p] = accounts[p] /\ accounts'[Len(accounts) + 1] = new
        /\ accounts'[Len(accounts) + 1] = new
    BY <2>1, AppendProperties
  <2>3. DOMAIN accounts = 1..Len(accounts) /\ DOMAIN accounts' = 1..Len(accounts') /\ Len(accounts) \in Nat
    BY <2>1, <2>2, LenProperties
  <2> QED
    BY <2>2, <2>3
<1> HIDE DEF n
<1>2. \A e : Known(accounts', e) <=> Known(accounts, e) \/ e = new.email
  BY <1>1 DEF Known
<1>3. \A b : Owners(accounts, b) \subseteq Owners(accounts', b)
  BY <1>1 DEF Owners
<1>4. /\ asking' \in [Workers -> {Tenants!Idle} \union Tenants!Onboarding \union Tenants!Hiring
                                    \union Tenants!Editing]
      /\ ~Flushed(asking'[w]) /\ asking'[w].op # "edit"
      /\ \A v \in Workers \ {w} : asking'[v] = asking[v]
  BY DEF TenantInv, Tenants!TypeOK, Tenants!Idle, Flushed
<1>5. /\ businesses \in Seq(Emails) /\ DOMAIN businesses = 1..Len(businesses) /\ Len(businesses) \in Nat
      /\ MaxBusinesses \in Nat
  BY LenProperties, BoundsAssumption DEF TenantInv, Tenants!TypeOK
<1>6. /\ new.email \in Emails /\ ~Known(accounts, new.email)
      /\ \A v \in Workers \ {w} : Flushed(asking[v]) => asking[v].email # new.email
  BY DEF TenantInv, AddressesApart, Tenants!Account
<1>7. \/ businesses' = businesses
      \/ /\ businesses' \in Seq(Emails) /\ Len(businesses') = Len(businesses) + 1
         /\ DOMAIN businesses' = 1..(Len(businesses) + 1)
         /\ \A b \in 1..Len(businesses) : businesses'[b] = businesses[b]
         /\ businesses'[Len(businesses) + 1] = new.email
         /\ Len(businesses') <= MaxBusinesses
  <2>1. CASE businesses' = Append(businesses, new.email) /\ Len(businesses) < MaxBusinesses
    <3> DEFINE e == new.email
    <3>1. e \in Emails /\ businesses \in Seq(Emails) /\ businesses' = Append(businesses, e)
      BY <1>5, <1>6, <2>1
    <3> HIDE DEF e
    <3>2. /\ businesses' \in Seq(Emails) /\ Len(businesses') = Len(businesses) + 1
          /\ \A b \in 1..Len(businesses) : businesses'[b] = businesses[b]
          /\ businesses'[Len(businesses) + 1] = e
      BY <3>1, AppendProperties
    <3>3. DOMAIN businesses' = 1..Len(businesses')
      BY <3>2, LenProperties
    <3>4. Len(businesses') <= MaxBusinesses
      <4>1. Len(businesses) \in Nat /\ MaxBusinesses \in Nat /\ Len(businesses) < MaxBusinesses
        BY <1>5, <2>1
      <4>2. Len(businesses') = Len(businesses) + 1
        BY <3>2
      <4> QED
        BY <4>1, <4>2
    <3> QED
      BY <3>2, <3>3, <3>4 DEF e
  <2> QED
    BY <2>1
<1>8. Tenants!TypeOK'
  BY <1>1, <1>4, <1>5, <1>7 DEF TenantInv, Tenants!TypeOK
<1>9. Tenants!OwnersRemain'
  <2>1. \A b \in DOMAIN businesses \ late : Owners(accounts', b) # {}
    BY <1>3, OwnersAre DEF TenantInv, Tenants!OwnersRemain
  <2>2. businesses' # businesses => Owners(accounts', Len(businesses) + 1) # {}
    BY <1>1 DEF Owners
  <2>3. \A b \in DOMAIN businesses' \ late : Owners(accounts', b) # {}
    BY <2>1, <2>2, <1>5, <1>7
  <2> QED
    BY <2>3 DEF Tenants!OwnersRemain, Tenants!ActiveOwners, Owners
<1>10. AddressesApart'
  <2>1. \A p, q \in DOMAIN accounts' : accounts'[p].email = accounts'[q].email => p = q
    BY <1>1, <1>6 DEF TenantInv, AddressesApart, Known
  <2>2. \A v \in Workers : Flushed(asking'[v]) => ~Known(accounts', asking'[v].email)
    BY <1>2, <1>4, <1>6 DEF TenantInv, AddressesApart
  <2>3. \A u, v \in Workers : Flushed(asking'[u]) /\ Flushed(asking'[v]) /\ asking'[u].email = asking'[v].email
                                  => u = v
    BY <1>4 DEF TenantInv, AddressesApart
  <2> QED
    BY <2>1, <2>2, <2>3 DEF AddressesApart
<1>11. OwnersKnown'
  <2>1. \A b \in DOMAIN businesses : businesses[b] \in moved \/ Known(accounts, businesses[b])
    BY DEF TenantInv, OwnersKnown
  <2>2. \A b \in DOMAIN businesses' : businesses'[b] \in moved \/ Known(accounts', businesses'[b])
    <3>1. ASSUME NEW b \in DOMAIN businesses, businesses'[b] = businesses[b]
          PROVE  businesses'[b] \in moved \/ Known(accounts', businesses'[b])
      BY <1>2, <2>1, <3>1
    <3>2. CASE businesses' = businesses
      BY <3>1, <3>2
    <3>3. CASE businesses' # businesses
      <4>1. \A b \in DOMAIN businesses' : b \in DOMAIN businesses \/ businesses'[b] = new.email
        BY <1>5, <1>7, <3>3
      <4>2. \A b \in DOMAIN businesses : businesses'[b] = businesses[b]
        BY <1>5, <1>7
      <4> QED
        BY <1>2, <3>1, <4>1, <4>2
    <3> QED
      BY <3>2, <3>3
  <2>3. \A b \in DOMAIN businesses : businesses[b] = new.email => businesses[b] \in moved
    BY <1>6, <2>1
  <2>4. \A b, c \in DOMAIN businesses' : businesses'[b] = businesses'[c] /\ b # c => businesses'[b] \in moved
    <3>1. CASE businesses' = businesses
      BY <1>2, <3>1 DEF TenantInv, OwnersKnown
    <3>2. CASE businesses' # businesses
      <4> DEFINE last == Len(businesses)
      <4>1. TAKE b, c \in DOMAIN businesses'
      <4>2. HAVE businesses'[b] = businesses'[c] /\ b # c
      <4>3. /\ last \in Nat /\ b \in 1..(last + 1) /\ c \in 1..(last + 1) /\ DOMAIN businesses = 1..last
            /\ businesses'[last + 1] = new.email /\ moved' = moved
            /\ \A k \in 1..last : businesses'[k] = businesses[k]
        BY <1>2, <1>5, <1>7, <3>2
      <4> HIDE DEF last
      <4>4. CASE b \in 1..last /\ c \in 1..last
        <5>1. businesses[b] = businesses[c] /\ businesses'[b] = businesses[b]
          BY <4>2, <4>3, <4>4
        <5> QED
          BY <4>2, <4>3, <4>4, <5>1 DEF TenantInv, OwnersKnown
      <4>5. CASE b \in 1..last /\ c = last + 1
        BY <2>3, <4>2, <4>3, <4>5
      <4>6. CASE b = last + 1 /\ c \in 1..last
        <5>1. businesses[c] = new.email
          BY <4>2, <4>3, <4>6
        <5> QED
          BY <2>3, <4>2, <4>3, <4>6, <5>1
      <4>7. \/ b \in 1..last /\ c \in 1..last
            \/ b \in 1..last /\ c = last + 1
            \/ b = last + 1 /\ c \in 1..last
        BY <4>2, <4>3
      <4> QED
        BY <4>4, <4>5, <4>6, <4>7
    <3> QED
      BY <3>1, <3>2
  <2> QED
    BY <2>2, <2>4 DEF OwnersKnown
<1>12. EditsLeaveOwners'
  <2>1. \A v \in Workers : asking'[v].op = "edit" =>
            /\ asking[v] = asking'[v] /\ asking[v].who \in DOMAIN accounts
            /\ accounts'[asking[v].who] = accounts[asking[v].who]
    BY <1>1, <1>4 DEF TenantInv, EditsLeaveOwners
  <2>2. \A change : \A p \in DOMAIN accounts : Leaves(accounts, p, change) => Leaves(accounts', p, change)
    BY <1>1, <1>3 DEF Leaves
  <2> QED
    BY <1>1, <2>1, <2>2 DEF TenantInv, EditsLeaveOwners
<1> QED
  BY <1>8, <1>9, <1>10, <1>11, <1>12 DEF TenantInv

LEMMA OnboardKeeps ==
    ASSUME TenantInv, NEW w \in Workers, NEW op \in {"onboard", "preview"}, NEW e \in Emails,
           Tenants!Onboard(w, op, e)
    PROVE  TenantInv'
<1> DEFINE ask == [op |-> op, email |-> e, inserted |-> FALSE]
<1>1. ask \in Tenants!Onboarding /\ ~Flushed(ask)
  BY DEF Tenants!Onboarding, Flushed
<1>2. asking' = [asking EXCEPT ![w] = ask] /\ UNCHANGED <<businesses, accounts, moved, late>>
  BY DEF Tenants!Onboard
<1> HIDE DEF ask
<1> QED
  BY <1>1, <1>2, AskingKeeps

LEMMA HireKeeps ==
    ASSUME TenantInv, NEW w \in Workers, NEW b \in DOMAIN businesses, NEW e \in Emails,
           NEW owner \in BOOLEAN, Tenants!Hire(w, b, e, owner)
    PROVE  TenantInv'
<1> DEFINE ask == [op |-> "hire", email |-> e, inserted |-> FALSE, business |-> b, owner |-> owner]
<1>1. b \in Tenants!Business
  BY BoundsAssumption, LenProperties DEF TenantInv, Tenants!TypeOK, Tenants!Business
<1>2. ask \in Tenants!Hiring /\ ~Flushed(ask)
  BY <1>1 DEF Tenants!Hiring, Flushed
<1>3. asking' = [asking EXCEPT ![w] = ask] /\ UNCHANGED <<businesses, accounts, moved, late>>
  BY DEF Tenants!Hire
<1> HIDE DEF ask
<1> QED
  BY <1>2, <1>3, AskingKeeps

LEMMA RollBackKeeps == ASSUME TenantInv, NEW w \in Workers, Tenants!RollBack(w) PROVE TenantInv'
<1>1. ~Flushed(Tenants!Idle)
  BY DEF Flushed, Tenants!Idle
<1> QED
  BY <1>1, AskingKeeps DEF Tenants!RollBack, Tenants!Answer

LEMMA InsertKeeps == ASSUME TenantInv, NEW w \in Workers, Tenants!Insert(w) PROVE TenantInv'
<1> DEFINE ask == [asking[w] EXCEPT !.inserted = TRUE]
<1>1. asking \in [Workers -> {Tenants!Idle} \union Tenants!Onboarding \union Tenants!Hiring
                                \union Tenants!Editing]
  BY DEF TenantInv, Tenants!TypeOK
<1>2. ask \in Tenants!Onboarding \union Tenants!Hiring /\ ask.email = asking[w].email
  BY DEF Tenants!Insert, Tenants!Onboarding, Tenants!Hiring
<1>3. /\ UNCHANGED <<businesses, accounts, moved, late>>
      /\ \/ asking' = [asking EXCEPT ![w] = Tenants!Idle]
         \/ asking' = [asking EXCEPT ![w] = ask] /\ ~Known(accounts, asking[w].email)
      /\ \A v \in Workers \ {w} : Flushed(asking[v]) => asking[v].email # asking[w].email
  BY <1>1, TakenIs DEF Tenants!Insert, Tenants!Answer, Tenants!Inserting, Flushed
<1>4. ~Flushed(Tenants!Idle)
  BY DEF Flushed, Tenants!Idle
<1> HIDE DEF ask
<1> QED
  BY <1>2, <1>3, <1>4, AskingKeeps

LEMMA FoundKeeps == ASSUME TenantInv, NEW w \in Workers, Tenants!Found(w) PROVE TenantInv'
<1> DEFINE new == [email |-> asking[w].email, business |-> Len(businesses) + 1,
                   owner |-> TRUE, active |-> TRUE]
<1>1. Len(businesses) \in Nat /\ Len(businesses) < MaxBusinesses /\ MaxBusinesses \in Nat
  BY BoundsAssumption, LenProperties DEF Tenants!Found, TenantInv, Tenants!TypeOK
<1>2. asking[w] \in Tenants!Onboarding /\ asking[w].inserted /\ asking[w].op = "onboard"
  BY DEF Tenants!Found
<1>3. new \in Tenants!Account
  BY <1>1, <1>2 DEF Tenants!Account, Tenants!Business, Tenants!Onboarding
<1>4. /\ accounts' = Append(accounts, new) /\ businesses' = Append(businesses, new.email)
      /\ asking' = [asking EXCEPT ![w] = Tenants!Idle] /\ UNCHANGED <<moved, late>>
      /\ new.email = asking[w].email /\ new.business = Len(businesses) + 1
      /\ new.owner = TRUE /\ new.active = TRUE
  BY DEF Tenants!Found, Tenants!Answer
<1>5. Flushed(asking[w])
  BY <1>2 DEF Flushed
<1> HIDE DEF new
<1> QED
  BY <1>1, <1>3, <1>4, <1>5, AddedKeeps

LEMMA HiredKeeps == ASSUME TenantInv, NEW w \in Workers, Tenants!Hired(w) PROVE TenantInv'
<1> DEFINE new == [email |-> asking[w].email, business |-> asking[w].business,
                   owner |-> asking[w].owner, active |-> TRUE]
<1>1. asking[w] \in Tenants!Hiring /\ asking[w].inserted
  BY DEF Tenants!Hired
<1>2. new \in Tenants!Account
  BY <1>1 DEF Tenants!Account, Tenants!Hiring
<1>3. /\ accounts' = Append(accounts, new) /\ businesses' = businesses
      /\ asking' = [asking EXCEPT ![w] = Tenants!Idle] /\ UNCHANGED <<moved, late>>
      /\ new.email = asking[w].email /\ new.active = TRUE
  BY DEF Tenants!Hired, Tenants!Answer
<1>4. Flushed(asking[w])
  BY <1>1 DEF Flushed, Tenants!Hiring
<1> HIDE DEF new
<1> QED
  BY <1>2, <1>3, <1>4, AddedKeeps

LEMMA EditKeeps ==
    ASSUME TenantInv, NEW w \in Workers, NEW p \in DOMAIN accounts, NEW change \in Tenants!Change,
           Tenants!Edit(w, p, change)
    PROVE  TenantInv'
<1> DEFINE a == accounts[p]
           kept == Tenants!Differing(a, change)
           ask == [op |-> "edit", who |-> p, change |-> kept]
<1>1. /\ accounts \in Seq(Tenants!Account) /\ a \in Tenants!Account
      /\ p \in 1..Tenants!Cardinality(Emails) /\ a.business \in Tenants!Business
  <2>1. accounts \in Seq(Tenants!Account)
    BY DEF TenantInv, Tenants!TypeOK
  <2>2. p \in 1..Tenants!Cardinality(Emails)
    BY <2>1, AccountsFit DEF TenantInv, AddressesApart
  <2>3. a \in Tenants!Account
    BY <2>1, LenProperties, ElementOfSeq
  <2> QED
    BY <2>1, <2>2, <2>3 DEF Tenants!Account
<1>2. /\ kept \in Tenants!Change
      /\ kept.owner = IF change.owner = a.owner THEN None ELSE change.owner
      /\ kept.active = IF change.active = a.active THEN None ELSE change.active
  BY DEF Tenants!Differing, Tenants!Change
<1>3. Leaves(accounts, p, kept)
  <2>1. /\ a.owner \in BOOLEAN /\ a.active \in BOOLEAN
        /\ change.owner \in BOOLEAN \union {None} /\ change.active \in BOOLEAN \union {None}
    BY <1>1 DEF Tenants!Account, Tenants!Change
  <2>2. \/ Owners(accounts, a.business) \ {p} # {}
        \/ /\ ~(a.owner /\ ~(IF change.owner = None THEN a.owner ELSE change.owner) /\ a.active)
           /\ ~(change.active = FALSE /\ a.active /\ (IF change.owner = None THEN a.owner ELSE change.owner))
    BY OwnersAre DEF Tenants!Edit, Tenants!KeepsAnOwner
  <2>3. Left(a, kept).owner = (IF kept.owner = None THEN a.owner ELSE kept.owner)
        /\ Left(a, kept).active = (IF kept.active = None THEN a.active ELSE kept.active)
    BY DEF Left
  <2> HIDE DEF a, kept
  <2>4. ASSUME Owners(accounts, a.business) \ {p} # {} PROVE \E q \in Owners(accounts, a.business) : q # p
    BY <2>4
  <2>5. ASSUME ~(a.owner /\ ~(IF change.owner = None THEN a.owner ELSE change.owner) /\ a.active),
               ~(change.active = FALSE /\ a.active /\ (IF change.owner = None THEN a.owner ELSE change.owner)),
               a.owner, a.active
        PROVE  Left(a, kept).owner /\ Left(a, kept).active
    BY <2>1, <2>3, <2>5, <1>2, NoneAssumption
  <2> QED
    BY <2>2, <2>4, <2>5 DEF Leaves, a
<1>4. ask \in Tenants!Editing /\ ask.op = "edit" /\ ask.who = p /\ ask.change = kept
  BY <1>1, <1>2 DEF Tenants!Editing
<1>5. /\ asking' = [asking EXCEPT ![w] = ask] /\ UNCHANGED <<businesses, accounts, moved>>
      /\ late' = late \union {b \in {a.business} : \E v \in Workers :
                                  asking[v].op = "edit" /\ accounts[asking[v].who].business = b}
      /\ asking[w].op = "none"
  BY DEF Tenants!Edit, Tenants!Idle
<1> HIDE DEF ask, kept
<1>6. /\ asking' \in [Workers -> {Tenants!Idle} \union Tenants!Onboarding \union Tenants!Hiring
                                    \union Tenants!Editing]
      /\ asking'[w] = ask /\ \A v \in Workers \ {w} : asking'[v] = asking[v]
  BY <1>4, <1>5 DEF TenantInv, Tenants!TypeOK
<1>7. Tenants!TypeOK'
  BY <1>1, <1>5, <1>6 DEF TenantInv, Tenants!TypeOK
<1>8. Tenants!OwnersRemain'
  BY <1>5 DEF TenantInv, Tenants!OwnersRemain, Tenants!ActiveOwners
<1>9. AddressesApart'
  <2>1. ~Flushed(ask)
    BY <1>4 DEF Flushed
  <2> QED
    BY <1>5, <1>6, <2>1 DEF TenantInv, AddressesApart
<1>10. OwnersKnown'
  BY <1>5 DEF TenantInv, OwnersKnown
<1>11. EditsLeaveOwners'
  <2>1. late \subseteq late'
    BY <1>5
  <2>2. \A v \in Workers \ {w} : asking[v].op = "edit" /\ accounts[asking[v].who].business = a.business
                                     => a.business \in late'
    BY <1>5
  <2>3. \A v \in Workers : asking'[v].op = "edit" =>
            /\ asking'[v].who \in DOMAIN accounts
            /\ \/ accounts[asking'[v].who].business \in late'
               \/ Leaves(accounts, asking'[v].who, asking'[v].change)
    BY <1>3, <1>4, <1>6, <2>1 DEF TenantInv, EditsLeaveOwners
  <2>4. \A u, v \in Workers :
            (u # v /\ asking'[u].op = "edit" /\ asking'[v].op = "edit"
               /\ accounts[asking'[u].who].business = accounts[asking'[v].who].business)
                  => accounts[asking'[u].who].business \in late'
    BY <1>4, <1>6, <2>1, <2>2 DEF TenantInv, EditsLeaveOwners
  <2> QED
    BY <1>5, <2>3, <2>4 DEF EditsLeaveOwners
<1> QED
  BY <1>7, <1>8, <1>9, <1>10, <1>11 DEF TenantInv

LEMMA SaveEditKeeps == ASSUME TenantInv, NEW w \in Workers, Tenants!Save(w) PROVE TenantInv'
<1> DEFINE p == asking[w].who
           a == accounts[p]
           change == asking[w].change
           saved(field) == IF change[field] = None THEN a[field] ELSE change[field]
           row == [a EXCEPT !.owner = saved("owner"), !.active = saved("active"), !.email = saved("email")]
<1>1. /\ asking \in [Workers -> {Tenants!Idle} \union Tenants!Onboarding \union Tenants!Hiring
                                   \union Tenants!Editing]
      /\ asking[w].op = "edit" /\ asking' = [asking EXCEPT ![w] = Tenants!Idle]
      /\ UNCHANGED <<businesses, late>>
  BY DEF TenantInv, Tenants!TypeOK, Tenants!Save, Tenants!Answer
<1>2. change \in Tenants!Change
  BY <1>1 DEF Tenants!Idle, Tenants!Onboarding, Tenants!Hiring, Tenants!Editing
<1>3. accounts \in Seq(Tenants!Account) /\ p \in DOMAIN accounts /\ a \in Tenants!Account
  <2>1. accounts \in Seq(Tenants!Account) /\ p \in DOMAIN accounts
    BY <1>1 DEF TenantInv, Tenants!TypeOK, EditsLeaveOwners
  <2> QED
    BY <2>1, LenProperties, ElementOfSeq
<1>4. /\ row \in Tenants!Account /\ row.business = a.business
      /\ row.email = IF change.email = None THEN a.email ELSE change.email
      /\ row.owner = Left(a, change).owner /\ row.active = Left(a, change).active
  BY <1>2, <1>3 DEF Tenants!Account, Tenants!Change, Left
<1>5. CASE accounts' = accounts /\ moved' = moved
  <2>1. ~Flushed(Tenants!Idle)
    BY DEF Flushed, Tenants!Idle
  <2> QED
    BY <1>1, <1>5, <2>1, AskingKeeps
<1>6. CASE /\ accounts' = [accounts EXCEPT ![p] = row]
           /\ moved' = IF change.email # None THEN moved \union {a.email} ELSE moved
           /\ change.email # None => /\ ~Known(accounts, change.email)
                                     /\ ~Tenants!Inserting(w, change.email)
  <2>1. ~Flushed(asking'[w]) /\ asking'[w].op # "edit" /\ \A v \in Workers \ {w} : asking'[v] = asking[v]
    BY <1>1 DEF Flushed, Tenants!Idle
  <2> HIDE DEF row
  <2>2. /\ accounts' \in Seq(Tenants!Account) /\ DOMAIN accounts' = DOMAIN accounts
        /\ accounts'[p] = row /\ \A q \in DOMAIN accounts \ {p} : accounts'[q] = accounts[q]
    BY <1>3, <1>4, <1>6, ExceptSeq, LenProperties
  <2>3. a.email \in Emails
    BY <1>3 DEF Tenants!Account
  <2>4. \A q \in DOMAIN accounts : accounts'[q].business = accounts[q].business
    BY <1>4, <2>2
  <2>5. \A b : b # a.business => Owners(accounts', b) = Owners(accounts, b)
    BY <1>4, <2>2 DEF Owners
  <2>6. \A v \in Workers \ {w} : Flushed(asking[v]) => asking[v].email # row.email
    <3>1. ASSUME NEW v \in Workers \ {w}, Flushed(asking[v]), change.email # None
          PROVE  asking[v].email # change.email
      BY <1>6, <3>1 DEF Tenants!Inserting, Flushed
    <3>2. ASSUME NEW v \in Workers \ {w}, Flushed(asking[v]) PROVE asking[v].email # a.email
      BY <1>3, <3>2 DEF TenantInv, AddressesApart, Known
    <3> QED
      BY <1>4, <3>1, <3>2
  <2>7. Tenants!TypeOK'
    <3>1. asking' \in [Workers -> {Tenants!Idle} \union Tenants!Onboarding \union Tenants!Hiring
                                    \union Tenants!Editing]
      BY <1>1
    <3> QED
      BY <1>1, <1>6, <2>2, <2>3, <3>1 DEF TenantInv, Tenants!TypeOK
  <2>8. Tenants!OwnersRemain'
    <3> SUFFICES ASSUME NEW b \in DOMAIN businesses \ late PROVE Owners(accounts', b) # {}
      BY <1>1 DEF Tenants!OwnersRemain, Tenants!ActiveOwners, Owners
    <3>1. PICK q \in Owners(accounts, b) : TRUE
      BY OwnersAre DEF TenantInv, Tenants!OwnersRemain
    <3>2. CASE b # a.business
      BY <2>5, <3>1, <3>2
    <3>3. CASE b = a.business
      <4>1. Leaves(accounts, p, change)
        BY <1>1, <3>3 DEF TenantInv, EditsLeaveOwners
      <4>2. ASSUME NEW o \in Owners(accounts, b), o # p PROVE Owners(accounts', b) # {}
        BY <2>2, <4>2 DEF Owners
      <4>3. CASE row.owner /\ row.active
        BY <1>3, <1>4, <2>2, <3>3, <4>3 DEF Owners
      <4>4. CASE ~(row.owner /\ row.active) /\ a.owner /\ a.active
        BY <1>4, <3>3, <4>1, <4>2, <4>4 DEF Leaves
      <4>5. CASE ~(a.owner /\ a.active)
        BY <3>1, <4>2, <4>5 DEF Owners
      <4> QED
        BY <4>3, <4>4, <4>5
    <3> QED
      BY <3>2, <3>3
  <2>9. AddressesApart'
    <3>1. row.email = a.email \/ ~Known(accounts, row.email)
      BY <1>4, <1>6
    <3>2. \A q, r \in DOMAIN accounts' : accounts'[q].email = accounts'[r].email => q = r
      BY <2>2, <3>1, <1>3 DEF TenantInv, AddressesApart, Known
    <3>3. \A v \in Workers : Flushed(asking'[v]) => ~Known(accounts', asking'[v].email)
      BY <2>1, <2>2, <2>6 DEF TenantInv, AddressesApart, Known
    <3>4. \A u, v \in Workers : Flushed(asking'[u]) /\ Flushed(asking'[v]) /\ asking'[u].email = asking'[v].email
                                    => u = v
      BY <2>1 DEF TenantInv, AddressesApart
    <3> QED
      BY <3>2, <3>3, <3>4 DEF AddressesApart
  <2>10. OwnersKnown'
    <3>1. moved \subseteq moved' /\ (change.email # None => a.email \in moved')
      BY <1>6
    <3>2. ASSUME NEW b \in DOMAIN businesses, Known(accounts, businesses[b])
          PROVE  businesses[b] \in moved' \/ Known(accounts', businesses[b])
      <4>1. PICK q \in DOMAIN accounts : accounts[q].email = businesses[b]
        BY <3>2 DEF Known
      <4>2. CASE q = p
        BY <1>4, <2>2, <3>1, <4>1, <4>2 DEF Known
      <4>3. CASE q # p
        BY <2>2, <4>1, <4>3 DEF Known
      <4> QED
        BY <4>2, <4>3
    <3> QED
      BY <1>1, <3>1, <3>2 DEF TenantInv, OwnersKnown
  <2>11. EditsLeaveOwners'
    <3>1. \A v \in Workers : asking'[v].op = "edit" => v # w /\ asking[v] = asking'[v]
      BY <2>1
    <3>2. ASSUME NEW v \in Workers, asking'[v].op = "edit"
          PROVE  /\ asking'[v].who \in DOMAIN accounts'
                 /\ \/ accounts'[asking'[v].who].business \in late
                    \/ Leaves(accounts', asking'[v].who, asking'[v].change)
      <4> DEFINE q == asking[v].who
      <4>1. /\ q \in DOMAIN accounts /\ v # w /\ asking'[v] = asking[v] /\ asking[v].op = "edit"
            /\ accounts[q].business \in late \/ Leaves(accounts, q, asking[v].change)
        BY <3>1, <3>2 DEF TenantInv, EditsLeaveOwners
      <4>2. CASE accounts[q].business = a.business
        BY <1>1, <2>2, <2>4, <4>1, <4>2 DEF TenantInv, EditsLeaveOwners
      <4>3. CASE accounts[q].business # a.business
        <5>1. accounts'[q] = accounts[q]
          BY <2>2, <4>1, <4>3
        <5>2. Leaves(accounts, q, asking[v].change) => Leaves(accounts', q, asking[v].change)
          BY <2>5, <4>3, <5>1 DEF Leaves
        <5> QED
          BY <2>2, <4>1, <5>1, <5>2
      <4> QED
        BY <4>2, <4>3
    <3>3. \A u, v \in Workers :
            (u # v /\ asking'[u].op = "edit" /\ asking'[v].op = "edit"
               /\ accounts'[asking'[u].who].business = accounts'[asking'[v].who].business)
                  => accounts'[asking'[u].who].business \in late
      BY <2>4, <3>1 DEF TenantInv, EditsLeaveOwners
    <3> QED
      BY <1>1, <3>2, <3>3 DEF EditsLeaveOwners
  <2> QED
    BY <2>7, <2>8, <2>9, <2>10, <2>11 DEF TenantInv
<1>7. \/ accounts' = accounts /\ moved' = moved
      \/ /\ accounts' = [accounts EXCEPT ![p] = row]
         /\ moved' = IF change.email # None THEN moved \union {a.email} ELSE moved
         /\ change.email # None => /\ ~Known(accounts, change.email)
                                   /\ ~Tenants!Inserting(w, change.email)
  BY TakenIs DEF Tenants!Save
<1> QED
  BY <1>5, <1>6, <1>7

LEMMA TenantStepOK == TenantInv /\ [Tenants!Next]_(Tenants!tenantVars) => TenantInv'
<1> SUFFICES ASSUME TenantInv, [Tenants!Next]_(Tenants!tenantVars) PROVE TenantInv'
  OBVIOUS
<1>1. ASSUME NEW w \in Workers, NEW e \in Emails, NEW op \in {"onboard", "preview"},
             Tenants!Onboard(w, op, e)
      PROVE  TenantInv'
  BY <1>1, OnboardKeeps
<1>2. ASSUME NEW w \in Workers, NEW b \in DOMAIN businesses, NEW e \in Emails, NEW owner \in BOOLEAN,
             Tenants!Hire(w, b, e, owner)
      PROVE  TenantInv'
  BY <1>2, HireKeeps
<1>3. ASSUME NEW w \in Workers,
             Tenants!Insert(w) \/ Tenants!Found(w) \/ Tenants!Hired(w) \/ Tenants!RollBack(w) \/ Tenants!Save(w)
      PROVE  TenantInv'
  BY <1>3, InsertKeeps, FoundKeeps, HiredKeeps, RollBackKeeps, SaveEditKeeps
<1>4. ASSUME NEW w \in Workers, NEW p \in DOMAIN accounts, NEW change \in Tenants!Change,
             Tenants!Edit(w, p, change)
      PROVE  TenantInv'
  BY <1>4, EditKeeps
<1>5. CASE UNCHANGED Tenants!tenantVars
  BY <1>5 DEF Tenants!tenantVars, TenantInv, Tenants!TypeOK, Tenants!OwnersRemain, Tenants!ActiveOwners,
              AddressesApart, OwnersKnown, EditsLeaveOwners
<1> QED
  BY <1>1, <1>2, <1>3, <1>4, <1>5 DEF Tenants!Next

\* A set without two different members has one at most.
LEMMA OneAtMost ==
    ASSUME NEW S, \A x, y \in S : x = y
    PROVE  Cardinality(S) <= 1
<1>1. CASE S = {}
  BY <1>1, FS_EmptySet
<1>2. CASE S # {}
  <2>1. PICK x \in S : S = {x}
    BY <1>2
  <2> QED
    BY <2>1, FS_Singleton
<1> QED
  BY <1>1, <1>2

\* BusinessesAreSound: one onboarding makes one business, and every business keeps an active
\* owner, however many people onboard, hire and edit at once (TenantSetup).
THEOREM BusinessesStaySound == Spec => []BusinessesAreSound
<1> DEFINE Inv == focus = "tenants" => TenantInv
<1>1. Init => Inv
  BY TenantInitOK DEF Init
<1>2. Inv /\ [Next]_vars => Inv'
  <2> SUFFICES ASSUME Inv, [Next]_vars, focus' = "tenants" PROVE TenantInv'
    OBVIOUS
  <2> focus = "tenants" /\ [Tenants!Next]_(Tenants!tenantVars)
    BY DEF Next, vars, ownerVars, tenantVars, Tenants!tenantVars, LoyaltyStep, RemindersStep, ImportsStep,
           NumbersStep, ChannelsStep, CarrierStep, TenantsStep, StripeStep, SquareStep, AccessStep, ImagesStep
  <2> QED
    BY TenantStepOK
<1>3. Inv => BusinessesAreSound
  <2>1. TenantInv => Tenants!OneBusinessPerSpec
    <3> SUFFICES ASSUME TenantInv, NEW e \in Emails \ moved
                 PROVE  Cardinality({b \in DOMAIN businesses : businesses[b] = e}) <= 1
      BY TenantsCardinality DEF Tenants!OneBusinessPerSpec
    <3>1. \A b, c \in {d \in DOMAIN businesses : businesses[d] = e} : b = c
      BY DEF TenantInv, OwnersKnown
    <3> QED
      BY <3>1, OneAtMost
  <2> QED
    BY <2>1 DEF BusinessesAreSound, TenantInv
<1> QED
  BY <1>1, <1>2, <1>3, PTL DEF Spec

-----------------------------------------------------------------------------
(* The channels of one business. Facts: what the WhatsApp columns say of each other. Earned:
   each status of the sender has what led to it, which the offered steps rely on. *)
Facts(w) ==
    /\ w \in Channels!WhatsApp
    /\ w.signup \/ w.waba => w.number # None
    /\ w.sender # None => w.sid # None
    /\ w.sender = "ONLINE" => w.address = w.sid
Earned(w, status, sub, on) ==
    /\ status \in Channels!WhatsAppStatus
    /\ status \in {"NUMBER_ENTERED", "MIGRATION_REQUIRED", "META_SIGNUP_IN_PROGRESS"} => w.number # None
    /\ status = "WABA_RECEIVED" => w.waba
    /\ status = "TWILIO_SUBACCOUNT_READY" => w.waba /\ sub
    /\ status \in {"OTP_REQUIRED", "SENDER_REGISTRATION_PENDING", "SENDER_REGISTERING",
                   "ACTION_REQUIRED"} => w.sid # None
    /\ status = "ONLINE" => on /\ w.sid # None /\ w.address = w.sid
VoiceSound(v, on) == /\ v \in Channels!Voice
                     /\ v.status = "ONLINE" => on /\ v.number /\ v.hooks
ChannelsInv == /\ subaccount \in BOOLEAN /\ enabled \in BOOLEAN
               /\ openai \in {"NOT_STARTED", "READY", "ACTION_REQUIRED"}
               /\ voice.hooks => voice.number
               /\ VoiceSound(voice, enabled)
               /\ Facts(wa) /\ Earned(wa, wa.status, subaccount, enabled)

LEMMA VoiceOf ==
  ASSUME NEW v, NEW st \in Channels!VoiceStatus, NEW n \in BOOLEAN, NEW h \in BOOLEAN, NEW on,
         v = [status |-> st, number |-> n, hooks |-> h], st = "ONLINE" => on /\ n /\ h
  PROVE  VoiceSound(v, on)
  BY DEF VoiceSound, Channels!Voice

LEMMA VoiceFields ==
  ASSUME NEW v \in Channels!Voice
  PROVE  /\ v = [status |-> v.status, number |-> v.number, hooks |-> v.hooks]
         /\ v.status \in Channels!VoiceStatus /\ v.number \in BOOLEAN /\ v.hooks \in BOOLEAN
  BY DEF Channels!Voice

\* A new status for the voice number.
LEMMA VoiceStatusKeeps ==
  ASSUME NEW v, NEW on, NEW was, VoiceSound(v, was), NEW st \in Channels!VoiceStatus,
         st = "ONLINE" => on /\ v.number /\ v.hooks
  PROVE  VoiceSound([v EXCEPT !.status = st], on) /\ [v EXCEPT !.status = st].number = v.number
         /\ [v EXCEPT !.status = st].hooks = v.hooks
<1> DEFINE new == [v EXCEPT !.status = st]
<1>1. v \in Channels!Voice
  BY DEF VoiceSound
<1>2. new.status = st /\ new.number = v.number /\ new.hooks = v.hooks /\ new \in Channels!Voice
  BY <1>1 DEF Channels!Voice
<1> QED
  BY <1>2 DEF VoiceSound

\* A new status for the sender, with all else as it was.
LEMMA SenderStatusKeeps ==
  ASSUME NEW w, Facts(w), NEW st, NEW sub, NEW on, Earned(w, st, sub, on)
  PROVE  /\ Facts([w EXCEPT !.status = st])
         /\ Earned([w EXCEPT !.status = st], [w EXCEPT !.status = st].status, sub, on)
<1> DEFINE new == [w EXCEPT !.status = st]
<1>1. w \in Channels!WhatsApp /\ st \in Channels!WhatsAppStatus
  BY DEF Facts, Earned
<1>2. /\ new \in Channels!WhatsApp /\ new.status = st /\ new.number = w.number
      /\ new.signup = w.signup /\ new.waba = w.waba /\ new.sid = w.sid
      /\ new.sender = w.sender /\ new.address = w.address
  BY <1>1 DEF Channels!WhatsApp
<1> HIDE DEF new
<1>3. Facts(new)
  BY <1>2 DEF Facts
<1>4. Earned(new, st, sub, on)
  BY <1>2 DEF Earned
<1> QED
  BY <1>2, <1>3, <1>4 DEF new

LEMMA StateOfSender ==
  ASSUME NEW s \in Channels!SenderStatus \union {None}, NEW current
  PROVE  \/ /\ Channels!StateOf(s, current) \in {"SENDER_REGISTRATION_PENDING", "OTP_REQUIRED",
                                                 "SENDER_REGISTERING", "ONLINE", "ACTION_REQUIRED"}
            /\ s # None
         \/ Channels!StateOf(s, current) = current
  BY NoneAssumption DEF Channels!StateOf, Channels!SenderStatus

\* What Twilio says of a sender that the business has.
LEMMA SnapshotKeeps ==
  ASSUME NEW sid \in Senders, NEW st \in Channels!SenderStatus, NEW current,
         Facts(wa), subaccount \in BOOLEAN, enabled \in BOOLEAN,
         Earned(wa, current, subaccount, enabled) \/ current = "SENDER_REGISTRATION_PENDING",
         Channels!Snapshot(sid, st, current), wa.sid = sid \/ current = "SENDER_REGISTRATION_PENDING"
  PROVE  /\ Facts(wa') /\ Earned(wa', wa'.status, subaccount, enabled')
         /\ enabled' \in BOOLEAN /\ (enabled => enabled')
<1> DEFINE next == Channels!StateOf(st, current)
<1> DEFINE live == next = "ONLINE"
<1>1. /\ \/ next \in {"SENDER_REGISTRATION_PENDING", "OTP_REQUIRED", "SENDER_REGISTERING",
                      "ONLINE", "ACTION_REQUIRED"}
         \/ next = current
      /\ st = "ONLINE" => live
  BY StateOfSender, NoneAssumption DEF Channels!StateOf, Channels!SenderStatus
<1>2. /\ wa' = [wa EXCEPT !.sid = sid, !.sender = st, !.status = next,
                          !.address = IF live THEN sid ELSE @]
      /\ enabled' = (enabled \/ live)
  BY DEF Channels!Snapshot
<1>3. wa \in Channels!WhatsApp /\ next \in Channels!WhatsAppStatus
  BY <1>1 DEF Facts, Earned, Channels!WhatsAppStatus
<1> HIDE DEF next
<1>4. /\ wa'.status = next /\ wa'.number = wa.number /\ wa'.signup = wa.signup /\ wa'.waba = wa.waba
      /\ wa'.sid = sid /\ wa'.sender = st /\ wa'.inUse = wa.inUse
      /\ wa'.address = (IF live THEN sid ELSE wa.address)
  BY <1>2, <1>3 DEF Channels!WhatsApp
<1>5. wa' \in Channels!WhatsApp
  BY <1>2, <1>3 DEF Channels!WhatsApp
<1>6. sid # None
  BY NoneAssumption
<1>7. Facts(wa')
  BY <1>4, <1>5, <1>1, <1>6 DEF Facts
<1>8. next \in Channels!WhatsAppStatus
  BY <1>3
<1>9. ASSUME next = "ONLINE" PROVE Earned(wa', next, subaccount, enabled')
  <2>1. wa'.address = sid /\ enabled'
    BY <1>2, <1>4, <1>9
  <2> QED
    BY <2>1, <1>4, <1>6, <1>8, <1>9 DEF Earned
<1>10. ASSUME next \in {"SENDER_REGISTRATION_PENDING", "OTP_REQUIRED", "SENDER_REGISTERING", "ACTION_REQUIRED"}
       PROVE  Earned(wa', next, subaccount, enabled')
  BY <1>4, <1>6, <1>8, <1>10 DEF Earned
<1>11. ASSUME next # "ONLINE", next = current, current # "SENDER_REGISTRATION_PENDING"
       PROVE  Earned(wa', next, subaccount, enabled')
  <2>1. Earned(wa, next, subaccount, enabled)
    BY <1>11
  <2> QED
    BY <2>1, <1>4, <1>6, <1>8, <1>11 DEF Earned
<1>12. Earned(wa', wa'.status, subaccount, enabled')
  BY <1>1, <1>4, <1>9, <1>10, <1>11
<1> QED
  BY <1>2, <1>7, <1>12

LEMMA ChannelsInitOK == Channels!Init => ChannelsInv
<1> SUFFICES ASSUME Channels!Init PROVE ChannelsInv
  OBVIOUS
<1>1. /\ subaccount = FALSE /\ enabled = FALSE /\ openai = "NOT_STARTED" /\ ~voice.hooks
      /\ VoiceSound(voice, enabled)
  BY DEF Channels!Init, VoiceSound, Channels!Voice, Channels!VoiceStatus
<1>2. wa = [status |-> "NOT_STARTED", number |-> None, inUse |-> FALSE, signup |-> FALSE,
            waba |-> FALSE, sid |-> None, sender |-> None, address |-> None]
  BY DEF Channels!Init
<1>3. wa \in Channels!WhatsApp
  BY <1>2 DEF Channels!WhatsApp, Channels!WhatsAppStatus
<1>4. /\ wa.status = "NOT_STARTED" /\ ~wa.signup /\ ~wa.waba /\ wa.sender = None
  BY <1>2
<1>5. Facts(wa)
  BY <1>3, <1>4, NoneAssumption DEF Facts, Channels!SenderStatus
<1>6. Earned(wa, wa.status, subaccount, enabled)
  BY <1>4 DEF Earned, Channels!WhatsAppStatus
<1> QED
  BY <1>1, <1>5, <1>6 DEF ChannelsInv

\* The steps of the voice number.
LEMMA VoiceStepOK ==
  ASSUME ChannelsInv,
         \/ Channels!AdoptNumber \/ Channels!MarkVoiceOnline
         \/ \E ok \in BOOLEAN : \/ Channels!ReturnNumber(ok) \/ Channels!ConfigureVoice(ok)
                                \/ Channels!TestVoice(ok) \/ Channels!EnableOpenAI(ok)
                                \/ Channels!AcquireNumber(ok)
  PROVE  ChannelsInv'
<1>1. /\ voice \in Channels!Voice /\ voice.status \in Channels!VoiceStatus /\ voice.number \in BOOLEAN
      /\ voice.hooks \in BOOLEAN /\ subaccount \in BOOLEAN /\ enabled \in BOOLEAN
      /\ voice.hooks => voice.number
      /\ voice.status = "ONLINE" => enabled /\ voice.number /\ voice.hooks
      /\ openai \in {"NOT_STARTED", "READY", "ACTION_REQUIRED"}
  BY DEF ChannelsInv, VoiceSound, Channels!Voice
<1>2. ASSUME subaccount' = subaccount, wa' = wa, enabled' = enabled \/ enabled' = TRUE,
             openai' \in {"NOT_STARTED", "READY", "ACTION_REQUIRED"},
             voice'.hooks => voice'.number, VoiceSound(voice', enabled')
      PROVE  ChannelsInv'
  <2>1. Facts(wa) /\ Earned(wa, wa.status, subaccount, enabled)
    BY DEF ChannelsInv
  <2>2. Facts(wa') /\ Earned(wa', wa'.status, subaccount', enabled)
    BY <2>1, <1>2
  <2>3. Earned(wa', wa'.status, subaccount', enabled')
    BY <2>2, <1>2 DEF Earned
  <2>4. subaccount' \in BOOLEAN /\ enabled' \in BOOLEAN
    BY <1>1, <1>2
  <2> QED
    BY <2>2, <2>3, <2>4, <1>2 DEF ChannelsInv
<1> DEFINE Still == /\ subaccount' = subaccount /\ wa' = wa /\ (enabled' = enabled \/ enabled' = TRUE)
                    /\ openai' \in {"NOT_STARTED", "READY", "ACTION_REQUIRED"}
<1>3. /\ VoiceSound(voice, enabled)
      /\ {"ONLINE", "ACTION_REQUIRED", "NUMBER_ASSIGNED", "WEBHOOKS_CONFIGURED", "TESTING", "FAILED",
          "SUBACCOUNT_READY"} \subseteq Channels!VoiceStatus
  BY DEF ChannelsInv, Channels!VoiceStatus
<1>4. ASSUME Channels!AdoptNumber PROVE ChannelsInv'
  <2>1. Still /\ voice' = [voice EXCEPT !.status = "NUMBER_ASSIGNED", !.number = TRUE]
    BY <1>1, <1>4 DEF Channels!AdoptNumber
  <2>2. voice'.number /\ voice'.status = "NUMBER_ASSIGNED" /\ voice' \in Channels!Voice
    BY <2>1, <1>1, <1>3 DEF Channels!Voice
  <2> QED
    BY <2>1, <2>2, <1>2 DEF VoiceSound
<1>5. ASSUME Channels!MarkVoiceOnline PROVE ChannelsInv'
  <2>1. Still /\ voice' = [voice EXCEPT !.status = "ONLINE"] /\ voice.number /\ voice.hooks /\ enabled' = TRUE
    BY <1>1, <1>5 DEF Channels!MarkVoiceOnline, Channels!CanGoOnline, Channels!VoiceIs
  <2> QED
    BY <2>1, <1>2, <1>3, VoiceStatusKeeps
<1>6. ASSUME NEW ok \in BOOLEAN, Channels!ReturnNumber(ok) PROVE ChannelsInv'
  <2>1. Still /\ enabled' = enabled
    BY <1>1, <1>6 DEF Channels!ReturnNumber
  <2>2. CASE ok
    <3>1. voice' = [status |-> "SUBACCOUNT_READY", number |-> FALSE, hooks |-> FALSE]
      BY <1>6, <2>2 DEF Channels!ReturnNumber
    <3> QED
      BY <3>1, <2>1, <1>2, <1>3, VoiceOf
  <2>3. CASE ~ok
    <3>1. voice' = [voice EXCEPT !.status = "ACTION_REQUIRED"]
      BY <1>6, <2>3 DEF Channels!ReturnNumber, Channels!VoiceIs
    <3>2. VoiceSound(voice', enabled') /\ voice'.hooks = voice.hooks /\ voice'.number = voice.number
      BY <3>1, <1>3, VoiceStatusKeeps
    <3> QED
      BY <3>2, <2>1, <1>1, <1>2
  <2> QED
    BY <2>2, <2>3
<1>7. ASSUME NEW ok \in BOOLEAN, Channels!ConfigureVoice(ok) PROVE ChannelsInv'
  <2>1. Still /\ enabled' = enabled /\ voice.number
    BY <1>1, <1>7 DEF Channels!ConfigureVoice
  <2>2. CASE ok
    <3> DEFINE st == Channels!Advanced(voice.status, "WEBHOOKS_CONFIGURED")
    <3>1. voice' = [voice EXCEPT !.hooks = TRUE, !.status = st]
      BY <1>1, <1>7, <2>2 DEF Channels!ConfigureVoice, Channels!Advanced, Channels!Voice
    <3>2. st \in Channels!VoiceStatus /\ (st = "ONLINE" => voice.status = "ONLINE")
      BY <1>1, <1>3 DEF Channels!Advanced
    <3> HIDE DEF st
    <3>3. voice' \in Channels!Voice /\ voice'.hooks /\ voice'.number /\ voice'.status = st
      BY <3>1, <3>2, <2>1, <1>1 DEF Channels!Voice
    <3> QED
      BY <3>2, <3>3, <2>1, <1>1, <1>2 DEF VoiceSound
  <2>3. CASE ~ok
    <3>1. voice' = [voice EXCEPT !.status = "ACTION_REQUIRED"]
      BY <1>7, <2>3 DEF Channels!ConfigureVoice, Channels!VoiceIs
    <3>2. VoiceSound(voice', enabled') /\ voice'.hooks = voice.hooks /\ voice'.number = voice.number
      BY <3>1, <1>3, VoiceStatusKeeps
    <3> QED
      BY <3>2, <2>1, <1>1, <1>2
  <2> QED
    BY <2>2, <2>3
<1>8. ASSUME NEW ok \in BOOLEAN, Channels!TestVoice(ok) PROVE ChannelsInv'
  <2> DEFINE st == IF ok THEN Channels!Advanced(voice.status, "TESTING") ELSE "ACTION_REQUIRED"
  <2>1. Still /\ enabled' = enabled /\ voice' = [voice EXCEPT !.status = st]
    BY <1>1, <1>8 DEF Channels!TestVoice, Channels!VoiceIs
  <2>2. st \in Channels!VoiceStatus /\ (st = "ONLINE" => voice.status = "ONLINE")
    BY <1>1, <1>3 DEF Channels!Advanced
  <2> HIDE DEF st
  <2>3. VoiceSound(voice', enabled') /\ voice'.hooks = voice.hooks /\ voice'.number = voice.number
    BY <2>1, <2>2, <1>1, <1>3, VoiceStatusKeeps
  <2> QED
    BY <2>1, <2>3, <1>1, <1>2
<1>9. ASSUME NEW ok \in BOOLEAN, Channels!EnableOpenAI(ok) PROVE ChannelsInv'
  BY <1>1, <1>2, <1>3, <1>9 DEF Channels!EnableOpenAI
<1>10. ASSUME NEW ok \in BOOLEAN, Channels!AcquireNumber(ok) PROVE ChannelsInv'
  <2>1. Still /\ enabled' = enabled
    BY <1>1, <1>10 DEF Channels!AcquireNumber
  <2>2. CASE ok
    <3>1. voice' = [status |-> "WEBHOOKS_CONFIGURED", number |-> TRUE, hooks |-> TRUE]
      BY <1>10, <2>2 DEF Channels!AcquireNumber
    <3> QED
      BY <3>1, <2>1, <1>2, <1>3, VoiceOf
  <2>3. CASE ~ok
    <3>1. voice' = [voice EXCEPT !.status = "FAILED"]
      BY <1>10, <2>3 DEF Channels!AcquireNumber, Channels!VoiceIs
    <3>2. VoiceSound(voice', enabled') /\ voice'.hooks = voice.hooks /\ voice'.number = voice.number
      BY <3>1, <1>3, VoiceStatusKeeps
    <3> QED
      BY <3>2, <2>1, <1>1, <1>2
  <2> QED
    BY <2>2, <2>3
<1> QED
  BY <1>4, <1>5, <1>6, <1>7, <1>8, <1>9, <1>10

\* A new status for the sender that the record has earned, at any state of the subaccount.
LEMMA SenderMoves ==
  ASSUME ChannelsInv, NEW st, wa' = [wa EXCEPT !.status = st], voice' = voice, openai' = openai,
         subaccount' \in BOOLEAN, enabled' \in BOOLEAN, enabled => enabled',
         Earned(wa, st, subaccount', enabled')
  PROVE  ChannelsInv'
<1>1. Facts(wa') /\ Earned(wa', wa'.status, subaccount', enabled')
  BY SenderStatusKeeps DEF ChannelsInv
<1>2. VoiceSound(voice', enabled')
  BY DEF ChannelsInv, VoiceSound
<1> QED
  BY <1>1, <1>2 DEF ChannelsInv

\* The record of the sender is written, and the rest is not.
LEMMA SenderWritten ==
  ASSUME ChannelsInv, Facts(wa'), Earned(wa', wa'.status, subaccount, enabled'), voice' = voice,
         openai' = openai, subaccount' = subaccount, enabled' \in BOOLEAN, enabled => enabled'
  PROVE  ChannelsInv'
<1>1. VoiceSound(voice', enabled')
  BY DEF ChannelsInv, VoiceSound
<1> QED
  BY <1>1 DEF ChannelsInv

LEMMA SubaccountOK == ASSUME ChannelsInv, NEW ok \in BOOLEAN, Channels!Subaccount(ok) PROVE ChannelsInv'
<1>1. /\ enabled' = enabled /\ openai' = openai /\ (subaccount => subaccount') /\ subaccount' \in BOOLEAN
      /\ ok => subaccount'
  BY DEF Channels!Subaccount, ChannelsInv
<1>2. VoiceSound(voice', enabled') /\ voice'.hooks = voice.hooks /\ voice'.number = voice.number
  <2> DEFINE st == IF ~ok THEN "ACTION_REQUIRED"
                   ELSE IF voice.status = "NOT_STARTED" THEN "SUBACCOUNT_READY" ELSE voice.status
  <2>1. VoiceSound(voice, enabled) /\ voice' = [voice EXCEPT !.status = st]
    BY DEF Channels!Subaccount, Channels!VoiceIs, ChannelsInv
  <2>2. st \in Channels!VoiceStatus /\ (st = "ONLINE" => enabled' /\ voice.number /\ voice.hooks)
    BY <1>1, <2>1 DEF VoiceSound, Channels!Voice, Channels!VoiceStatus
  <2> HIDE DEF st
  <2> QED
    BY <2>1, <2>2, VoiceStatusKeeps
<1>3. Facts(wa) /\ Earned(wa, wa.status, subaccount, enabled) /\ wa \in Channels!WhatsApp
  BY DEF ChannelsInv, Facts
<1>4. Facts(wa') /\ Earned(wa', wa'.status, subaccount', enabled')
  <2>1. CASE ok /\ wa.status = "WABA_RECEIVED"
    <3>1. wa' = [wa EXCEPT !.status = "TWILIO_SUBACCOUNT_READY"]
      BY <2>1 DEF Channels!Subaccount
    <3>2. Earned(wa, "TWILIO_SUBACCOUNT_READY", subaccount', enabled')
      BY <1>1, <1>3, <2>1 DEF Earned, Channels!WhatsAppStatus
    <3> QED
      BY <3>1, <3>2, <1>3, SenderStatusKeeps
  <2>2. CASE ~(ok /\ wa.status = "WABA_RECEIVED")
    <3>1. wa' = wa
      BY <2>2 DEF Channels!Subaccount
    <3>2. Earned(wa, wa.status, subaccount', enabled')
      BY <1>1, <1>3 DEF Earned
    <3> QED
      BY <3>1, <3>2, <1>3
  <2> QED
    BY <2>1, <2>2
<1> QED
  BY <1>1, <1>2, <1>4 DEF ChannelsInv

LEMMA DisableOK == ASSUME ChannelsInv, Channels!Disable PROVE ChannelsInv'
<1>1. /\ enabled' = FALSE /\ openai' = openai /\ subaccount' = subaccount
  BY DEF Channels!Disable
<1>2. VoiceSound(voice', enabled') /\ voice'.hooks = voice.hooks /\ voice'.number = voice.number
  <2> DEFINE st == IF voice.status = "NOT_STARTED" THEN "NOT_STARTED" ELSE "DISABLED"
  <2>1. VoiceSound(voice, enabled) /\ voice' = [voice EXCEPT !.status = st]
    BY DEF Channels!Disable, Channels!VoiceIs, ChannelsInv
  <2>2. st \in Channels!VoiceStatus /\ st # "ONLINE"
    BY DEF Channels!VoiceStatus
  <2> HIDE DEF st
  <2> QED
    BY <2>1, <2>2, VoiceStatusKeeps
<1>3. Facts(wa') /\ Earned(wa', wa'.status, subaccount', enabled')
  <2> DEFINE st == IF wa.status = "NOT_STARTED" THEN wa.status ELSE "DISABLED"
  <2>1. Facts(wa) /\ wa \in Channels!WhatsApp /\ wa' = [wa EXCEPT !.status = st]
    BY DEF Channels!Disable, ChannelsInv, Facts
  <2>2. st \in {"NOT_STARTED", "DISABLED"}
    OBVIOUS
  <2> HIDE DEF st
  <2>3. Earned(wa, st, subaccount', enabled')
    BY <2>2 DEF Earned, Channels!WhatsAppStatus
  <2> QED
    BY <2>1, <2>3, SenderStatusKeeps
<1> QED
  BY <1>1, <1>2, <1>3 DEF ChannelsInv

LEMMA EnableOK == ASSUME ChannelsInv, Channels!Enable PROVE ChannelsInv'
<1>1. /\ enabled' = TRUE /\ openai' = openai /\ subaccount' = subaccount
  BY DEF Channels!Enable
<1>2. VoiceSound(voice', enabled') /\ voice'.hooks = voice.hooks /\ voice'.number = voice.number
  <2> DEFINE st == IF voice.status = "DISABLED" THEN Channels!ResumedVoice ELSE voice.status
  <2>1. VoiceSound(voice, enabled) /\ voice' = [voice EXCEPT !.status = st]
    BY DEF Channels!Enable, Channels!VoiceIs, ChannelsInv
  <2>2. Channels!ResumedVoice \in {"ONLINE", "NUMBER_ASSIGNED", "SUBACCOUNT_READY", "NOT_STARTED"}
        /\ (Channels!ResumedVoice = "ONLINE" => voice.number /\ voice.hooks)
    BY <2>1 DEF Channels!ResumedVoice, VoiceSound, Channels!Voice, ChannelsInv
  <2>3. st \in Channels!VoiceStatus /\ (st = "ONLINE" => enabled' /\ voice.number /\ voice.hooks)
    BY <1>1, <2>1, <2>2 DEF VoiceSound, Channels!Voice, Channels!VoiceStatus
  <2> HIDE DEF st
  <2> QED
    BY <2>1, <2>3, VoiceStatusKeeps
<1>3. Facts(wa') /\ Earned(wa', wa'.status, subaccount', enabled')
  <2> DEFINE st == IF wa.status = "DISABLED" THEN Channels!ResumedWhatsApp ELSE wa.status
  <2>1. /\ Facts(wa) /\ wa \in Channels!WhatsApp /\ wa' = [wa EXCEPT !.status = st]
        /\ Earned(wa, wa.status, subaccount, enabled) /\ subaccount \in BOOLEAN
    BY DEF Channels!Enable, ChannelsInv, Facts
  <2>2. Earned(wa, Channels!ResumedByRecord, subaccount', enabled') /\ Channels!ResumedByRecord # "ONLINE"
    <3>1. /\ wa.waba \in BOOLEAN /\ wa.inUse \in BOOLEAN
          /\ {"TWILIO_SUBACCOUNT_READY", "WABA_RECEIVED", "MIGRATION_REQUIRED", "NUMBER_ENTERED",
              "NOT_STARTED"} \subseteq Channels!WhatsAppStatus
      BY <2>1 DEF Channels!WhatsApp, Channels!WhatsAppStatus
    <3>2. CASE wa.waba /\ subaccount
      <4>1. Channels!ResumedByRecord = "TWILIO_SUBACCOUNT_READY"
        BY <3>2 DEF Channels!ResumedByRecord
      <4> QED
        BY <4>1, <3>1, <3>2, <1>1 DEF Earned
    <3>3. CASE wa.waba /\ ~subaccount
      <4>1. Channels!ResumedByRecord = "WABA_RECEIVED"
        BY <3>3 DEF Channels!ResumedByRecord
      <4> QED
        BY <4>1, <3>1, <3>3, <1>1 DEF Earned
    <3>4. CASE ~wa.waba /\ wa.number # None
      <4>1. Channels!ResumedByRecord \in {"MIGRATION_REQUIRED", "NUMBER_ENTERED"}
        BY <3>4 DEF Channels!ResumedByRecord
      <4> QED
        BY <4>1, <3>1, <3>4, <1>1 DEF Earned
    <3>5. CASE ~wa.waba /\ ~(wa.number # None)
      <4>1. Channels!ResumedByRecord = "NOT_STARTED"
        BY <3>5 DEF Channels!ResumedByRecord
      <4> QED
        BY <4>1, <3>1, <3>5, <1>1 DEF Earned
    <3> QED
      BY <3>2, <3>3, <3>4, <3>5, <2>1
  <2>3. Earned(wa, Channels!ResumedWhatsApp, subaccount', enabled')
    <3> DEFINE rec == Channels!ResumedByRecord
    <3> HIDE DEF rec
    <3>1. Channels!ResumedWhatsApp = Channels!StateOf(wa.sender, rec) /\ Earned(wa, rec, subaccount', enabled')
      BY <2>2 DEF Channels!ResumedWhatsApp, rec
    <3>2. wa.sender \in Channels!SenderStatus \union {None} /\ rec # "ONLINE"
      BY <2>1, <2>2 DEF Channels!WhatsApp, rec
    <3>3. Channels!ResumedWhatsApp = "ONLINE" => wa.sender = "ONLINE"
      BY <3>1, <3>2 DEF Channels!StateOf
    <3>4. ASSUME Channels!ResumedWhatsApp # rec PROVE Earned(wa, Channels!ResumedWhatsApp, subaccount', enabled')
      <4> DEFINE res == Channels!ResumedWhatsApp
      <4> HIDE DEF res
      <4>1. /\ res \in {"SENDER_REGISTRATION_PENDING", "OTP_REQUIRED", "SENDER_REGISTERING", "ONLINE",
                       "ACTION_REQUIRED"}
            /\ wa.sender # None
        BY <3>1, <3>2, <3>4, StateOfSender DEF res
      <4>2. wa.sid # None /\ (res = "ONLINE" => wa.address = wa.sid)
        BY <4>1, <3>3, <2>1 DEF Facts, res
      <4>3. Earned(wa, res, subaccount', enabled')
        BY <4>1, <4>2, <1>1 DEF Earned, Channels!WhatsAppStatus
      <4> QED
        BY <4>3 DEF res
    <3> QED
      BY <3>1, <3>4
  <2>4. Earned(wa, wa.status, subaccount', enabled')
    BY <2>1, <1>1 DEF Earned
  <2>5. Earned(wa, st, subaccount', enabled')
    BY <2>3, <2>4
  <2> HIDE DEF st
  <2> QED
    BY <2>1, <2>5, SenderStatusKeeps
<1> QED
  BY <1>1, <1>2, <1>3 DEF ChannelsInv

LEMMA SignupOK ==
  ASSUME ChannelsInv, \/ Channels!MarkMigrationComplete \/ Channels!StartSignup \/ Channels!CompleteSignup
                      \/ Channels!TestWhatsApp
                      \/ \E n \in Senders, inUse \in BOOLEAN : Channels!SetNumber(n, inUse)
  PROVE  ChannelsInv'
<1>1. /\ Facts(wa) /\ Earned(wa, wa.status, subaccount, enabled) /\ wa \in Channels!WhatsApp
      /\ subaccount \in BOOLEAN /\ enabled \in BOOLEAN
  BY DEF ChannelsInv, Facts
<1>2. /\ enabled' = enabled /\ openai' = openai /\ subaccount' = subaccount /\ voice' = voice
  BY DEF Channels!MarkMigrationComplete, Channels!StartSignup, Channels!CompleteSignup, Channels!SetNumber,
         Channels!TestWhatsApp, Channels!WhatsAppIs
<1>3. {"TWILIO_SUBACCOUNT_READY", "WABA_RECEIVED", "MIGRATION_REQUIRED", "NUMBER_ENTERED",
       "META_SIGNUP_IN_PROGRESS", "TESTING"} \subseteq Channels!WhatsAppStatus
  BY DEF Channels!WhatsAppStatus
<1>4. ASSUME Channels!MarkMigrationComplete PROVE ChannelsInv'
  <2>1. wa' = [wa EXCEPT !.inUse = FALSE, !.status = "NUMBER_ENTERED"] /\ wa.status = "MIGRATION_REQUIRED"
    BY <1>4 DEF Channels!MarkMigrationComplete
  <2>2. /\ wa' \in Channels!WhatsApp /\ wa'.status = "NUMBER_ENTERED" /\ wa'.number = wa.number
        /\ wa'.signup = wa.signup /\ wa'.waba = wa.waba /\ wa'.sid = wa.sid
        /\ wa'.sender = wa.sender /\ wa'.address = wa.address
    BY <2>1, <1>1, <1>3 DEF Channels!WhatsApp
  <2>3. Facts(wa')
    BY <2>2, <1>1 DEF Facts
  <2>4. Earned(wa', "NUMBER_ENTERED", subaccount, enabled)
    BY <2>1, <2>2, <1>1, <1>3 DEF Earned
  <2> QED
    BY <2>2, <2>3, <2>4, <1>1, <1>2, SenderWritten
<1>5. ASSUME Channels!StartSignup PROVE ChannelsInv'
  <2>1. wa' = [wa EXCEPT !.signup = TRUE, !.status = "META_SIGNUP_IN_PROGRESS"] /\ wa.number # None
    BY <1>5 DEF Channels!StartSignup, Channels!CanSignUp
  <2>2. /\ wa' \in Channels!WhatsApp /\ wa'.status = "META_SIGNUP_IN_PROGRESS" /\ wa'.number = wa.number
        /\ wa'.waba = wa.waba /\ wa'.sid = wa.sid
        /\ wa'.sender = wa.sender /\ wa'.address = wa.address
    BY <2>1, <1>1, <1>3 DEF Channels!WhatsApp
  <2>3. Facts(wa')
    BY <2>1, <2>2, <1>1 DEF Facts
  <2>4. Earned(wa', "META_SIGNUP_IN_PROGRESS", subaccount, enabled)
    BY <2>1, <2>2, <1>1, <1>3 DEF Earned
  <2> QED
    BY <2>2, <2>3, <2>4, <1>1, <1>2, SenderWritten
<1>6. ASSUME Channels!CompleteSignup PROVE ChannelsInv'
  <2> DEFINE st == IF subaccount THEN "TWILIO_SUBACCOUNT_READY" ELSE "WABA_RECEIVED"
  <2>1. wa' = [wa EXCEPT !.signup = FALSE, !.waba = TRUE, !.status = st] /\ wa.signup
    BY <1>6 DEF Channels!CompleteSignup
  <2>2. st \in Channels!WhatsAppStatus /\ st \in {"TWILIO_SUBACCOUNT_READY", "WABA_RECEIVED"}
        /\ (st = "TWILIO_SUBACCOUNT_READY" => subaccount)
    BY <1>3
  <2> HIDE DEF st
  <2>3. /\ wa' \in Channels!WhatsApp /\ wa'.status = st /\ wa'.number = wa.number
        /\ wa'.waba /\ wa'.sid = wa.sid /\ wa'.sender = wa.sender /\ wa'.address = wa.address
    BY <2>1, <2>2, <1>1, <1>3 DEF Channels!WhatsApp
  <2>4. Facts(wa')
    BY <2>1, <2>3, <1>1 DEF Facts
  <2>5. Earned(wa', st, subaccount, enabled)
    BY <2>1, <2>2, <2>3 DEF Earned
  <2> QED
    BY <2>3, <2>4, <2>5, <1>1, <1>2, SenderWritten
<1>7. ASSUME Channels!TestWhatsApp PROVE ChannelsInv'
  <2> DEFINE st == Channels!Advanced(wa.status, "TESTING")
  <2>1. wa' = [wa EXCEPT !.status = st] /\ (st = wa.status \/ st = "TESTING")
    BY <1>7 DEF Channels!TestWhatsApp, Channels!WhatsAppIs, Channels!Advanced
  <2> HIDE DEF st
  <2>2. Earned(wa, st, subaccount, enabled)
    BY <2>1, <1>1, <1>3 DEF Earned
  <2> QED
    BY <2>1, <2>2, <1>1, <1>2, SenderMoves
<1>8. ASSUME NEW n \in Senders, NEW inUse \in BOOLEAN, Channels!SetNumber(n, inUse) PROVE ChannelsInv'
  <2> DEFINE st == IF inUse THEN "MIGRATION_REQUIRED" ELSE "NUMBER_ENTERED"
  <2>1. wa' = [wa EXCEPT !.number = n, !.inUse = inUse, !.status = st] /\ n # None
    BY <1>8, NoneAssumption DEF Channels!SetNumber
  <2>2. st \in Channels!WhatsAppStatus /\ st \in {"MIGRATION_REQUIRED", "NUMBER_ENTERED"}
    BY <1>3
  <2> HIDE DEF st
  <2>3. /\ wa' \in Channels!WhatsApp /\ wa'.status = st /\ wa'.number = n
        /\ wa'.sid = wa.sid /\ wa'.sender = wa.sender /\ wa'.address = wa.address
    BY <2>1, <2>2, <1>1, <1>3 DEF Channels!WhatsApp
  <2>4. Facts(wa')
    BY <2>1, <2>3, <1>1 DEF Facts
  <2>5. Earned(wa', st, subaccount, enabled)
    BY <2>1, <2>2, <2>3 DEF Earned
  <2> QED
    BY <2>3, <2>4, <2>5, <1>1, <1>2, SenderWritten
<1> QED
  BY <1>4, <1>5, <1>6, <1>7, <1>8

LEMMA SenderOK ==
  ASSUME ChannelsInv, NEW ok \in BOOLEAN, NEW st \in Channels!SenderStatus,
         Channels!RegisterSender(ok, st) \/ Channels!AskSender(ok, st)
  PROVE  ChannelsInv'
<1>1. /\ Facts(wa) /\ Earned(wa, wa.status, subaccount, enabled) /\ wa \in Channels!WhatsApp
      /\ subaccount \in BOOLEAN /\ enabled \in BOOLEAN
  BY DEF ChannelsInv, Facts
<1>2. openai' = openai /\ subaccount' = subaccount /\ voice' = voice
  BY DEF Channels!RegisterSender, Channels!AskSender
<1>3. wa.number \in Senders \union {None} /\ wa.sid \in Senders \union {None}
  BY <1>1 DEF Channels!WhatsApp
<1>4. ASSUME Channels!RegisterSender(ok, st), ok PROVE ChannelsInv'
  <2>1. wa.number \in Senders /\ Channels!Snapshot(wa.number, st, "SENDER_REGISTRATION_PENDING")
    BY <1>3, <1>4 DEF Channels!RegisterSender, Channels!CanRegister
  <2>2. /\ Facts(wa') /\ Earned(wa', wa'.status, subaccount, enabled')
        /\ enabled' \in BOOLEAN /\ (enabled => enabled')
    BY <1>1, <2>1, SnapshotKeeps
  <2> QED
    BY <1>2, <2>2, SenderWritten
<1>5. ASSUME Channels!RegisterSender(ok, st), ~ok PROVE ChannelsInv'
  <2>1. wa' = [wa EXCEPT !.status = "FAILED"] /\ enabled' = enabled
    BY <1>5 DEF Channels!RegisterSender, Channels!WhatsAppIs
  <2>2. Earned(wa, "FAILED", subaccount, enabled)
    BY DEF Earned, Channels!WhatsAppStatus
  <2> QED
    BY <2>1, <2>2, <1>1, <1>2, SenderMoves
<1>6. ASSUME Channels!AskSender(ok, st), ok PROVE ChannelsInv'
  <2>1. wa.sid \in Senders /\ Channels!Snapshot(wa.sid, st, wa.status)
    BY <1>3, <1>6 DEF Channels!AskSender, Channels!HasSender
  <2>2. /\ Facts(wa') /\ Earned(wa', wa'.status, subaccount, enabled')
        /\ enabled' \in BOOLEAN /\ (enabled => enabled')
    BY <1>1, <2>1, SnapshotKeeps
  <2> QED
    BY <1>2, <2>2, SenderWritten
<1>7. ASSUME Channels!AskSender(ok, st), ~ok PROVE ChannelsInv'
  <2>1. wa' = [wa EXCEPT !.status = "ACTION_REQUIRED"] /\ enabled' = enabled /\ wa.sid # None
    BY <1>7 DEF Channels!AskSender, Channels!WhatsAppIs, Channels!HasSender
  <2>2. Earned(wa, "ACTION_REQUIRED", subaccount, enabled)
    BY <2>1 DEF Earned, Channels!WhatsAppStatus
  <2> QED
    BY <2>1, <2>2, <1>1, <1>2, SenderMoves
<1> QED
  BY <1>4, <1>5, <1>6, <1>7

LEMMA ChannelsStepOK == ChannelsInv /\ [Channels!Next]_(Channels!setupVars) => ChannelsInv'
<1> SUFFICES ASSUME ChannelsInv, [Channels!Next]_(Channels!setupVars) PROVE ChannelsInv'
  OBVIOUS
<1>1. CASE UNCHANGED Channels!setupVars
  BY <1>1 DEF Channels!setupVars, ChannelsInv, VoiceSound, Facts, Earned
<1>2. CASE Channels!Next
  BY <1>2, VoiceStepOK, SubaccountOK, DisableOK, EnableOK, SignupOK, SenderOK DEF Channels!Next
<1> QED
  BY <1>1, <1>2

LEMMA OfferedWork ==
  ChannelsInv => Channels!TypeOK /\ Channels!OnlineIsLive /\ Channels!OfferedStepsWork
<1> SUFFICES ASSUME ChannelsInv PROVE Channels!TypeOK /\ Channels!OnlineIsLive /\ Channels!OfferedStepsWork
  OBVIOUS
<1>1. /\ voice \in Channels!Voice /\ wa \in Channels!WhatsApp /\ subaccount \in BOOLEAN /\ enabled \in BOOLEAN
      /\ openai \in {"NOT_STARTED", "READY", "ACTION_REQUIRED"}
      /\ voice.status = "ONLINE" => enabled /\ voice.number /\ voice.hooks
      /\ voice.hooks => voice.number
  BY DEF ChannelsInv, VoiceSound, Facts
<1>2. Facts(wa) /\ Earned(wa, wa.status, subaccount, enabled)
  BY DEF ChannelsInv
<1>3. Channels!TypeOK /\ Channels!OnlineIsLive
  BY <1>1, <1>2 DEF Channels!TypeOK, Channels!OnlineIsLive, Earned, Channels!HasSender
<1>4. ASSUME NEW step \in Channels!VoiceOffers PROVE Channels!Works(step)
  BY <1>1, <1>4 DEF Channels!VoiceOffers, Channels!Works, Channels!CanAcquire, Channels!CanGoOnline,
                    Channels!Voice
<1>5. ASSUME wa.status \notin {"FAILED", "TESTING"}, NEW step \in Channels!WhatsAppOffers
      PROVE  Channels!Works(step)
  <2>1. wa.signup \in BOOLEAN /\ wa.waba \in BOOLEAN /\ (wa.waba => wa.number # None)
    BY <1>1, <1>2 DEF Channels!WhatsApp, Facts
  <2>2. CASE wa.status \in {"NUMBER_ENTERED", "META_SIGNUP_IN_PROGRESS"}
    BY <1>2, <1>5, <2>2 DEF Channels!WhatsAppOffers, Channels!Works, Earned, Channels!CanSignUp
  <2>3. CASE wa.status \in {"WABA_RECEIVED", "TWILIO_SUBACCOUNT_READY"}
    BY <1>2, <1>5, <2>1, <2>3 DEF Channels!WhatsAppOffers, Channels!Works, Earned, Channels!CanRegister
  <2>4. CASE wa.status \in {"OTP_REQUIRED", "ONLINE", "SENDER_REGISTRATION_PENDING", "SENDER_REGISTERING",
                            "ACTION_REQUIRED"}
    BY <1>2, <1>5, <2>4 DEF Channels!WhatsAppOffers, Channels!Works, Earned, Channels!HasSender
  <2>5. CASE wa.status \in {"MIGRATION_REQUIRED", "NOT_STARTED", "DISABLED"}
    BY <1>5, <2>5 DEF Channels!WhatsAppOffers, Channels!Works
  <2> QED
    BY <1>2, <1>5, <2>2, <2>3, <2>4, <2>5 DEF Earned, Channels!WhatsAppStatus
<1> QED
  BY <1>3, <1>4, <1>5 DEF Channels!OfferedStepsWork

\* At every state and for every set of numbers: a channel shown as online is one that customers
\* reach, and no step that the console offers is one that the service would refuse.
THEOREM ChannelsStayTrue == Spec => []ChannelsTellTheTruth
<1> DEFINE Inv == focus = "channels" => ChannelsInv
<1>1. Init => Inv
  BY ChannelsInitOK DEF Init
<1>2. Inv /\ [Next]_vars => Inv'
  <2> SUFFICES ASSUME Inv, [Next]_vars, focus' = "channels" PROVE ChannelsInv'
    OBVIOUS
  <2> focus = "channels" /\ [Channels!Next]_(Channels!setupVars)
    BY DEF Next, vars, twilioVars, setupVars, Channels!setupVars, LoyaltyStep, RemindersStep, ImportsStep,
           NumbersStep, ChannelsStep, CarrierStep, TenantsStep, StripeStep, SquareStep, AccessStep, ImagesStep
  <2> QED
    BY ChannelsStepOK
<1>3. Inv => ChannelsTellTheTruth
  BY OfferedWork DEF ChannelsTellTheTruth
<1> QED
  BY <1>1, <1>2, <1>3, PTL DEF Spec

-----------------------------------------------------------------------------
(* Signing in. SessionsEnded: what ended a session it did not span is not older than the session,
   and what is about to end it will not be either. *)
AccessTyped ==
    /\ Access!TypeOK /\ Len(links) <= MaxLinks
    /\ tenant = "DELETED" => \A w \in Workers : signing[w] = Access!Idle
    /\ \A w \in Workers : signing[w].op = "reset" => signing[w].arg \subseteq DOMAIN links
SessionsEnded ==
    session # None =>
        /\ session.iat <= time
        /\ ~session.spans =>
              /\ session.epoch = staff.epoch \/ session.iat <= staff.since
              /\ \A w \in Workers : signing[w].op \in Access!Ending => session.iat <= signing[w].at
\* A link that can be opened was not used, and a code that can be exchanged was not.
LinksUnused ==
    /\ \A i \in DOMAIN links : links[i] \in {"live", "lapsed"} => uses[i] = 0
    /\ \A i \in 1..MaxLinks : tenant # "DELETED" /\ i > Len(links) => uses[i] = 0
    /\ Len(links) > 0 /\ links[Len(links)] \in {"used", "void"} => staff.chosen
    /\ grant.code = "fresh" \/ grant.state = "none" => uses[0] = 0
    /\ \A w \in Workers : signing[w].op = "exchange" => grant.state # "none"
\* Until two requests overlap, what a request read of links and code still stands.
OneAtATime ==
    ~crossing =>
        /\ \A v, w \in Workers : signing[v].op \in Access!Single /\ signing[w].op \in Access!Single => v = w
        /\ \A w \in Workers : signing[w].op = "issue" => Access!Outstanding \subseteq signing[w].arg
        /\ \A w \in Workers : signing[w].op = "reset" => \A i \in signing[w].arg : uses[i] = 0
        /\ \A w \in Workers : signing[w].op = "exchange" => uses[0] = 0
        /\ \A i, j \in Access!Live : i = j
        /\ \A i \in 0..MaxLinks : uses[i] <= 1
AccessInv == AccessTyped /\ SessionsEnded /\ LinksUnused /\ OneAtATime

LEMMA AccessBounds == MaxTime \in Nat /\ MaxEnds \in Nat /\ MaxLinks \in Nat /\ MaxTime > 0 /\ MaxLinks > 0
  BY BoundsAssumption

LEMMA AccessInitOK == Access!Init => AccessInv
<1> SUFFICES ASSUME Access!Init PROVE AccessInv
  OBVIOUS
<1>1. /\ time = 1 /\ tenant = "ACTIVE" /\ staff = [active |-> TRUE, since |-> 0, epoch |-> 0, chosen |-> FALSE]
      /\ links = <<"live">> /\ uses = [i \in 0..MaxLinks |-> 0]
      /\ grant = [state |-> "none", code |-> "none"] /\ session = None
      /\ signing = [w \in Workers |-> Access!Idle] /\ crossing = FALSE
  BY DEF Access!Init
<1>2. Len(links) = 1 /\ DOMAIN links = {1} /\ links[1] = "live" /\ links \in Seq(Access!LinkState)
  BY <1>1 DEF Access!LinkState
<1>3. Access!Idle \in Access!Request /\ Access!Idle.op = "none"
  BY AccessBounds DEF Access!Idle, Access!Request
<1>4. AccessTyped
  <2>1. time \in 1..MaxTime /\ tenant \in {"ACTIVE", "CLOSED", "DELETED"}
    BY <1>1, AccessBounds
  <2>9. crossing \in BOOLEAN
    BY <1>1
  <2>2. staff \in [active : BOOLEAN, since : 0..MaxTime, epoch : 0..MaxEnds, chosen : BOOLEAN]
    BY <1>1, AccessBounds
  <2>3. uses \in [0..MaxLinks -> Nat]
    BY <1>1
  <2>4. grant \in [state : {"none", "open", "over"}, code : {"none", "fresh", "burnt"}]
    BY <1>1
  <2>5. signing \in [Workers -> Access!Request] /\ session \in Access!Token \union {None}
    BY <1>1, <1>3
  <2>6. Access!TypeOK
    BY <2>1, <2>2, <2>3, <2>4, <2>5, <2>9, <1>2 DEF Access!TypeOK
  <2>7. Len(links) <= MaxLinks
    BY <1>2, AccessBounds
  <2>8. \A w \in Workers : signing[w] = Access!Idle
    BY <1>1
  <2> QED
    BY <1>1, <1>3, <2>6, <2>7, <2>8 DEF AccessTyped
<1>5. LinksUnused
  BY <1>1, <1>2, <1>3, AccessBounds DEF LinksUnused
<1>6. OneAtATime
  BY <1>1, <1>2, <1>3, AccessBounds DEF OneAtATime, Access!Single, Access!Live
<1> QED
  BY <1>1, <1>4, <1>5, <1>6 DEF AccessInv, SessionsEnded

\* What a request asks for.
LEMMA Begins ==
  ASSUME AccessTyped, NEW w \in Workers, NEW op \in {"login", "issue", "reset", "exchange", "deactivate"},
         NEW arg \in SUBSET (1..MaxLinks), Access!Becomes(w, op, arg)
  PROVE  /\ signing' \in [Workers -> Access!Request]
         /\ \A v \in Workers : v # w => signing'[v] = signing[v]
         /\ signing'[w].op = op /\ signing'[w].arg = arg
         /\ signing'[w].at = IF op \in Access!Ending THEN time ELSE 0
         /\ signing'[w].epoch = IF op \in Access!Signing THEN staff.epoch ELSE 0
         /\ crossing' \in BOOLEAN
         /\ ~crossing' => ~crossing /\ (op \in Access!Single =>
                                            \A v \in Workers : signing[v].op \notin Access!Single)
<1> DEFINE new == [op |-> op, arg |-> arg, at |-> IF op \in Access!Ending THEN time ELSE 0,
                   epoch |-> IF op \in Access!Signing THEN staff.epoch ELSE 0]
<1>1. /\ time \in 0..MaxTime /\ staff.epoch \in 0..MaxEnds /\ signing \in [Workers -> Access!Request]
      /\ crossing \in BOOLEAN
  BY AccessBounds DEF AccessTyped, Access!TypeOK
<1>2. new \in Access!Request
  BY <1>1, AccessBounds DEF Access!Request
<1>3. signing' = [signing EXCEPT ![w] = new]
      /\ crossing' = (crossing \/ (op \in Access!Single /\ \E v \in Workers : signing[v].op \in Access!Single))
  BY DEF Access!Becomes
<1>4. /\ new.op = op /\ new.arg = arg /\ new.at = (IF op \in Access!Ending THEN time ELSE 0)
      /\ new.epoch = (IF op \in Access!Signing THEN staff.epoch ELSE 0)
  OBVIOUS
<1> HIDE DEF new
<1>5. signing'[w] = new /\ signing' \in [Workers -> Access!Request]
      /\ \A v \in Workers : v # w => signing'[v] = signing[v]
  BY <1>1, <1>2, <1>3
<1>6. crossing' \in BOOLEAN
      /\ (~crossing' => ~crossing /\ (op \in Access!Single =>
                                          \A v \in Workers : signing[v].op \notin Access!Single))
  BY <1>1, <1>3
<1> QED
  BY <1>4, <1>5, <1>6

LEMMA Finishes ==
  ASSUME AccessTyped, NEW w \in Workers, Access!Ends(w)
  PROVE  /\ signing' \in [Workers -> Access!Request]
         /\ signing'[w] = Access!Idle
         /\ \A v \in Workers : v # w => signing'[v] = signing[v]
         /\ Access!Idle.op = "none"
<1>1. Access!Idle \in Access!Request /\ Access!Idle.op = "none"
  BY AccessBounds DEF Access!Idle, Access!Request
<1> HIDE DEF Access!Idle
<1> QED
  BY <1>1 DEF AccessTyped, Access!TypeOK, Access!Ends

\* What each step of the component leaves well typed.
LEMMA AccessTypes ==
  ASSUME AccessTyped
  PROVE  /\ time \in 1..MaxTime /\ tenant \in {"ACTIVE", "CLOSED", "DELETED"} /\ crossing \in BOOLEAN
         /\ staff \in [active : BOOLEAN, since : 0..MaxTime, epoch : 0..MaxEnds, chosen : BOOLEAN]
         /\ staff.since \in 0..MaxTime /\ staff.epoch \in 0..MaxEnds /\ staff.chosen \in BOOLEAN
         /\ staff.active \in BOOLEAN
         /\ links \in Seq(Access!LinkState) /\ Len(links) \in Nat /\ Len(links) <= MaxLinks
         /\ DOMAIN links = 1..Len(links) /\ uses \in [0..MaxLinks -> Nat]
         /\ \A i \in DOMAIN links : i \in 1..MaxLinks /\ links[i] \in Access!LinkState
         /\ grant \in [state : {"none", "open", "over"}, code : {"none", "fresh", "burnt"}]
         /\ session \in Access!Token \union {None}
         /\ signing \in [Workers -> Access!Request]
         /\ \A w \in Workers : /\ signing[w].at \in 0..MaxTime /\ signing[w].epoch \in 0..MaxEnds
                               /\ signing[w].arg \subseteq 1..MaxLinks
<1>1. links \in Seq(Access!LinkState) /\ Len(links) \in Nat /\ DOMAIN links = 1..Len(links)
      /\ \A i \in DOMAIN links : links[i] \in Access!LinkState
  BY DEF AccessTyped, Access!TypeOK
<1>2. \A i \in DOMAIN links : i \in 1..MaxLinks
  BY <1>1, AccessBounds DEF AccessTyped
<1>3. staff \in [active : BOOLEAN, since : 0..MaxTime, epoch : 0..MaxEnds, chosen : BOOLEAN]
  BY DEF AccessTyped, Access!TypeOK
<1>4. \A w \in Workers : /\ signing[w].at \in 0..MaxTime /\ signing[w].epoch \in 0..MaxEnds
                          /\ signing[w].arg \subseteq 1..MaxLinks
  BY DEF AccessTyped, Access!TypeOK, Access!Request
<1> QED
  BY <1>1, <1>2, <1>3, <1>4 DEF AccessTyped, Access!TypeOK

\* Signing a token is typed, and only the session changes.
LEMMA Minted ==
  ASSUME AccessTyped, NEW ep \in 0..MaxEnds, NEW imp \in BOOLEAN, NEW spans \in BOOLEAN,
         session' \in {session, [iat |-> time, epoch |-> ep, impersonating |-> imp, spans |-> spans]}
  PROVE  session' \in Access!Token \union {None}
<1>1. time \in 0..MaxTime /\ session \in Access!Token \union {None}
  BY AccessTypes, AccessBounds
<1>2. [iat |-> time, epoch |-> ep, impersonating |-> imp, spans |-> spans] \in Access!Token
  BY <1>1 DEF Access!Token
<1> QED
  BY <1>1, <1>2

\* A worker that begins, or is at, something does so for a business that exists.
LEMMA StillThere ==
  ASSUME AccessTyped, NEW w \in Workers, Access!Free(w) \/ signing[w] # Access!Idle \/ signing[w].op # "none"
  PROVE  tenant # "DELETED"
  BY DEF AccessTyped, Access!Free, Access!Exists, Access!Idle

\* The sessions do not mind what changes neither them nor the employee.
LEMMA SessionsKeep ==
  ASSUME AccessTyped, SessionsEnded, session' = session, staff'.epoch = staff.epoch,
         staff'.since = staff.since, time' \in Nat, time <= time',
         \A w \in Workers : signing'[w].op \in Access!Ending =>
             signing'[w].at = time
             \/ (signing[w].op \in Access!Ending /\ signing'[w].at = signing[w].at)
  PROVE  SessionsEnded'
<1> SUFFICES ASSUME session # None
             PROVE  /\ session.iat <= time'
                    /\ ~session.spans =>
                         /\ session.epoch = staff'.epoch \/ session.iat <= staff'.since
                         /\ \A w \in Workers :
                              signing'[w].op \in Access!Ending => session.iat <= signing'[w].at
  BY DEF SessionsEnded, Access!Ending
<1>1. session.iat \in Nat /\ time \in Nat
  BY AccessTypes, AccessBounds DEF Access!Token
<1>2. session.iat <= time
  BY DEF SessionsEnded
<1>3. session.iat <= time'
  BY <1>1, <1>2
<1>4. ASSUME ~session.spans PROVE session.epoch = staff'.epoch \/ session.iat <= staff'.since
  BY <1>4 DEF SessionsEnded
<1>5. ASSUME ~session.spans, NEW w \in Workers, signing'[w].op \in Access!Ending
      PROVE  session.iat <= signing'[w].at
  BY <1>2, <1>5 DEF SessionsEnded
<1> QED
  BY <1>3, <1>4, <1>5

\* The links and the code do not mind what changes neither them nor their uses.
LEMMA UnusedKeep ==
  ASSUME LinksUnused, links' = links, uses' = uses, grant' = grant, staff'.chosen = staff.chosen,
         tenant = "DELETED" => tenant' = "DELETED",
         \A w \in Workers : signing'[w].op = "exchange" => signing[w].op = "exchange" \/ grant.state # "none"
  PROVE  LinksUnused'
  BY DEF LinksUnused

\* Nor do the requests mind that another one ends, or begins that signs nobody in by a link.
LEMMA AloneKeep ==
  ASSUME OneAtATime, links' = links, uses' = uses, crossing' = crossing,
         \A w \in Workers : signing'[w] = signing[w] \/ signing'[w].op \notin Access!Single
  PROVE  OneAtATime'
<1> SUFFICES ASSUME ~crossing' PROVE OneAtATime'
  BY DEF OneAtATime
<1>1. Access!Outstanding' = Access!Outstanding /\ Access!Live' = Access!Live
  BY DEF Access!Outstanding, Access!Live
<1>2. \A w \in Workers : signing'[w].op \in Access!Single => signing'[w] = signing[w]
  OBVIOUS
<1>3. {"issue", "reset", "exchange"} = Access!Single
  BY DEF Access!Single
<1>4. \A v, w \in Workers : signing'[v].op \in Access!Single /\ signing'[w].op \in Access!Single => v = w
  BY <1>2 DEF OneAtATime
<1>5. \A w \in Workers : signing'[w].op \in {"issue", "reset", "exchange"} => signing'[w] = signing[w]
  BY <1>2, <1>3
<1>6. /\ \A w \in Workers : signing'[w].op = "issue" => Access!Outstanding' \subseteq signing'[w].arg
      /\ \A w \in Workers : signing'[w].op = "reset" => \A i \in signing'[w].arg : uses'[i] = 0
      /\ \A w \in Workers : signing'[w].op = "exchange" => uses'[0] = 0
  BY <1>1, <1>5 DEF OneAtATime
<1> QED
  BY <1>1, <1>4, <1>6 DEF OneAtATime, Access!Single

LEMMA TypedAfter ==
  ASSUME AccessTyped, time' \in 1..MaxTime, tenant' \in {"ACTIVE", "CLOSED", "DELETED"}, crossing' \in BOOLEAN,
         staff' \in [active : BOOLEAN, since : 0..MaxTime, epoch : 0..MaxEnds, chosen : BOOLEAN],
         links' \in Seq(Access!LinkState), Len(links') <= MaxLinks, DOMAIN links \subseteq DOMAIN links',
         uses' \in [0..MaxLinks -> Nat],
         grant' \in [state : {"none", "open", "over"}, code : {"none", "fresh", "burnt"}],
         session' \in Access!Token \union {None}, signing' \in [Workers -> Access!Request],
         tenant' # "DELETED",
         \A w \in Workers : signing'[w].op = "reset" =>
                 signing'[w] = signing[w] \/ signing'[w].arg \subseteq DOMAIN links
  PROVE  AccessTyped'
<1>1. Access!TypeOK'
  BY DEF Access!TypeOK
<1>2. \A w \in Workers : signing'[w].op = "reset" => signing'[w].arg \subseteq DOMAIN links'
  BY DEF AccessTyped
<1> QED
  BY <1>1, <1>2 DEF AccessTyped

\* A request begins: the rest of the rows is as it was.
LEMMA BeginKeeps ==
  ASSUME AccessInv, NEW w \in Workers, NEW op \in {"login", "issue", "reset", "exchange", "deactivate"},
         NEW arg \in SUBSET (1..MaxLinks), Access!Becomes(w, op, arg), Access!Free(w),
         UNCHANGED <<time, tenant, staff, links, grant, session, uses>>,
         op = "issue" => Access!Outstanding \subseteq arg,
         op = "reset" => arg \subseteq Access!Live,
         op = "exchange" => grant.code = "fresh" /\ grant.state = "open"
  PROVE  AccessInv'
<1>1. AccessTyped /\ SessionsEnded /\ LinksUnused /\ OneAtATime
  BY DEF AccessInv
<1>2. /\ signing' \in [Workers -> Access!Request]
      /\ \A v \in Workers : v # w => signing'[v] = signing[v]
      /\ signing'[w].op = op /\ signing'[w].arg = arg
      /\ signing'[w].at = IF op \in Access!Ending THEN time ELSE 0
      /\ crossing' \in BOOLEAN
      /\ ~crossing' => ~crossing /\ (op \in Access!Single =>
                                         \A v \in Workers : signing[v].op \notin Access!Single)
  BY <1>1, Begins
<1>3. tenant # "DELETED"
  BY <1>1, StillThere
<1>4. op = "reset" => arg \subseteq DOMAIN links
  BY DEF Access!Live
<1>5. AccessTyped'
  BY <1>1, <1>2, <1>3, <1>4, AccessTypes, TypedAfter
<1>6. SessionsEnded'
  <2>1. \A v \in Workers : signing'[v].op \in Access!Ending =>
             signing'[v].at = time \/ (signing[v].op \in Access!Ending /\ signing'[v].at = signing[v].at)
    BY <1>2
  <2>2. time' \in Nat /\ time <= time'
    BY <1>1, AccessTypes, AccessBounds
  <2> QED
    BY <2>1, <2>2, <1>1, SessionsKeep
<1>7. LinksUnused'
  <2>1. \A v \in Workers : signing'[v].op = "exchange" => signing[v].op = "exchange" \/ grant.state # "none"
    BY <1>2
  <2> QED
    BY <2>1, <1>1, UnusedKeep
<1>8. OneAtATime'
  <2>1. CASE op \notin Access!Single /\ crossing' = crossing
    BY <2>1, <1>1, <1>2, AloneKeep
  <2>2. CASE op \in Access!Single
    <3> SUFFICES ASSUME ~crossing' PROVE OneAtATime'
      BY DEF OneAtATime
    <3>1. Access!Outstanding' = Access!Outstanding /\ Access!Live' = Access!Live /\ ~crossing
          /\ Access!Single = {"issue", "reset", "exchange"}
      BY <1>2 DEF Access!Outstanding, Access!Live, Access!Single
    <3>2. \A v \in Workers : signing'[v].op \in Access!Single => v = w
      BY <1>2, <2>2
    <3>3. \A v \in Workers : signing'[v].op \in {"issue", "reset", "exchange"} => v = w
      BY <3>1, <3>2
    <3>4. \A v \in Workers : signing'[v].op = "issue" => Access!Outstanding' \subseteq signing'[v].arg
      BY <3>1, <3>3, <1>2
    <3>5. \A v \in Workers : signing'[v].op = "reset" => \A i \in signing'[v].arg : uses'[i] = 0
      <4> SUFFICES ASSUME op = "reset", NEW i \in arg PROVE uses[i] = 0
        BY <3>3, <1>2
      <4>1. i \in Access!Live
        OBVIOUS
      <4> QED
        BY <4>1, <1>1 DEF Access!Live, LinksUnused
    <3>6. \A v \in Workers : signing'[v].op = "exchange" => uses'[0] = 0
      BY <3>3, <1>1, <1>2 DEF LinksUnused
    <3> QED
      BY <1>1, <3>1, <3>2, <3>4, <3>5, <3>6 DEF OneAtATime
  <2>3. op \notin Access!Single => crossing' = crossing
    BY <1>1, AccessTypes DEF Access!Becomes
  <2> QED
    BY <2>1, <2>2, <2>3
<1> QED
  BY <1>5, <1>6, <1>7, <1>8 DEF AccessInv

LEMMA BeginOK ==
  ASSUME AccessInv, NEW w \in Workers,
         \/ Access!Login(w) \/ Access!IssueLink(w) \/ Access!Deactivate(w) \/ Access!Exchange(w)
         \/ \E i \in 1..MaxLinks : Access!OpenLink(w, i)
  PROVE  AccessInv'
<1>1. CASE Access!Login(w)
  BY <1>1, BeginKeeps DEF Access!Login
<1>2. CASE Access!IssueLink(w)
  <2>1. Access!Outstanding \in SUBSET (1..MaxLinks)
    BY AccessTypes DEF Access!Outstanding, AccessInv
  <2> QED
    BY <1>2, <2>1, BeginKeeps DEF Access!IssueLink
<1>3. CASE Access!Deactivate(w)
  BY <1>3, BeginKeeps DEF Access!Deactivate
<1>4. CASE Access!Exchange(w)
  BY <1>4, BeginKeeps DEF Access!Exchange
<1>5. ASSUME NEW i \in 1..MaxLinks, Access!OpenLink(w, i) PROVE AccessInv'
  <2>1. {i} \in SUBSET (1..MaxLinks)
    OBVIOUS
  <2> QED
    BY <1>5, <2>1, BeginKeeps DEF Access!OpenLink
<1> QED
  BY <1>1, <1>2, <1>3, <1>4, <1>5

LEMMA RefreshOK == ASSUME AccessInv, NEW w \in Workers, Access!Refresh(w) PROVE AccessInv'
<1> DEFINE new == [op |-> "refresh", arg |-> {}, at |-> session.iat, epoch |-> session.epoch]
<1>1. AccessTyped /\ SessionsEnded /\ LinksUnused /\ OneAtATime
  BY DEF AccessInv
<1>2. /\ signing' = [signing EXCEPT ![w] = new] /\ session # None
      /\ UNCHANGED <<time, tenant, staff, links, grant, session, uses, crossing>>
  BY DEF Access!Refresh
<1>3. session.iat \in 0..MaxTime /\ session.epoch \in 0..MaxEnds
  BY <1>1, <1>2, AccessTypes DEF Access!Token
<1>4. new \in Access!Request /\ new.op = "refresh"
  BY <1>3 DEF Access!Request
<1> HIDE DEF new
<1>5. /\ signing' \in [Workers -> Access!Request] /\ signing'[w].op = "refresh"
      /\ \A v \in Workers : v # w => signing'[v] = signing[v]
  BY <1>1, <1>2, <1>4, AccessTypes
<1>6. tenant # "DELETED"
  BY <1>1, StillThere DEF Access!Refresh
<1>7. AccessTyped'
  BY <1>1, <1>2, <1>5, <1>6, AccessTypes, TypedAfter
<1>8. SessionsEnded'
  BY <1>1, <1>2, <1>5, AccessTypes, AccessBounds, SessionsKeep DEF Access!Ending
<1>9. LinksUnused'
  BY <1>1, <1>2, <1>5, UnusedKeep
<1>10. OneAtATime'
  BY <1>1, <1>2, <1>5, AloneKeep DEF Access!Single
<1> QED
  BY <1>7, <1>8, <1>9, <1>10 DEF AccessInv

\* A request ends that has written no link and used none.
LEMMA EndKeeps ==
  ASSUME AccessInv, NEW w \in Workers, Access!Ends(w), signing[w] # Access!Idle,
         UNCHANGED <<time, tenant, links, grant, uses, crossing>>,
         staff' \in [active : BOOLEAN, since : 0..MaxTime, epoch : 0..MaxEnds, chosen : BOOLEAN],
         staff'.chosen = staff.chosen, session' \in Access!Token \union {None}
  PROVE  AccessTyped' /\ LinksUnused' /\ OneAtATime'
<1>1. AccessTyped /\ LinksUnused /\ OneAtATime
  BY DEF AccessInv
<1>2. /\ signing' \in [Workers -> Access!Request] /\ signing'[w].op = "none"
      /\ \A v \in Workers : v # w => signing'[v] = signing[v]
  BY <1>1, Finishes
<1>3. tenant # "DELETED"
  BY <1>1, StillThere
<1>4. AccessTyped'
  BY <1>1, <1>2, <1>3, AccessTypes, TypedAfter
<1>5. LinksUnused'
  BY <1>1, <1>2, UnusedKeep
<1>6. OneAtATime'
  BY <1>1, <1>2, AloneKeep DEF Access!Single
<1> QED
  BY <1>4, <1>5, <1>6

LEMMA FailOK == ASSUME AccessInv, NEW w \in Workers, Access!Fail(w) PROVE AccessInv'
<1>1. AccessTyped /\ SessionsEnded
  BY DEF AccessInv
<1>2. AccessTyped' /\ LinksUnused' /\ OneAtATime'
  BY <1>1, EndKeeps, AccessTypes DEF Access!Fail
<1>3. /\ \A v \in Workers : signing'[v].op \in Access!Ending => signing'[v] = signing[v]
      /\ UNCHANGED <<time, staff, session>>
  BY <1>1, Finishes DEF Access!Fail, Access!Ending
<1>4. SessionsEnded'
  BY <1>1, <1>3, AccessTypes, AccessBounds, SessionsKeep
<1> QED
  BY <1>2, <1>4 DEF AccessInv

\* A token that is signed, unless it spans what ends the others, is as old as the last end.
LEMMA MintedSessions ==
  ASSUME AccessTyped, SessionsEnded, time' = time, staff' = staff,
         NEW ep \in 0..MaxEnds, NEW imp \in BOOLEAN, NEW spans \in BOOLEAN,
         session' \in {session, [iat |-> time, epoch |-> ep, impersonating |-> imp, spans |-> spans]},
         spans \/ (ep = staff.epoch /\ \A v \in Workers : signing[v].op \notin Access!Ending),
         \A v \in Workers : signing'[v].op \in Access!Ending => signing'[v] = signing[v]
  PROVE  SessionsEnded'
<1> DEFINE token == [iat |-> time, epoch |-> ep, impersonating |-> imp, spans |-> spans]
<1>1. CASE session' = session
  BY <1>1, AccessTypes, AccessBounds, SessionsKeep
<1>2. CASE session' = token
  <2>1. session'.iat = time /\ session'.epoch = ep /\ session'.spans = spans /\ time \in Nat
    BY <1>2, AccessTypes, AccessBounds
  <2> HIDE DEF token
  <2> SUFFICES ASSUME ~spans
               PROVE  /\ session'.epoch = staff'.epoch
                      /\ \A v \in Workers : signing'[v].op \notin Access!Ending
    BY <2>1 DEF SessionsEnded, Access!Ending
  <2>2. \A v \in Workers : signing[v].op \notin Access!Ending
    OBVIOUS
  <2>3. \A v \in Workers : signing'[v].op \notin Access!Ending
    BY <2>2
  <2> QED
    BY <2>1, <2>3
<1> QED
  BY <1>1, <1>2

LEMMA LogInOK ==
  ASSUME AccessInv, NEW w \in Workers, Access!LogIn(w) \/ Access!Refreshed(w) PROVE AccessInv'
<1>1. AccessTyped /\ SessionsEnded
  BY DEF AccessInv
<1> DEFINE seen == signing[w].epoch # staff.epoch \/ \E v \in Workers : signing[v].op \in Access!Ending
           late_ == signing[w].at = staff.since \/ seen
<1>2. /\ Access!Ends(w) /\ signing[w].op # "none" /\ UNCHANGED <<time, tenant, staff, links, grant, uses, crossing>>
      /\ \E spans \in BOOLEAN :
           /\ spans = seen \/ spans = late_
           /\ session' \in {session, [iat |-> time, epoch |-> signing[w].epoch,
                                       impersonating |-> FALSE, spans |-> spans]}
  <2>1. CASE Access!LogIn(w)
    <3>1. seen \in BOOLEAN
      OBVIOUS
    <3> QED
      BY <2>1, <3>1 DEF Access!LogIn, Access!Mint
  <2>2. CASE Access!Refreshed(w)
    <3>1. late_ \in BOOLEAN
      OBVIOUS
    <3>2. late_ = (\/ signing[w].at = staff.since \/ signing[w].epoch # staff.epoch
                    \/ \E v \in Workers : signing[v].op \in Access!Ending)
      OBVIOUS
    <3> QED
      BY <2>2, <3>1, <3>2 DEF Access!Refreshed
  <2> QED
    BY <2>1, <2>2
<1>3. PICK spans \in BOOLEAN :
           /\ spans = seen \/ spans = late_
           /\ session' \in {session, [iat |-> time, epoch |-> signing[w].epoch,
                                       impersonating |-> FALSE, spans |-> spans]}
  BY <1>2
<1>4. signing[w].epoch \in 0..MaxEnds
  BY <1>1, AccessTypes
<1>5. session' \in Access!Token \union {None}
  BY <1>1, <1>3, <1>4, Minted
<1>6. AccessTyped' /\ LinksUnused' /\ OneAtATime'
  BY <1>1, <1>2, <1>5, EndKeeps, AccessTypes DEF Access!Idle
<1>7. \A v \in Workers : signing'[v].op \in Access!Ending => signing'[v] = signing[v]
  BY <1>1, <1>2, Finishes DEF Access!Ending
<1>8. spans \/ (signing[w].epoch = staff.epoch /\ \A v \in Workers : signing[v].op \notin Access!Ending)
  BY <1>3
<1>9. SessionsEnded'
  BY <1>1, <1>2, <1>3, <1>4, <1>7, <1>8, MintedSessions
<1> QED
  BY <1>6, <1>9 DEF AccessInv

LEMMA ExchangedOK == ASSUME AccessInv, NEW w \in Workers, Access!Exchanged(w) PROVE AccessInv'
<1>1. AccessTyped /\ SessionsEnded /\ LinksUnused /\ OneAtATime
  BY DEF AccessInv
<1> DEFINE seen == signing[w].epoch # staff.epoch \/ \E v \in Workers : signing[v].op \in Access!Ending
<1>2. /\ Access!Ends(w) /\ signing[w].op = "exchange" /\ UNCHANGED <<time, tenant, staff, links, crossing>>
      /\ session' \in {session, [iat |-> time, epoch |-> signing[w].epoch,
                                  impersonating |-> TRUE, spans |-> seen]}
      /\ uses' = Access!Counted({0})
      /\ grant' = [grant EXCEPT !.code = IF grant.code = "fresh" THEN "burnt" ELSE grant.code]
  BY DEF Access!Exchanged, Access!Mint
<1>3. signing[w].epoch \in 0..MaxEnds /\ seen \in BOOLEAN /\ tenant # "DELETED"
  BY <1>1, <1>2, AccessTypes, StillThere
<1>4. session' \in Access!Token \union {None}
  BY <1>1, <1>2, <1>3, Minted
<1>5. /\ grant' \in [state : {"none", "open", "over"}, code : {"none", "fresh", "burnt"}]
      /\ grant'.state = grant.state /\ grant'.code # "fresh"
  BY <1>1, <1>2, AccessTypes
<1>6. /\ uses' \in [0..MaxLinks -> Nat] /\ uses'[0] = uses[0] + 1
      /\ \A i \in 1..MaxLinks : uses'[i] = uses[i]
  BY <1>1, <1>2, AccessTypes, AccessBounds DEF Access!Counted
<1>7. /\ signing' \in [Workers -> Access!Request] /\ signing'[w].op = "none"
      /\ \A v \in Workers : v # w => signing'[v] = signing[v]
  BY <1>1, <1>2, Finishes
<1>8. AccessTyped'
  BY <1>1, <1>2, <1>3, <1>4, <1>5, <1>6, <1>7, AccessTypes, TypedAfter
<1>9. SessionsEnded'
  BY <1>1, <1>2, <1>3, <1>7, MintedSessions DEF Access!Ending
<1>10. LinksUnused'
  <2>1. grant.state # "none"
    BY <1>1, <1>2 DEF LinksUnused
  <2>2. /\ \A i \in DOMAIN links : links[i] \in {"live", "lapsed"} => uses'[i] = 0
        /\ \A i \in 1..MaxLinks : tenant # "DELETED" /\ i > Len(links) => uses'[i] = 0
    BY <1>1, <1>6, AccessTypes DEF LinksUnused
  <2>3. \A v \in Workers : signing'[v].op = "exchange" => grant'.state # "none"
    BY <2>1, <1>5
  <2> QED
    BY <2>1, <2>2, <2>3, <1>1, <1>2, <1>5 DEF LinksUnused
<1>11. OneAtATime'
  <2> SUFFICES ASSUME ~crossing' PROVE OneAtATime'
    BY DEF OneAtATime
  <2>1. Access!Outstanding' = Access!Outstanding /\ Access!Live' = Access!Live /\ ~crossing
        /\ Access!Single = {"issue", "reset", "exchange"}
    BY <1>2 DEF Access!Outstanding, Access!Live, Access!Single
  <2>2. \A v \in Workers : signing'[v].op \notin Access!Single
    BY <1>1, <1>2, <1>7, <2>1 DEF OneAtATime
  <2>3. \A i \in 0..MaxLinks : uses'[i] <= 1
    <3>1. uses[0] = 0 /\ \A i \in 1..MaxLinks : uses[i] <= 1
      BY <1>1, <1>2, <2>1 DEF OneAtATime
    <3>2. \A i \in 0..MaxLinks : i = 0 \/ i \in 1..MaxLinks
      BY AccessBounds
    <3> QED
      BY <3>1, <3>2, <1>6
  <2> QED
    BY <1>1, <2>1, <2>2, <2>3 DEF OneAtATime
<1> QED
  BY <1>8, <1>9, <1>10, <1>11 DEF AccessInv

\* The rows of the links change, and no session.
LEMMA SendLinkOK == ASSUME AccessInv, NEW w \in Workers, Access!SendLink(w) PROVE AccessInv'
<1>1. AccessTyped /\ SessionsEnded /\ LinksUnused /\ OneAtATime
  BY DEF AccessInv
<1> DEFINE arg == signing[w].arg  rows == Access!Voided(arg)
<1>2. /\ Access!Ends(w) /\ signing[w].op = "issue" /\ Len(links) < MaxLinks
      /\ links' = Append(rows, "live")
      /\ UNCHANGED <<time, tenant, staff, grant, session, uses, crossing>>
  BY DEF Access!SendLink
<1>3. tenant # "DELETED"
  BY <1>1, <1>2, StillThere
<1>4. /\ rows \in Seq(Access!LinkState) /\ Len(rows) = Len(links)
      /\ \A i \in DOMAIN links : rows[i] = IF i \in arg THEN "void" ELSE links[i]
  <2>0. PICK n \in Nat : n = Len(links) /\ DOMAIN links = 1..n
    BY <1>1, AccessTypes
  <2>1. rows = [i \in 1..n |-> IF i \in arg THEN "void" ELSE links[i]]
    BY <1>1, <2>0 DEF Access!Voided
  <2>2. \A i \in 1..n : (IF i \in arg THEN "void" ELSE links[i]) \in Access!LinkState
    BY <1>1, <2>0, AccessTypes DEF Access!LinkState
  <2>3. /\ rows \in [1..n -> Access!LinkState]
        /\ \A i \in 1..n : rows[i] = IF i \in arg THEN "void" ELSE links[i]
    BY <2>1, <2>2
  <2> HIDE DEF rows
  <2>4. rows \in Seq(Access!LinkState) /\ Len(rows) = n
    BY <2>3
  <2> QED
    BY <2>0, <2>3, <2>4
<1> HIDE DEF rows
<1>5. /\ links' \in Seq(Access!LinkState) /\ Len(links') = Len(links) + 1
      /\ DOMAIN links' = 1..(Len(links) + 1)
      /\ \A i \in DOMAIN links : links'[i] = IF i \in arg THEN "void" ELSE links[i]
      /\ links'[Len(links) + 1] = "live"
  <2>1. "live" \in Access!LinkState
    BY DEF Access!LinkState
  <2> QED
    BY <2>1, <1>1, <1>2, <1>4, AccessTypes, AppendProperties
<1>6. DOMAIN links = 1..Len(links) /\ Len(links) \in Nat
  BY <1>1, AccessTypes
<1>7. /\ signing' \in [Workers -> Access!Request] /\ signing'[w].op = "none"
      /\ \A v \in Workers : v # w => signing'[v] = signing[v]
  BY <1>1, <1>2, Finishes
<1>8. AccessTyped'
  <2>1. Len(links') <= MaxLinks /\ DOMAIN links \subseteq DOMAIN links'
    BY <1>2, <1>5, <1>6, AccessBounds
  <2> QED
    BY <2>1, <1>1, <1>2, <1>3, <1>5, <1>7, AccessTypes, TypedAfter
<1>9. SessionsEnded'
  <2>1. \A v \in Workers : signing'[v].op \in Access!Ending => signing'[v] = signing[v]
    BY <1>7 DEF Access!Ending
  <2>2. time' \in Nat /\ time <= time' /\ UNCHANGED <<staff, session>>
    BY <1>1, <1>2, AccessTypes, AccessBounds
  <2> QED
    BY <2>1, <2>2, <1>1, SessionsKeep
<1>10. LinksUnused'
  <2>1. ASSUME NEW i \in DOMAIN links', links'[i] \in {"live", "lapsed"} PROVE uses'[i] = 0
    <3>1. CASE i \in DOMAIN links
      BY <3>1, <2>1, <1>1, <1>2, <1>5 DEF LinksUnused
    <3>2. CASE i = Len(links) + 1
      <4>1. i \in 1..MaxLinks /\ i > Len(links)
        BY <3>2, <1>2, <1>6, AccessBounds
      <4> QED
        BY <4>1, <1>1, <1>2, <1>3 DEF LinksUnused
    <3> QED
      BY <3>1, <3>2, <1>5, <1>6
  <2>2. ASSUME NEW i \in 1..MaxLinks, tenant' # "DELETED", i > Len(links') PROVE uses'[i] = 0
    <3>1. i > Len(links)
      BY <2>2, <1>5, <1>6, AccessBounds
    <3> QED
      BY <3>1, <1>1, <1>2, <1>3 DEF LinksUnused
  <2>3. links'[Len(links')] = "live"
    BY <1>5
  <2>4. \A v \in Workers : signing'[v].op = "exchange" => grant'.state # "none"
    BY <1>1, <1>2, <1>7 DEF LinksUnused
  <2>5. grant'.code = "fresh" \/ grant'.state = "none" => uses'[0] = 0
    BY <1>1, <1>2 DEF LinksUnused
  <2> QED
    BY <2>1, <2>2, <2>3, <2>4, <2>5 DEF LinksUnused
<1>11. OneAtATime'
  <2> SUFFICES ASSUME ~crossing' PROVE OneAtATime'
    BY DEF OneAtATime
  <2>1. ~crossing /\ Access!Single = {"issue", "reset", "exchange"}
    BY <1>2 DEF Access!Single
  <2>2. \A v \in Workers : signing'[v].op \notin Access!Single
    BY <1>1, <1>2, <1>7, <2>1 DEF OneAtATime
  <2>3. \A i \in DOMAIN links : links'[i] # "live"
    <3>1. Access!Outstanding \subseteq arg
      BY <1>1, <1>2, <2>1 DEF OneAtATime
    <3> QED
      BY <3>1, <1>5 DEF Access!Outstanding
  <2>4. \A i \in Access!Live' : i = Len(links) + 1
    BY <2>3, <1>5, <1>6 DEF Access!Live
  <2> QED
    BY <1>1, <1>2, <2>1, <2>2, <2>4 DEF OneAtATime
<1> QED
  BY <1>8, <1>9, <1>10, <1>11 DEF AccessInv

LEMMA LapseOK == ASSUME AccessInv, NEW k \in 1..MaxLinks, Access!Lapse(k) PROVE AccessInv'
<1>1. AccessTyped /\ SessionsEnded /\ LinksUnused /\ OneAtATime
  BY DEF AccessInv
<1>2. /\ k \in DOMAIN links /\ links[k] = "live" /\ links' = [links EXCEPT ![k] = "lapsed"]
      /\ UNCHANGED <<time, tenant, staff, grant, session, signing, uses, crossing>>
  BY DEF Access!Lapse, Access!Live
<1>3. /\ links' \in Seq(Access!LinkState) /\ Len(links') = Len(links) /\ DOMAIN links' = DOMAIN links
      /\ links'[k] = "lapsed" /\ \A i \in DOMAIN links : i # k => links'[i] = links[i]
  <2>1. "lapsed" \in Access!LinkState
    BY DEF Access!LinkState
  <2> QED
    BY <2>1, <1>1, <1>2, AccessTypes, ExceptSeq
<1>4. DOMAIN links = 1..Len(links) /\ Len(links) \in Nat /\ Len(links) <= MaxLinks
  BY <1>1, AccessTypes
<1>5. AccessTyped'
  <2>1. tenant # "DELETED" \/ tenant = "DELETED"
    OBVIOUS
  <2>2. Access!TypeOK'
    BY <1>1, <1>2, <1>3 DEF AccessTyped, Access!TypeOK
  <2> QED
    BY <2>2, <1>1, <1>2, <1>3 DEF AccessTyped
<1>6. SessionsEnded'
  BY <1>1, <1>2, AccessTypes, AccessBounds, SessionsKeep
<1>7. LinksUnused'
  <2>1. \A i \in DOMAIN links' : links'[i] \in {"live", "lapsed"} => uses'[i] = 0
    BY <1>1, <1>2, <1>3 DEF LinksUnused
  <2>2. Len(links') > 0 /\ links'[Len(links')] \in {"used", "void"} => staff'.chosen
    <3> SUFFICES ASSUME Len(links) > 0, links'[Len(links)] \in {"used", "void"} PROVE staff.chosen
      BY <1>2, <1>3
    <3>1. Len(links) \in DOMAIN links
      BY <1>4
    <3>2. links'[Len(links)] = links[Len(links)]
      BY <3>1, <1>3
    <3> QED
      BY <3>2, <1>1 DEF LinksUnused
  <2>3. \A i \in 1..MaxLinks : tenant' # "DELETED" /\ i > Len(links') => uses'[i] = 0
    BY <1>1, <1>2, <1>3 DEF LinksUnused
  <2>4. /\ grant'.code = "fresh" \/ grant'.state = "none" => uses'[0] = 0
        /\ \A v \in Workers : signing'[v].op = "exchange" => grant'.state # "none"
    BY <1>1, <1>2 DEF LinksUnused
  <2> QED
    BY <2>1, <2>2, <2>3, <2>4 DEF LinksUnused
<1>8. OneAtATime'
  <2>1. Access!Outstanding' \subseteq Access!Outstanding /\ Access!Live' \subseteq Access!Live
    BY <1>2, <1>3 DEF Access!Outstanding, Access!Live
  <2> QED
    BY <2>1, <1>1, <1>2 DEF OneAtATime
<1> QED
  BY <1>5, <1>6, <1>7, <1>8 DEF AccessInv

LEMMA SetPasswordOK == ASSUME AccessInv, NEW w \in Workers, Access!SetPassword(w) PROVE AccessInv'
<1>1. AccessTyped /\ SessionsEnded /\ LinksUnused /\ OneAtATime
  BY DEF AccessInv
<1> DEFINE arg == signing[w].arg  rows == Access!Voided(Access!Outstanding)
<1>2. /\ Access!Ends(w) /\ signing[w].op = "reset" /\ staff.epoch < MaxEnds
      /\ staff' = [staff EXCEPT !.since = signing[w].at, !.epoch = staff.epoch + 1, !.chosen = TRUE]
      /\ links' = [i \in DOMAIN links |-> IF i \in arg THEN "used" ELSE rows[i]]
      /\ uses' = Access!Counted(arg)
      /\ UNCHANGED <<time, tenant, grant, session, crossing>>
  BY DEF Access!SetPassword
<1>3. tenant # "DELETED" /\ arg \subseteq DOMAIN links
  BY <1>1, <1>2, StillThere DEF AccessTyped
<1>4. DOMAIN links = 1..Len(links) /\ Len(links) \in Nat /\ Len(links) <= MaxLinks
  BY <1>1, AccessTypes
<1>5. /\ DOMAIN links' = DOMAIN links
      /\ \A i \in DOMAIN links : /\ links'[i] \in Access!LinkState
                                /\ links'[i] \notin {"live", "lapsed"}
      /\ \A i \in arg : links'[i] = "used"
  <2>1. \A i \in DOMAIN links : links'[i] = IF i \in arg THEN "used"
                                         ELSE IF i \in Access!Outstanding THEN "void" ELSE links[i]
    BY <1>2 DEF Access!Voided
  <2>2. \A i \in DOMAIN links : i \in Access!Outstanding <=> links[i] \in {"live", "lapsed"}
    BY DEF Access!Outstanding
  <2>3. \A i \in DOMAIN links : links[i] \in Access!LinkState
    BY <1>1, AccessTypes
  <2>4. \A i \in DOMAIN links : links'[i] \in Access!LinkState /\ links'[i] \notin {"live", "lapsed"}
    BY <2>1, <2>2, <2>3 DEF Access!LinkState
  <2> QED
    BY <2>1, <2>4, <1>2, <1>3
<1>6. links' \in Seq(Access!LinkState) /\ Len(links') = Len(links)
  <2>1. links' \in [1..Len(links) -> Access!LinkState]
    BY <1>2, <1>4, <1>5
  <2> QED
    BY <2>1, <1>4
<1>7. /\ uses' \in [0..MaxLinks -> Nat]
      /\ \A i \in 0..MaxLinks : i \in arg => uses'[i] = uses[i] + 1
      /\ \A i \in 0..MaxLinks : i \notin arg => uses'[i] = uses[i]
      /\ uses'[0] = uses[0]
  <2>1. uses' = [i \in 0..MaxLinks |-> IF i \in arg THEN uses[i] + 1 ELSE uses[i]]
    BY <1>2 DEF Access!Counted
  <2>2. 0 \in 0..MaxLinks /\ 0 \notin arg /\ uses \in [0..MaxLinks -> Nat]
    BY <1>1, <1>3, <1>4, AccessTypes, AccessBounds
  <2> HIDE DEF arg
  <2> QED
    BY <2>1, <2>2
<1>8. /\ staff' \in [active : BOOLEAN, since : 0..MaxTime, epoch : 0..MaxEnds, chosen : BOOLEAN]
      /\ staff'.since = signing[w].at /\ staff'.chosen
  <2>1. signing[w].at \in 0..MaxTime /\ staff.epoch + 1 \in 0..MaxEnds
    BY <1>1, <1>2, AccessTypes, AccessBounds
  <2> QED
    BY <2>1, <1>1, <1>2, AccessTypes
<1>9. /\ signing' \in [Workers -> Access!Request] /\ signing'[w].op = "none"
      /\ \A v \in Workers : v # w => signing'[v] = signing[v]
  BY <1>1, <1>2, Finishes
<1>10. AccessTyped'
  BY <1>1, <1>2, <1>3, <1>4, <1>5, <1>6, <1>7, <1>8, <1>9, AccessTypes, TypedAfter
<1>11. SessionsEnded'
  <2> SUFFICES ASSUME session # None
               PROVE  /\ session.iat <= time
                      /\ ~session.spans =>
                           /\ session.iat <= staff'.since
                           /\ \A v \in Workers :
                                signing'[v].op \in Access!Ending => session.iat <= signing'[v].at
    BY <1>2 DEF SessionsEnded, Access!Ending
  <2>1. signing[w].op \in Access!Ending
    BY <1>2 DEF Access!Ending
  <2>2. \A v \in Workers : signing'[v].op \in Access!Ending => signing'[v] = signing[v]
    BY <1>9 DEF Access!Ending
  <2> QED
    BY <2>1, <2>2, <1>1, <1>8 DEF SessionsEnded
<1>12. LinksUnused'
  <2>1. \A i \in DOMAIN links' : links'[i] \in {"live", "lapsed"} => uses'[i] = 0
    BY <1>5
  <2>2. ASSUME NEW i \in 1..MaxLinks, i > Len(links') PROVE uses'[i] = 0
    <3>1. i \in 0..MaxLinks /\ i \notin DOMAIN links /\ i > Len(links)
      BY <2>2, <1>4, <1>6, AccessBounds
    <3>2. uses[i] = 0
      BY <3>1, <1>1, <1>3 DEF LinksUnused
    <3> QED
      BY <3>1, <3>2, <1>3, <1>7
  <2>3. /\ grant'.code = "fresh" \/ grant'.state = "none" => uses'[0] = 0
        /\ \A v \in Workers : signing'[v].op = "exchange" => grant'.state # "none"
    BY <1>1, <1>2, <1>7, <1>9 DEF LinksUnused
  <2> QED
    BY <2>1, <2>2, <2>3, <1>8 DEF LinksUnused
<1>13. OneAtATime'
  <2> SUFFICES ASSUME ~crossing' PROVE OneAtATime'
    BY DEF OneAtATime
  <2>1. ~crossing /\ Access!Single = {"issue", "reset", "exchange"}
    BY <1>2 DEF Access!Single
  <2>2. \A v \in Workers : signing'[v].op \notin Access!Single
    BY <1>1, <1>2, <1>9, <2>1 DEF OneAtATime
  <2>3. Access!Live' = {}
    BY <1>5 DEF Access!Live
  <2>4. ASSUME NEW i \in 0..MaxLinks PROVE uses'[i] <= 1
    <3>1. uses[i] \in Nat /\ uses[i] <= 1 /\ (i \in arg => uses[i] = 0)
      BY <1>1, <1>2, <2>1, AccessTypes DEF OneAtATime
    <3> HIDE DEF arg
    <3>2. CASE i \in arg
      BY <3>1, <3>2, <1>7
    <3>3. CASE i \notin arg
      BY <3>1, <3>3, <1>7
    <3> QED
      BY <3>2, <3>3
  <2> QED
    BY <2>1, <2>2, <2>3, <2>4 DEF OneAtATime
<1> QED
  BY <1>10, <1>11, <1>12, <1>13 DEF AccessInv

LEMMA DeactivatedOK == ASSUME AccessInv, NEW w \in Workers, Access!Deactivated(w) PROVE AccessInv'
<1>1. AccessTyped /\ SessionsEnded
  BY DEF AccessInv
<1>2. /\ Access!Ends(w) /\ signing[w].op = "deactivate" /\ staff.epoch < MaxEnds
      /\ staff' = [staff EXCEPT !.active = FALSE, !.since = signing[w].at, !.epoch = staff.epoch + 1]
      /\ UNCHANGED <<time, tenant, links, grant, session, uses, crossing>>
  BY DEF Access!Deactivated
<1>3. /\ staff' \in [active : BOOLEAN, since : 0..MaxTime, epoch : 0..MaxEnds, chosen : BOOLEAN]
      /\ staff'.since = signing[w].at /\ staff'.chosen = staff.chosen
  <2>1. signing[w].at \in 0..MaxTime /\ staff.epoch + 1 \in 0..MaxEnds
    BY <1>1, <1>2, AccessTypes, AccessBounds
  <2> QED
    BY <2>1, <1>1, <1>2, AccessTypes
<1>4. AccessTyped' /\ LinksUnused' /\ OneAtATime'
  BY <1>1, <1>2, <1>3, EndKeeps, AccessTypes DEF Access!Idle
<1>5. SessionsEnded'
  <2> SUFFICES ASSUME session # None
               PROVE  /\ session.iat <= time
                      /\ ~session.spans =>
                           /\ session.iat <= staff'.since
                           /\ \A v \in Workers :
                                signing'[v].op \in Access!Ending => session.iat <= signing'[v].at
    BY <1>2 DEF SessionsEnded, Access!Ending
  <2>1. signing[w].op \in Access!Ending
    BY <1>2 DEF Access!Ending
  <2>2. \A v \in Workers : signing'[v].op \in Access!Ending => signing'[v] = signing[v]
    BY <1>1, <1>2, Finishes DEF Access!Ending
  <2> QED
    BY <2>1, <2>2, <1>1, <1>3 DEF SessionsEnded
<1> QED
  BY <1>4, <1>5 DEF AccessInv

\* The grant, the business, the clock and the employee's switch, while no request moves.
LEMMA SwitchOK ==
  ASSUME AccessInv, \/ Access!Activate \/ Access!Impersonate \/ Access!CodeLapses \/ Access!EndGrant
                    \/ Access!Close \/ Access!Reopen \/ Access!Tick
  PROVE  AccessInv'
<1>1. AccessTyped /\ SessionsEnded /\ LinksUnused /\ OneAtATime
  BY DEF AccessInv
<1> DEFINE Staffs == [active : BOOLEAN, since : 0..MaxTime, epoch : 0..MaxEnds, chosen : BOOLEAN]
           Grants == [state : {"none", "open", "over"}, code : {"none", "fresh", "burnt"}]
<1>2. UNCHANGED <<links, session, signing, uses, crossing>>
  BY DEF Access!Activate, Access!Impersonate, Access!CodeLapses, Access!EndGrant, Access!Close,
         Access!Reopen, Access!Tick
<1>3. /\ staff' \in Staffs /\ staff'.epoch = staff.epoch /\ staff'.since = staff.since
      /\ staff'.chosen = staff.chosen
  <2>1. staff \in Staffs
    BY <1>1, AccessTypes
  <2>2. staff' = staff \/ staff' = [staff EXCEPT !.active = TRUE]
    BY DEF Access!Activate, Access!Impersonate, Access!CodeLapses, Access!EndGrant, Access!Close,
           Access!Reopen, Access!Tick
  <2> QED
    BY <2>1, <2>2
<1>4. /\ grant' \in Grants /\ (grant'.state = "none" => grant.state = "none")
      /\ (grant'.code = "fresh" => grant.code = "fresh" \/ grant.state = "none")
  <2>1. grant \in Grants
    BY <1>1, AccessTypes
  <2>2. \/ grant' = grant \/ (grant' = [state |-> "open", code |-> "fresh"] /\ grant.state = "none")
        \/ grant' = [grant EXCEPT !.code = "burnt"] \/ grant' = [state |-> "over", code |-> "none"]
    BY DEF Access!Activate, Access!Impersonate, Access!CodeLapses, Access!EndGrant, Access!Close,
           Access!Reopen, Access!Tick
  <2> QED
    BY <2>1, <2>2
<1>5. /\ time' \in 1..MaxTime /\ time <= time' /\ time' \in Nat
  <2>1. time \in 1..MaxTime
    BY <1>1, AccessTypes
  <2>2. time' = time \/ (time < MaxTime /\ time' = time + 1)
    BY DEF Access!Activate, Access!Impersonate, Access!CodeLapses, Access!EndGrant, Access!Close,
           Access!Reopen, Access!Tick
  <2> QED
    BY <2>1, <2>2, AccessBounds
<1>6. /\ tenant' \in {"ACTIVE", "CLOSED", "DELETED"} /\ (tenant' = "DELETED" <=> tenant = "DELETED")
  <2>1. tenant \in {"ACTIVE", "CLOSED", "DELETED"}
    BY <1>1, AccessTypes
  <2>2. tenant' = tenant \/ (tenant = "ACTIVE" /\ tenant' = "CLOSED") \/ (tenant = "CLOSED" /\ tenant' = "ACTIVE")
    BY DEF Access!Activate, Access!Impersonate, Access!CodeLapses, Access!EndGrant, Access!Close,
           Access!Reopen, Access!Tick, Access!Open
  <2> QED
    BY <2>1, <2>2
<1>7. AccessTyped'
  <2>1. Access!TypeOK'
    BY <1>1, <1>2, <1>3, <1>4, <1>5, <1>6 DEF AccessTyped, Access!TypeOK
  <2> QED
    BY <2>1, <1>1, <1>2, <1>6 DEF AccessTyped
<1>8. SessionsEnded'
  BY <1>1, <1>2, <1>3, <1>5, SessionsKeep
<1>9. LinksUnused'
  BY <1>1, <1>2, <1>3, <1>4, <1>6 DEF LinksUnused
<1>10. OneAtATime'
  BY <1>1, <1>2, AloneKeep
<1> QED
  BY <1>7, <1>8, <1>9, <1>10 DEF AccessInv

LEMMA DeleteOK == ASSUME AccessInv, Access!Delete PROVE AccessInv'
<1>1. AccessTyped /\ SessionsEnded /\ LinksUnused /\ OneAtATime
  BY DEF AccessInv
<1>2. /\ tenant' = "DELETED" /\ session' = None /\ links' = <<>>
      /\ grant' = [state |-> "over", code |-> "none"] /\ signing' = [w \in Workers |-> Access!Idle]
      /\ UNCHANGED <<time, staff, uses, crossing>>
  BY DEF Access!Delete
<1>3. Access!Idle \in Access!Request /\ Access!Idle.op = "none"
  BY AccessBounds DEF Access!Idle, Access!Request
<1>4. signing' \in [Workers -> Access!Request] /\ \A w \in Workers : signing'[w].op = "none"
  BY <1>2, <1>3
<1>5. links' \in Seq(Access!LinkState) /\ Len(links') = 0 /\ DOMAIN links' = {}
  BY <1>2
<1>6. AccessTyped'
  <2>1. grant' \in [state : {"none", "open", "over"}, code : {"none", "fresh", "burnt"}]
    BY <1>2
  <2>2. Access!TypeOK'
    BY <2>1, <1>1, <1>2, <1>4, <1>5 DEF AccessTyped, Access!TypeOK
  <2>3. Len(links') <= MaxLinks /\ \A w \in Workers : signing'[w] = Access!Idle
    BY <1>2, <1>5, AccessBounds
  <2> QED
    BY <2>2, <2>3, <1>4 DEF AccessTyped
<1>7. LinksUnused'
  BY <1>2, <1>4, <1>5 DEF LinksUnused
<1>8. OneAtATime'
  <2>1. Access!Live' = {}
    BY <1>5 DEF Access!Live
  <2> QED
    BY <2>1, <1>1, <1>2, <1>4 DEF OneAtATime, Access!Single
<1> QED
  BY <1>2, <1>6, <1>7, <1>8 DEF AccessInv, SessionsEnded

LEMMA AccessStepOK == AccessInv /\ [Access!Next]_(Access!accessVars) => AccessInv'
<1> SUFFICES ASSUME AccessInv, [Access!Next]_(Access!accessVars) PROVE AccessInv'
  OBVIOUS
<1>1. CASE UNCHANGED Access!accessVars
  <2>1. UNCHANGED <<time, tenant, staff, links, grant, session, signing, uses, crossing>>
    BY <1>1 DEF Access!accessVars
  <2>2. AccessTyped' /\ SessionsEnded' /\ LinksUnused'
    BY <2>1 DEF AccessInv, AccessTyped, Access!TypeOK, SessionsEnded, LinksUnused
  <2>3. OneAtATime'
    BY <2>1, AloneKeep DEF AccessInv
  <2> QED
    BY <2>2, <2>3 DEF AccessInv
<1>2. CASE Access!Next
  BY <1>2, BeginOK, RefreshOK, FailOK, LogInOK, ExchangedOK, SendLinkOK, LapseOK, SetPasswordOK,
     DeactivatedOK, SwitchOK, DeleteOK DEF Access!Next
<1> QED
  BY <1>1, <1>2

LEMMA AccessHolds == AccessInv => Access!TypeOK /\ Access!OldSessionsEnd /\ Access!LinksWorkOnce
<1> SUFFICES ASSUME AccessInv PROVE Access!TypeOK /\ Access!OldSessionsEnd /\ Access!LinksWorkOnce
  OBVIOUS
<1>1. AccessTyped /\ SessionsEnded /\ LinksUnused /\ OneAtATime
  BY DEF AccessInv
<1>2. Access!OldSessionsEnd
  <2> SUFFICES ASSUME session # None, Access!Usable(session), ~session.spans, session.epoch # staff.epoch
               PROVE  session.iat = staff.since
    BY DEF Access!OldSessionsEnd
  <2>1. session.iat >= staff.since /\ session.iat <= staff.since
    BY <1>1 DEF Access!Usable, Access!Fresh, SessionsEnded
  <2>2. session.iat \in Nat /\ staff.since \in Nat
    BY <1>1, AccessTypes, AccessBounds DEF Access!Token
  <2> QED
    BY <2>1, <2>2
<1>3. Access!Invite = "accepted" => staff.chosen
  <2>1. Access!Invite = "accepted" => Len(links) > 0 /\ links[Len(links)] \in {"used", "void"}
    BY <1>1, AccessTypes DEF Access!Invite
  <2> QED
    BY <2>1, <1>1 DEF LinksUnused
<1> QED
  BY <1>1, <1>2, <1>3 DEF AccessTyped, Access!LinksWorkOnce, OneAtATime

\* For any number of workers, links and seconds: no session outlives the password reset or the
\* deactivation that came after it, and, unless two requests overlap, a link and a code that
\* signs somebody in does so once.
THEOREM SignInsStayEnded == Spec => []SignInsEnd
<1> DEFINE Inv == focus = "access" => AccessInv
<1>1. Init => Inv
  BY AccessInitOK DEF Init
<1>2. Inv /\ [Next]_vars => Inv'
  <2> SUFFICES ASSUME Inv, [Next]_vars, focus' = "access" PROVE AccessInv'
    OBVIOUS
  <2> focus = "access" /\ [Access!Next]_(Access!accessVars)
    BY DEF Next, vars, ownerVars, accessVars, Access!accessVars, LoyaltyStep, RemindersStep, ImportsStep,
           NumbersStep, ChannelsStep, CarrierStep, TenantsStep, StripeStep, SquareStep, AccessStep, ImagesStep
  <2> QED
    BY AccessStepOK
<1>3. Inv => SignInsEnd
  BY AccessHolds DEF SignInsEnd
<1> QED
  BY <1>1, <1>2, <1>3, PTL DEF Spec

-----------------------------------------------------------------------------
(* The carrier. Until two presses overlap there is one, and what it found absent is absent. *)
CarrierInv ==
    /\ Carrier!TypeOK
    /\ \A w \in Workers : press[w] = Carrier!Idle \/ press[w].at > 0
    /\ \A w \in Workers : press[w].absent => press[w].at \in DOMAIN Carrier!Order
    /\ \A r \in settings.recorded : made[r] > 0
    /\ ~overlap =>
          /\ \A v, w \in Workers : press[v] # Carrier!Idle /\ press[w] # Carrier!Idle => v = w
          /\ \A w \in Workers : press[w].absent => made[Carrier!Order[press[w].at]] = 0
          /\ \A r \in Carrier!Resource : made[r] <= 1

LEMMA CarrierOrder ==
    /\ DOMAIN Carrier!Order = 1..4 /\ Len(Carrier!Order) = 4
    /\ \A i \in 1..4 : Carrier!Order[i] \in Carrier!Resource
    /\ Carrier!Idle.at = 0 /\ Carrier!Idle.absent = FALSE /\ Carrier!Idle.mode = None
  BY DEF Carrier!Order, Carrier!Resource, Carrier!Idle

CarrierModes == {None, "SIP_BYOC", "PSTN_FORWARD"}
CarrierPress == [at : 0..Len(Carrier!Order) + 1, absent : BOOLEAN, mode : CarrierModes]
CarrierStatus == {"NOT_CONFIGURED", "PROVISIONING", "ERROR", "ACTIVE", "AWAITING_CARRIER_CONFIGURATION"}
CarrierSettings == [capability : Carrier!Capability, mode : CarrierModes, status : CarrierStatus,
                    known : SUBSET Carrier!Fact, recorded : SUBSET Carrier!Resource]

LEMMA CarrierTypes ==
  ASSUME CarrierInv
  PROVE  /\ settings \in CarrierSettings /\ settings.recorded \subseteq Carrier!Resource
         /\ made \in [Carrier!Resource -> Nat] /\ overlap \in BOOLEAN /\ edits \in 0..MaxEdits
         /\ press \in [Workers -> CarrierPress]
         /\ \A w \in Workers : /\ press[w].at \in 0..5 /\ press[w].absent \in BOOLEAN
                               /\ press[w].mode \in CarrierModes
                               /\ (press[w] # Carrier!Idle <=> press[w].at > 0)
<1>1. /\ settings \in CarrierSettings
      /\ made \in [Carrier!Resource -> Nat] /\ overlap \in BOOLEAN /\ edits \in 0..MaxEdits
      /\ press \in [Workers -> CarrierPress]
  BY DEF CarrierInv, Carrier!TypeOK, CarrierModes, CarrierPress, CarrierStatus, CarrierSettings
<1>2. settings.recorded \subseteq Carrier!Resource
  BY <1>1 DEF CarrierSettings
<1>3. \A w \in Workers : /\ press[w].at \in 0..5 /\ press[w].absent \in BOOLEAN
                         /\ press[w].mode \in CarrierModes
  BY <1>1, CarrierOrder DEF CarrierPress
<1>4. \A w \in Workers : press[w] # Carrier!Idle <=> press[w].at > 0
  BY <1>3, CarrierOrder DEF CarrierInv
<1> QED
  BY <1>1, <1>2, <1>3, <1>4

LEMMA CarrierTyped ==
  ASSUME settings' \in CarrierSettings, made' \in [Carrier!Resource -> Nat], overlap' \in BOOLEAN,
         edits' \in 0..MaxEdits, press' \in [Workers -> CarrierPress]
  PROVE  Carrier!TypeOK'
  BY DEF Carrier!TypeOK, CarrierModes, CarrierPress, CarrierStatus, CarrierSettings

LEMMA CarrierInitOK == Carrier!Init => CarrierInv
<1> SUFFICES ASSUME Carrier!Init PROVE CarrierInv
  OBVIOUS
<1>1. /\ settings \in [capability : Carrier!Capability, mode : {None}, status : {"NOT_CONFIGURED"},
                       known : {Carrier!Fact, Carrier!Fact \ {"uri"}}, recorded : {{}}]
      /\ made = [r \in Carrier!Resource |-> 0] /\ press = [w \in Workers |-> Carrier!Idle]
      /\ overlap = FALSE /\ edits = 0
  BY DEF Carrier!Init
<1>2. Carrier!Idle \in CarrierPress
  BY CarrierOrder DEF Carrier!Idle, CarrierPress, CarrierModes
<1>3. settings \in CarrierSettings /\ settings.recorded = {}
  BY <1>1 DEF CarrierSettings, CarrierModes, CarrierStatus
<1>4. edits \in 0..MaxEdits
  BY <1>1, BoundsAssumption
<1>5. Carrier!TypeOK
  BY <1>1, <1>2, <1>3, <1>4 DEF Carrier!TypeOK, CarrierModes, CarrierPress, CarrierStatus, CarrierSettings
<1> QED
  BY <1>1, <1>3, <1>5, CarrierOrder DEF CarrierInv

\* What becomes of a press, by the way it goes on.
LEMMA PressGoes ==
  ASSUME CarrierInv, NEW w \in Workers, Carrier!AtStep(w)
  PROVE  /\ press[w].at \in 1..4 /\ press[w] # Carrier!Idle
         /\ Carrier!Order[press[w].at] \in Carrier!Resource
         /\ Carrier!Onward(w) => /\ press' \in [Workers -> CarrierPress]
                                 /\ press'[w].at > 0 /\ ~press'[w].absent
                                 /\ \A v \in Workers : v # w => press'[v] = press[v]
         /\ press' = [press EXCEPT ![w].absent = TRUE] =>
                                 /\ press' \in [Workers -> CarrierPress]
                                 /\ press'[w].at = press[w].at
                                 /\ \A v \in Workers : v # w => press'[v] = press[v]
<1>1. press[w].at \in 1..4 /\ press[w] # Carrier!Idle /\ press \in [Workers -> CarrierPress]
  BY CarrierTypes, CarrierOrder DEF Carrier!AtStep
<1>2. ASSUME Carrier!Onward(w)
      PROVE  /\ press' \in [Workers -> CarrierPress] /\ press'[w].at > 0 /\ ~press'[w].absent
             /\ \A v \in Workers : v # w => press'[v] = press[v]
  <2> DEFINE new == [press[w] EXCEPT !.at = press[w].at + 1, !.absent = FALSE]
  <2>3. press[w] \in CarrierPress /\ press[w].at + 1 \in 0..(Len(Carrier!Order) + 1)
    BY <1>1, CarrierOrder
  <2>1. new \in CarrierPress /\ new.at = press[w].at + 1 /\ new.absent = FALSE
    BY <2>3 DEF CarrierPress
  <2>2. press' = [press EXCEPT ![w] = new]
    BY <1>1, <1>2 DEF Carrier!Onward
  <2> HIDE DEF new
  <2> QED
    BY <1>1, <2>1, <2>2
<1>3. ASSUME press' = [press EXCEPT ![w].absent = TRUE]
      PROVE  /\ press' \in [Workers -> CarrierPress] /\ press'[w].at = press[w].at
             /\ \A v \in Workers : v # w => press'[v] = press[v]
  <2> DEFINE new == [press[w] EXCEPT !.absent = TRUE]
  <2>3. press[w] \in CarrierPress
    BY <1>1
  <2>1. new \in CarrierPress /\ new.at = press[w].at
    BY <2>3 DEF CarrierPress
  <2>2. press' = [press EXCEPT ![w] = new]
    BY <1>1, <1>3
  <2> HIDE DEF new
  <2> QED
    BY <1>1, <2>1, <2>2
<1> QED
  BY <1>1, <1>2, <1>3, CarrierOrder

LEMMA PressEnds ==
  ASSUME CarrierInv, NEW w \in Workers, Carrier!Ends(w)
  PROVE  /\ press' \in [Workers -> CarrierPress] /\ press'[w] = Carrier!Idle
         /\ \A v \in Workers : v # w => press'[v] = press[v]
<1>1. Carrier!Idle \in CarrierPress
  BY CarrierOrder DEF Carrier!Idle, CarrierPress, CarrierModes
<1> QED
  BY <1>1, CarrierTypes DEF Carrier!Ends

\* The settings and one press change; of the resources no more than one is recorded.
LEMMA CarrierKeeps ==
  ASSUME CarrierInv, NEW w \in Workers, made' = made, overlap' = overlap, edits' \in 0..MaxEdits,
         settings' \in CarrierSettings, \A r \in settings'.recorded : made[r] > 0,
         press' \in [Workers -> CarrierPress], \A v \in Workers : v # w => press'[v] = press[v],
         press'[w] # Carrier!Idle => press[w] # Carrier!Idle /\ press'[w].at > 0,
         press'[w].absent => /\ press'[w].at \in DOMAIN Carrier!Order
                             /\ made[Carrier!Order[press'[w].at]] = 0
                                \/ (press[w].absent /\ press'[w].at = press[w].at)
  PROVE  CarrierInv'
<1>1. Carrier!TypeOK'
  BY CarrierTypes, CarrierTyped
<1>2. \A v \in Workers : press'[v] = Carrier!Idle \/ press'[v].at > 0
  BY DEF CarrierInv
<1>3. \A v \in Workers : press'[v].absent => press'[v].at \in DOMAIN Carrier!Order
  BY DEF CarrierInv
<1>4. ASSUME ~overlap
      PROVE  /\ \A v, u \in Workers : press'[v] # Carrier!Idle /\ press'[u] # Carrier!Idle => v = u
             /\ \A v \in Workers : press'[v].absent => made[Carrier!Order[press'[v].at]] = 0
  <2>1. \A v \in Workers : press'[v] # Carrier!Idle => press[v] # Carrier!Idle
    OBVIOUS
  <2> QED
    BY <2>1, <1>4 DEF CarrierInv
<1> QED
  BY <1>1, <1>2, <1>3, <1>4 DEF CarrierInv

LEMMA SettingsChange ==
  ASSUME settings \in CarrierSettings
  PROVE  /\ \A status \in CarrierStatus :
               /\ [settings EXCEPT !.status = status] \in CarrierSettings
               /\ [settings EXCEPT !.status = status].recorded = settings.recorded
         /\ \A mode \in CarrierModes : \A status \in CarrierStatus :
               /\ [settings EXCEPT !.mode = mode, !.status = status] \in CarrierSettings
               /\ [settings EXCEPT !.mode = mode, !.status = status].recorded = settings.recorded
         /\ \A r \in Carrier!Resource :
               /\ [settings EXCEPT !.recorded = @ \union {r}] \in CarrierSettings
               /\ [settings EXCEPT !.recorded = @ \union {r}].recorded = settings.recorded \union {r}
  BY DEF CarrierSettings

\* The steps of a press that make nothing.
LEMMA PressOK ==
  ASSUME CarrierInv, NEW w \in Workers,
         Carrier!Skip(w) \/ Carrier!Find(w) \/ Carrier!Refuse(w) \/ Carrier!Die(w) \/ Carrier!Finish(w)
  PROVE  CarrierInv'
<1>1. /\ settings \in CarrierSettings /\ settings.recorded \subseteq Carrier!Resource
      /\ \A r \in settings.recorded : made[r] > 0
      /\ made \in [Carrier!Resource -> Nat] /\ edits \in 0..MaxEdits
      /\ press[w].at \in 0..5 /\ press[w].mode \in CarrierModes
      /\ (press[w] # Carrier!Idle <=> press[w].at > 0)
  BY CarrierTypes DEF CarrierInv
<1>2. CASE Carrier!Skip(w)
  <2>1. Carrier!AtStep(w) /\ Carrier!Onward(w) /\ UNCHANGED <<settings, made, overlap, edits>>
    BY <1>2 DEF Carrier!Skip
  <2> QED
    BY <2>1, <1>1, PressGoes, CarrierKeeps
<1>3. CASE Carrier!Find(w)
  <2> DEFINE r == Carrier!Order[press[w].at]
  <2>1. Carrier!AtStep(w) /\ UNCHANGED <<made, overlap, edits>> /\ r \in Carrier!Resource
    BY <1>3, PressGoes DEF Carrier!Find
  <2>2. CASE made[r] > 0
    <3>1. Carrier!Onward(w) /\ settings' = [settings EXCEPT !.recorded = @ \union {r}]
      BY <1>3, <2>2 DEF Carrier!Find, Carrier!Record
    <3>2. settings' \in CarrierSettings /\ settings'.recorded = settings.recorded \union {r}
      BY <1>1, <2>1, <3>1, SettingsChange
    <3> QED
      BY <1>1, <2>1, <2>2, <3>1, <3>2, PressGoes, CarrierKeeps
  <2>3. CASE ~(made[r] > 0)
    <3>1. press' = [press EXCEPT ![w].absent = TRUE] /\ settings' = settings
      BY <1>3, <2>3 DEF Carrier!Find
    <3>2. made[r] = 0
      BY <1>1, <2>1, <2>3
    <3>3. /\ press' \in [Workers -> CarrierPress] /\ press'[w].at = press[w].at
          /\ press[w].at \in DOMAIN Carrier!Order /\ press[w] # Carrier!Idle
          /\ \A v \in Workers : v # w => press'[v] = press[v]
      BY <2>1, <3>1, PressGoes, CarrierOrder
    <3>4. press'[w].absent => made[Carrier!Order[press'[w].at]] = 0
      BY <3>2, <3>3
    <3> QED
      BY <1>1, <2>1, <3>1, <3>3, <3>4, CarrierKeeps
  <2> QED
    BY <2>2, <2>3
<1>4. CASE Carrier!Refuse(w)
  <2>1. /\ Carrier!Ends(w) /\ settings' = [settings EXCEPT !.status = "ERROR"]
        /\ UNCHANGED <<made, overlap, edits>> /\ "ERROR" \in CarrierStatus
    BY <1>4 DEF Carrier!Refuse, Carrier!StatusIs, CarrierStatus
  <2>2. settings' \in CarrierSettings /\ settings'.recorded = settings.recorded
    BY <1>1, <2>1, SettingsChange
  <2> QED
    BY <1>1, <2>1, <2>2, PressEnds, CarrierOrder, CarrierKeeps
<1>5. CASE Carrier!Die(w)
  <2>1. Carrier!Ends(w) /\ UNCHANGED <<settings, made, overlap, edits>>
    BY <1>5 DEF Carrier!Die
  <2> QED
    BY <1>1, <2>1, PressEnds, CarrierOrder, CarrierKeeps
<1>6. CASE Carrier!Finish(w)
  <2>1. /\ Carrier!Ends(w) /\ UNCHANGED <<made, overlap, edits>>
        /\ settings' = [settings EXCEPT !.mode = press[w].mode, !.status = "AWAITING_CARRIER_CONFIGURATION"]
        /\ "AWAITING_CARRIER_CONFIGURATION" \in CarrierStatus
    BY <1>6 DEF Carrier!Finish, CarrierStatus
  <2>2. settings' \in CarrierSettings /\ settings'.recorded = settings.recorded
    BY <1>1, <2>1, SettingsChange
  <2> QED
    BY <1>1, <2>1, <2>2, PressEnds, CarrierOrder, CarrierKeeps
<1> QED
  BY <1>2, <1>3, <1>4, <1>5, <1>6

LEMMA ProvisionOK == ASSUME CarrierInv, NEW w \in Workers, Carrier!Provision(w) PROVE CarrierInv'
<1> DEFINE mode == Carrier!Recommended(settings.capability)
           new == [at |-> IF mode = "SIP_BYOC" THEN 1 ELSE Len(Carrier!Order) + 1, absent |-> FALSE, mode |-> mode]
<1>1. /\ press[w] = Carrier!Idle /\ settings' = [settings EXCEPT !.status = "PROVISIONING"]
      /\ press' = [press EXCEPT ![w] = new] /\ mode # None
      /\ overlap' = (overlap \/ \E v \in Workers : press[v] # Carrier!Idle)
      /\ UNCHANGED <<made, edits>>
  BY DEF Carrier!Provision, Carrier!StatusIs
<1>2. mode \in CarrierModes
  BY DEF Carrier!Recommended, CarrierModes
<1> HIDE DEF mode
<1>3. new \in CarrierPress /\ new.at > 0 /\ new.absent = FALSE
  BY <1>2, CarrierOrder DEF CarrierPress
<1> HIDE DEF new
<1>4. /\ settings \in CarrierSettings /\ overlap \in BOOLEAN /\ press \in [Workers -> CarrierPress]
      /\ made \in [Carrier!Resource -> Nat] /\ edits \in 0..MaxEdits
  BY CarrierTypes
<1>5. /\ press' \in [Workers -> CarrierPress] /\ press'[w].at > 0 /\ press'[w].absent = FALSE
      /\ \A v \in Workers : v # w => press'[v] = press[v]
  BY <1>1, <1>3, <1>4
<1>6. settings' \in CarrierSettings /\ settings'.recorded = settings.recorded
  BY <1>1, <1>4, SettingsChange DEF CarrierStatus
<1>7. overlap' \in BOOLEAN /\ (~overlap' => ~overlap /\ \A v \in Workers : press[v] = Carrier!Idle)
  BY <1>1, <1>4
<1>8. Carrier!TypeOK'
  BY <1>1, <1>4, <1>5, <1>6, <1>7, CarrierTyped
<1>9. ASSUME ~overlap'
      PROVE  /\ \A v, u \in Workers : press'[v] # Carrier!Idle /\ press'[u] # Carrier!Idle => v = u
             /\ \A v \in Workers : press'[v].absent => made[Carrier!Order[press'[v].at]] = 0
             /\ \A r \in Carrier!Resource : made[r] <= 1
  <2>1. \A v \in Workers : press'[v] # Carrier!Idle => v = w
    BY <1>5, <1>7, <1>9
  <2>2. \A v \in Workers : ~press'[v].absent
    BY <1>5, <1>7, <1>9, CarrierOrder
  <2> QED
    BY <1>7, <1>9, <2>1, <2>2 DEF CarrierInv
<1> QED
  BY <1>1, <1>5, <1>6, <1>8, <1>9 DEF CarrierInv

LEMMA CreateOK ==
  ASSUME CarrierInv, NEW w \in Workers, NEW survives \in BOOLEAN, Carrier!Create(w, survives)
  PROVE  CarrierInv'
<1> DEFINE r == Carrier!Order[press[w].at]
<1>1. /\ Carrier!AtStep(w) /\ press[w].absent /\ made' = [made EXCEPT ![r] = made[r] + 1]
      /\ UNCHANGED <<overlap, edits>>
  BY DEF Carrier!Create
<1>2. r \in Carrier!Resource /\ press[w] # Carrier!Idle
  BY <1>1, PressGoes
<1>3. /\ settings \in CarrierSettings /\ settings.recorded \subseteq Carrier!Resource
      /\ made \in [Carrier!Resource -> Nat] /\ edits \in 0..MaxEdits /\ overlap \in BOOLEAN
  BY CarrierTypes
<1>4. /\ press' \in [Workers -> CarrierPress] /\ (press'[w] = Carrier!Idle \/ press'[w].at > 0)
      /\ press'[w].absent = FALSE /\ \A v \in Workers : v # w => press'[v] = press[v]
  <2>1. CASE survives
    <3>1. Carrier!Onward(w)
      BY <2>1 DEF Carrier!Create
    <3>2. press' \in [Workers -> CarrierPress] /\ press'[w].at > 0 /\ ~press'[w].absent
          /\ \A v \in Workers : v # w => press'[v] = press[v]
      BY <1>1, <3>1, PressGoes
    <3>3. press'[w].absent \in BOOLEAN
      BY <3>2 DEF CarrierPress
    <3> QED
      BY <3>2, <3>3
  <2>2. CASE ~survives
    <3>1. Carrier!Ends(w)
      BY <2>2 DEF Carrier!Create
    <3> QED
      BY <3>1, PressEnds, CarrierOrder
  <2> QED
    BY <2>1, <2>2
<1>5. settings' \in CarrierSettings /\ settings'.recorded \subseteq settings.recorded \union {r}
  <2>1. CASE survives
    <3>1. settings' = [settings EXCEPT !.recorded = @ \union {r}]
      BY <2>1 DEF Carrier!Create, Carrier!Record
    <3> QED
      BY <3>1, <1>2, <1>3, SettingsChange
  <2>2. CASE ~survives
    BY <1>3, <2>2 DEF Carrier!Create
  <2> QED
    BY <2>1, <2>2
<1> HIDE DEF r
<1>6. /\ made' \in [Carrier!Resource -> Nat] /\ made'[r] = made[r] + 1 /\ made[r] \in Nat
      /\ \A q \in Carrier!Resource : q # r => made'[q] = made[q]
  BY <1>1, <1>2, <1>3
<1>7. \A q \in settings'.recorded : made'[q] > 0
  BY <1>2, <1>3, <1>5, <1>6 DEF CarrierInv
<1>8. Carrier!TypeOK'
  BY <1>1, <1>3, <1>4, <1>5, <1>6, CarrierTyped
<1>9. ASSUME ~overlap
      PROVE  /\ \A v, u \in Workers : press'[v] # Carrier!Idle /\ press'[u] # Carrier!Idle => v = u
             /\ \A v \in Workers : ~press'[v].absent
             /\ \A q \in Carrier!Resource : made'[q] <= 1
  <2>1. \A v \in Workers : v # w => press'[v] = Carrier!Idle
    BY <1>2, <1>4, <1>9 DEF CarrierInv
  <2>2. made[r] = 0
    BY <1>1, <1>9 DEF CarrierInv, r
  <2>3. \A q \in Carrier!Resource : made'[q] <= 1
    BY <2>2, <1>6, <1>9 DEF CarrierInv
  <2> QED
    BY <2>1, <2>3, <1>4, CarrierOrder
<1>10. \A v \in Workers : /\ press'[v] = Carrier!Idle \/ press'[v].at > 0
                          /\ press'[v].absent => press'[v].at \in DOMAIN Carrier!Order
  BY <1>4 DEF CarrierInv
<1> QED
  BY <1>1, <1>7, <1>8, <1>9, <1>10 DEF CarrierInv

LEMMA CarrierStepOK == CarrierInv /\ [Carrier!Next]_(Carrier!carrierVars) => CarrierInv'
<1> SUFFICES ASSUME CarrierInv, [Carrier!Next]_(Carrier!carrierVars) PROVE CarrierInv'
  OBVIOUS
<1>1. /\ settings \in CarrierSettings /\ made \in [Carrier!Resource -> Nat] /\ overlap \in BOOLEAN
      /\ press \in [Workers -> CarrierPress] /\ edits \in 0..MaxEdits
      /\ \A r \in settings.recorded : made[r] > 0
  BY CarrierTypes DEF CarrierInv
<1>2. ASSUME settings' \in CarrierSettings, settings'.recorded = settings.recorded, edits' \in 0..MaxEdits,
             UNCHANGED <<made, press, overlap>>
      PROVE  CarrierInv'
  BY <1>1, <1>2, CarrierTyped DEF CarrierInv
<1>3. CASE UNCHANGED Carrier!carrierVars
  BY <1>1, <1>2, <1>3 DEF Carrier!carrierVars
<1>4. CASE Carrier!Activate
  <2>1. /\ settings' = [settings EXCEPT !.status = "ACTIVE"] /\ "ACTIVE" \in CarrierStatus
        /\ UNCHANGED <<made, press, overlap, edits>>
    BY <1>4 DEF Carrier!Activate, Carrier!StatusIs, CarrierStatus
  <2>2. settings' \in CarrierSettings /\ settings'.recorded = settings.recorded
    BY <1>1, <2>1, SettingsChange
  <2> QED
    BY <1>1, <1>2, <2>1, <2>2
<1>5. ASSUME NEW capability \in Carrier!Capability, NEW mode \in {None, "SIP_BYOC", "PSTN_FORWARD"},
             NEW known \in {Carrier!Fact, Carrier!Fact \ {"ips"}, Carrier!Fact \ {"uri"}},
             Carrier!Configure(capability, mode, known)
      PROVE  CarrierInv'
  <2>1. /\ edits < MaxEdits /\ edits' = edits + 1 /\ UNCHANGED <<made, press, overlap>>
        /\ settings' = [settings EXCEPT !.capability = capability, !.mode = mode, !.known = known]
    BY <1>5 DEF Carrier!Configure
  <2>2. edits' \in 0..MaxEdits
    BY <1>1, <2>1, BoundsAssumption
  <2>3. known \in SUBSET Carrier!Fact /\ mode \in CarrierModes
    BY DEF CarrierModes
  <2>4. settings' \in CarrierSettings /\ settings'.recorded = settings.recorded
    BY <1>1, <2>1, <2>3 DEF CarrierSettings
  <2> QED
    BY <1>2, <2>1, <2>2, <2>4
<1>6. CASE Carrier!Next
  BY <1>4, <1>5, <1>6, PressOK, ProvisionOK, CreateOK DEF Carrier!Next
<1> QED
  BY <1>3, <1>6

LEMMA CarrierHolds == CarrierInv => Carrier!TypeOK /\ Carrier!DuplicatesNeedOverlap
<1> SUFFICES ASSUME CarrierInv, NEW r \in Carrier!Resource, made[r] > 1 PROVE overlap
  BY DEF Carrier!DuplicatesNeedOverlap, CarrierInv
<1>1. made[r] \in Nat
  BY CarrierTypes
<1> QED
  BY <1>1 DEF CarrierInv

-----------------------------------------------------------------------------
(* Numbers and subaccounts. A job holds what it read of its business for as long as no other
   kind of job is at that business, and the row's lock from its flush to its end. *)
BizRow == [sub : Subaccounts \union {None}, number : Numbers \union {None}, openai : BOOLEAN]
JobFields == [op : {"buy", "adopt", "transfer", "openai", "return", "create", "none"},
              garage : Garages \union {None}, sub : Subaccounts \union {None}, number : Numbers \union {None},
              phase : {"asked", "locked", "checked", "listed", "done", "idle"}]
Acquires(op) == op \in {"buy", "adopt", "transfer"}
Locks(op) == op \in {"buy", "adopt", "transfer", "openai"}

\* What the job of w relies on, at the rows, accounts, trunks, locks and slips given.
JobSound(w, J, rows, acct, trks, lck, slp) ==
    /\ J \in JobFields
    /\ J.op = "none" <=> J = Provisioning!Idle
    /\ J.op # "none" =>
        /\ J.garage \in Garages /\ J.phase # "idle"
        /\ J.op # "create" => /\ J.number \in Numbers /\ J.sub \in Subaccounts
                              /\ J.sub = rows[J.garage].sub
        /\ J.op = "create" => /\ rows[J.garage].number = None /\ J.phase \in {"asked", "done"}
                              /\ J.phase = "done" => J.sub \in Subaccounts
        /\ J.phase = "checked" => /\ J.op = "transfer"
                                  /\ \A h \in Garages \ {J.garage} : rows[h].number = J.number => J.number \in slp
        /\ J.phase = "listed" => J.op = "openai" /\ trks[J.sub] = 0
        /\ Acquires(J.op) /\ J.phase = "done" => acct[J.number] = J.sub
        /\ Locks(J.op) /\ J.phase # "asked" => lck[J.garage] = w

JobsSound == \A w \in Workers : JobSound(w, job[w], biz, account, trunks, lock, slips)
JobsAgree == \A v, w \in Workers : job[v].op # "none" /\ job[w].op # "none" /\ job[v].garage = job[w].garage
                                       => job[v].op = job[w].op
RowsApart(rows) == \A g, h \in Garages : rows[g].sub # None /\ rows[g].sub = rows[h].sub => g = h
RowSound(row, acct, slp) ==
    row.number # None => /\ row.sub # None
                         /\ acct[row.number] \in {row.sub, "parent"} \/ row.number \in slp
NumbersTyped ==
    /\ account \in [Numbers -> {"market", "parent"} \union Subaccounts]
    /\ trunks \in [Subaccounts -> 0..2] /\ \A s \in Subaccounts : trunks[s] <= 1
    /\ biz \in [Garages -> BizRow] /\ lock \in [Garages -> Workers \union {None}]
    /\ job \in [Workers -> JobFields] /\ slips \subseteq Numbers \union Subaccounts
NumbersInv == /\ NumbersTyped /\ JobsSound /\ JobsAgree /\ RowsApart(biz)
              /\ \A g \in Garages : RowSound(biz[g], account, slips)

LEMMA NumbersDistinct == /\ None \notin Numbers /\ None \notin Subaccounts /\ None \notin Garages
                         /\ None \notin Workers /\ "market" \notin Subaccounts /\ "parent" \notin Subaccounts
                         /\ "market" # "parent" /\ None # "parent" /\ None # "market"
  BY NoneAssumption, AccountsAssumption

LEMMA IdleJob == /\ Provisioning!Idle \in JobFields /\ Provisioning!Idle.op = "none"
                 /\ Provisioning!Idle.garage = None /\ Provisioning!Idle.phase = "idle"
  BY DEF Provisioning!Idle, JobFields

LEMMA JobIsTyped ==
  ASSUME NEW J \in JobFields, J.op = "none" <=> J = Provisioning!Idle,
         J.op # "none" => J.garage \in Garages /\ J.phase # "idle"
  PROVE  J \in Provisioning!Job
<1>1. CASE J.op = "none"
  BY <1>1 DEF Provisioning!Job
<1>2. CASE J.op # "none"
  <2>1. /\ J.op \in {"buy", "adopt", "transfer", "openai", "return", "create"}
        /\ J.garage \in Garages /\ J.sub \in Subaccounts \union {None} /\ J.number \in Numbers \union {None}
        /\ J.phase \in {"asked", "locked", "checked", "listed", "done"}
        /\ J = [op |-> J.op, garage |-> J.garage, sub |-> J.sub, number |-> J.number, phase |-> J.phase]
    BY <1>2 DEF JobFields
  <2> QED
    BY <2>1 DEF Provisioning!Job, Provisioning!Locking, Provisioning!Acquiring
<1> QED
  BY <1>1, <1>2

LEMMA NumbersInitOK == Provisioning!Init => NumbersInv
<1> SUFFICES ASSUME Provisioning!Init PROVE NumbersInv
  OBVIOUS
<1>1. /\ account \in [Numbers -> {"market", "parent"}] /\ trunks = [s \in Subaccounts |-> 0]
      /\ biz = [g \in Garages |-> [sub |-> None, number |-> None, openai |-> FALSE]]
      /\ lock = [g \in Garages |-> None] /\ job = [w \in Workers |-> Provisioning!Idle] /\ slips = {}
  BY DEF Provisioning!Init
<1>2. \A g \in Garages : biz[g].sub = None /\ biz[g].number = None /\ biz[g] \in BizRow
  BY <1>1 DEF BizRow
<1>3. NumbersTyped
  <2>1. account \in [Numbers -> {"market", "parent"} \union Subaccounts]
    BY <1>1
  <2>2. trunks \in [Subaccounts -> 0..2] /\ \A s \in Subaccounts : trunks[s] <= 1
    BY <1>1
  <2>3. biz \in [Garages -> BizRow]
    BY <1>1, <1>2
  <2>4. job \in [Workers -> JobFields]
    BY <1>1, IdleJob
  <2> QED
    BY <1>1, <2>1, <2>2, <2>3, <2>4 DEF NumbersTyped
<1>4. JobsSound /\ JobsAgree
  BY <1>1, IdleJob DEF JobsSound, JobsAgree, JobSound
<1> QED
  BY <1>2, <1>3, <1>4 DEF NumbersInv, RowsApart, RowSound

LEMMA NumbersHold == NumbersInv => Provisioning!TypeOK /\ Provisioning!NumbersStayApart
<1> SUFFICES ASSUME NumbersInv PROVE Provisioning!TypeOK /\ Provisioning!NumbersStayApart
  OBVIOUS
<1>1. NumbersTyped /\ RowsApart(biz) /\ \A g \in Garages : RowSound(biz[g], account, slips)
  BY DEF NumbersInv
<1>2. job \in [Workers -> Provisioning!Job]
  <2>1. \A w \in Workers : job[w] \in Provisioning!Job
    BY JobIsTyped DEF NumbersInv, JobsSound, JobSound
  <2> QED
    BY <1>1, <2>1 DEF NumbersTyped
<1>3. Provisioning!TypeOK
  BY <1>1, <1>2 DEF Provisioning!TypeOK, NumbersTyped, BizRow, Provisioning!Business
<1>4. ASSUME NEW g \in Garages, NEW h \in Garages, g # h, biz[g].number # None,
             account[biz[g].number] = biz[h].sub
      PROVE  {biz[g].number, biz[h].sub} \cap slips # {}
  <2>1. biz[h].sub \in Subaccounts \union {None}
    BY <1>1 DEF NumbersTyped, BizRow
  <2>2. account[biz[g].number] \in {biz[g].sub, "parent"} \/ biz[g].number \in slips
    BY <1>1, <1>4 DEF RowSound
  <2>3. biz[g].sub # None
    BY <1>1, <1>4 DEF RowSound
  <2>4. account[biz[g].number] # "parent"
    BY <1>4, <2>1, NumbersDistinct
  <2>5. account[biz[g].number] # biz[g].sub
    BY <1>1, <1>4, <2>3 DEF RowsApart
  <2> QED
    BY <2>2, <2>4, <2>5
<1> QED
  BY <1>1, <1>3, <1>4 DEF Provisioning!NumbersStayApart, NumbersTyped

\* A job goes on to another phase.
LEMMA JobGoes ==
  ASSUME NumbersInv, NEW w \in Workers, NEW ph \in {"locked", "checked", "listed", "done"},
         job[w].op # "none", Provisioning!Goes(w, ph)
  PROVE  /\ job' \in [Workers -> JobFields] /\ \A v \in Workers : v # w => job'[v] = job[v]
         /\ job'[w].op = job[w].op /\ job'[w].garage = job[w].garage /\ job'[w].sub = job[w].sub
         /\ job'[w].number = job[w].number /\ job'[w].phase = ph
         /\ JobsAgree'
<1> DEFINE new == [job[w] EXCEPT !.phase = ph]
<1>1. job \in [Workers -> JobFields] /\ job[w] \in JobFields /\ job' = [job EXCEPT ![w] = new]
  BY DEF NumbersInv, NumbersTyped, Provisioning!Goes
<1>2. /\ new \in JobFields /\ new.op = job[w].op /\ new.garage = job[w].garage /\ new.sub = job[w].sub
      /\ new.number = job[w].number /\ new.phase = ph
  BY <1>1 DEF JobFields
<1> HIDE DEF new
<1>3. /\ job' \in [Workers -> JobFields] /\ job'[w] = new
      /\ \A v \in Workers : v # w => job'[v] = job[v]
  BY <1>1, <1>2
<1>4. \A v \in Workers : job'[v].op = job[v].op /\ job'[v].garage = job[v].garage
  BY <1>2, <1>3
<1>5. JobsAgree'
  BY <1>4 DEF NumbersInv, JobsAgree
<1> QED
  BY <1>2, <1>3, <1>5

\* What a job at work is known to be.
LEMMA JobKnown ==
  ASSUME NumbersInv, NEW w \in Workers, job[w].op # "none"
  PROVE  /\ job[w] \in JobFields /\ job[w].garage \in Garages /\ job[w].phase # "idle"
         /\ biz[job[w].garage] \in BizRow
         /\ JobSound(w, job[w], biz, account, trunks, lock, slips)
<1>1. JobSound(w, job[w], biz, account, trunks, lock, slips)
  BY DEF NumbersInv, JobsSound
<1> QED
  BY <1>1 DEF NumbersInv, NumbersTyped, JobSound

\* The row is locked, or looked at, or Twilio is asked what there is.
LEMMA LookOK ==
  ASSUME NumbersInv, NEW w \in Workers, \/ Provisioning!Lock(w) \/ Provisioning!Adopt(w)
                                        \/ Provisioning!Check(w) \/ Provisioning!ListTrunks(w)
  PROVE  NumbersInv'
<1> DEFINE J == job[w]  g == J.garage
<1>1. /\ J.op # "none" /\ UNCHANGED <<account, trunks, biz, slips>>
  <2>1. J.op \in {"buy", "adopt", "transfer", "openai"}
    BY DEF Provisioning!Lock, Provisioning!Adopt, Provisioning!Check, Provisioning!ListTrunks,
           Provisioning!Locking, Provisioning!Acquiring
  <2> QED
    BY <2>1 DEF Provisioning!Lock, Provisioning!Adopt, Provisioning!Check, Provisioning!ListTrunks
<1>2. /\ J \in JobFields /\ g \in Garages /\ JobSound(w, J, biz, account, trunks, lock, slips)
      /\ \A v \in Workers : JobSound(v, job[v], biz, account, trunks, lock, slips)
  BY <1>1, JobKnown DEF NumbersInv, JobsSound
<1>3. PICK ph \in {"locked", "checked", "listed", "done"} :
         /\ Provisioning!Goes(w, ph)
         /\ ph = "locked" => J.phase = "asked" /\ lock[g] = None /\ lock' = [lock EXCEPT ![g] = w]
         /\ ph # "locked" => J.phase = "locked" /\ lock' = lock
         /\ ph = "checked" => J.op = "transfer" /\ ~Provisioning!ClaimedByOther(g, J.number)
         /\ ph = "listed" => J.op = "openai" /\ trunks[J.sub] = 0
         /\ ph = "done" => J.op = "openai" \/ account[J.number] = J.sub
         /\ J.op \in {"buy", "adopt", "transfer", "openai"}
  <2>1. CASE Provisioning!Lock(w)
    BY <2>1 DEF Provisioning!Lock, Provisioning!Locking, Provisioning!Acquiring
  <2>2. CASE Provisioning!Adopt(w)
    BY <2>2 DEF Provisioning!Adopt
  <2>3. CASE Provisioning!Check(w)
    BY <2>3 DEF Provisioning!Check
  <2>4. CASE Provisioning!ListTrunks(w)
    BY <2>4 DEF Provisioning!ListTrunks
  <2> QED
    BY <2>1, <2>2, <2>3, <2>4
<1>4. /\ job' \in [Workers -> JobFields] /\ \A v \in Workers : v # w => job'[v] = job[v]
      /\ job'[w].op = J.op /\ job'[w].garage = g /\ job'[w].sub = J.sub
      /\ job'[w].number = J.number /\ job'[w].phase = ph /\ JobsAgree'
  BY <1>1, <1>3, JobGoes
<1>5. /\ lock \in [Garages -> Workers \union {None}] /\ lock' \in [Garages -> Workers \union {None}]
      /\ \A h \in Garages : lock[h] # None => lock'[h] = lock[h]
      /\ lock'[g] = w
  <2>1. lock \in [Garages -> Workers \union {None}]
    BY DEF NumbersInv, NumbersTyped
  <2>2. CASE ph = "locked"
    BY <1>2, <1>3, <2>1, <2>2
  <2>3. CASE ph # "locked"
    BY <1>2, <1>3, <2>1, <2>3 DEF JobSound, Locks
  <2> QED
    BY <2>1, <2>2, <2>3
<1>6. NumbersTyped'
  BY <1>1, <1>4, <1>5 DEF NumbersInv, NumbersTyped
<1>7. ASSUME NEW v \in Workers, v # w
      PROVE  JobSound(v, job'[v], biz', account', trunks', lock', slips')
  <2>1. job'[v] = job[v] /\ JobSound(v, job[v], biz, account, trunks, lock, slips)
    BY <1>2, <1>4, <1>7
  <2>2. Locks(job[v].op) /\ job[v].phase # "asked" => lock'[job[v].garage] = v
    <3> SUFFICES ASSUME Locks(job[v].op), job[v].phase # "asked" PROVE lock'[job[v].garage] = v
      OBVIOUS
    <3>1. job[v].op # "none"
      BY DEF Locks
    <3>2. lock[job[v].garage] = v /\ job[v].garage \in Garages
      BY <2>1, <3>1 DEF JobSound
    <3> QED
      BY <3>2, <1>5, NumbersDistinct
  <2> QED
    BY <1>1, <2>1, <2>2 DEF JobSound
<1>8. JobSound(w, job'[w], biz', account', trunks', lock', slips')
  <2>1. job'[w] \in JobFields /\ job'[w] # Provisioning!Idle
    BY <1>1, <1>4, IdleJob
  <2>2. /\ J.op # "create" /\ J.number \in Numbers /\ J.sub \in Subaccounts /\ J.sub = biz[g].sub
    BY <1>1, <1>2, <1>3 DEF JobSound
  <2>3. ph = "checked" => J.op = "transfer" /\ \A h \in Garages \ {g} : biz[h].number # J.number
    BY <1>3 DEF Provisioning!ClaimedByOther
  <2>4. Acquires(J.op) /\ ph = "done" => account[J.number] = J.sub
    BY <1>3 DEF Acquires
  <2> QED
    BY <1>1, <1>2, <1>3, <1>4, <1>5, <2>1, <2>2, <2>3, <2>4 DEF JobSound
<1>9. JobsSound'
  BY <1>7, <1>8 DEF JobsSound
<1> QED
  BY <1>1, <1>4, <1>6, <1>9 DEF NumbersInv

\* Twilio moves a number for a job, and nobody else relied on where it was.
LEMMA NumberMoves ==
  ASSUME NumbersInv, NEW w \in Workers, job[w].op \notin {"none", "create"},
         NEW x \in {"parent"} \union Subaccounts, account' = [account EXCEPT ![job[w].number] = x],
         Provisioning!Goes(w, "done"), UNCHANGED <<trunks, biz, lock, slips>>,
         \A v \in Workers : (v # w /\ Acquires(job[v].op) /\ job[v].phase = "done"
                               /\ job[v].number = job[w].number) => job[v].sub = x,
         Acquires(job[w].op) => x = job[w].sub,
         Locks(job[w].op) => job[w].phase # "asked",
         \A h \in Garages : biz[h].number = job[w].number =>
             x \in {biz[h].sub, "parent"} \/ job[w].number \in slips
  PROVE  NumbersInv'
<1> DEFINE J == job[w]  n == J.number
<1>1. /\ J \in JobFields /\ J.garage \in Garages /\ n \in Numbers /\ J.sub \in Subaccounts
      /\ J.sub = biz[J.garage].sub
      /\ \A v \in Workers : JobSound(v, job[v], biz, account, trunks, lock, slips)
  BY JobKnown DEF NumbersInv, JobsSound, JobSound
<1>2. /\ job' \in [Workers -> JobFields] /\ \A v \in Workers : v # w => job'[v] = job[v]
      /\ job'[w].op = J.op /\ job'[w].garage = J.garage /\ job'[w].sub = J.sub
      /\ job'[w].number = n /\ job'[w].phase = "done" /\ JobsAgree'
  BY JobGoes
<1>3. /\ account' \in [Numbers -> {"market", "parent"} \union Subaccounts] /\ account'[n] = x
      /\ \A m \in Numbers : m # n => account'[m] = account[m]
  BY <1>1 DEF NumbersInv, NumbersTyped
<1>4. NumbersTyped'
  BY <1>2, <1>3 DEF NumbersInv, NumbersTyped
<1>5. ASSUME NEW v \in Workers, v # w PROVE JobSound(v, job'[v], biz', account', trunks', lock', slips')
  <2>1. job'[v] = job[v] /\ JobSound(v, job[v], biz, account, trunks, lock, slips)
    BY <1>1, <1>2, <1>5
  <2>2. ASSUME Acquires(job[v].op), job[v].phase = "done" PROVE account'[job[v].number] = job[v].sub
    <3>1. job[v].number \in Numbers /\ account[job[v].number] = job[v].sub
      BY <2>1, <2>2 DEF JobSound, Acquires
    <3> QED
      BY <3>1, <2>2, <1>3, <1>5
  <2> QED
    BY <2>1, <2>2 DEF JobSound
<1>6. JobSound(w, job'[w], biz', account', trunks', lock', slips')
  <2>1. job'[w] \in JobFields /\ job'[w] # Provisioning!Idle
    BY <1>2, IdleJob
  <2>2. Locks(J.op) => lock[J.garage] = w
    BY <1>1 DEF JobSound, Locks
  <2> QED
    BY <1>1, <1>2, <1>3, <2>1, <2>2 DEF JobSound
<1>7. ASSUME NEW h \in Garages PROVE RowSound(biz'[h], account', slips')
  <2>1. RowSound(biz[h], account, slips) /\ biz[h] \in BizRow
    BY DEF NumbersInv, NumbersTyped
  <2>2. biz[h].number = n \/ biz[h].number = None \/ (biz[h].number \in Numbers /\ biz[h].number # n)
    BY <2>1 DEF BizRow
  <2> QED
    BY <1>3, <2>1, <2>2, NumbersDistinct DEF RowSound
<1> QED
  BY <1>2, <1>4, <1>5, <1>6, <1>7 DEF NumbersInv, JobsSound

LEMMA TwilioOK ==
  ASSUME NumbersInv, NEW w \in Workers, Provisioning!Buy(w) \/ Provisioning!Move(w) \/ Provisioning!GiveBack(w)
  PROVE  NumbersInv'
<1> DEFINE J == job[w]  n == J.number
<1>1. /\ \A v \in Workers : JobSound(v, job[v], biz, account, trunks, lock, slips)
      /\ \A h \in Garages : RowSound(biz[h], account, slips) /\ biz[h] \in BizRow
      /\ Provisioning!Idle.op = "none" /\ Provisioning!Idle.phase = "idle"
  BY IdleJob DEF NumbersInv, JobsSound, NumbersTyped
<1>2. CASE Provisioning!Buy(w)
  <2>1. /\ J.op = "buy" /\ J.phase = "locked" /\ account[n] \in {"market", J.sub}
        /\ account' = [account EXCEPT ![n] = J.sub] /\ Provisioning!Goes(w, "done")
        /\ UNCHANGED <<trunks, biz, lock, slips>>
    BY <1>2 DEF Provisioning!Buy
  <2>2. n \in Numbers /\ J.sub \in Subaccounts /\ J.garage \in Garages
    BY <1>1, <2>1 DEF JobSound
  <2>3. ASSUME NEW v \in Workers, Acquires(job[v].op), job[v].phase = "done", job[v].number = n
        PROVE  job[v].sub = J.sub
    <3>1. account[n] = job[v].sub /\ job[v].sub \in Subaccounts
      BY <1>1, <2>3 DEF JobSound, Acquires
    <3> QED
      BY <3>1, <2>1, NumbersDistinct
  <2>4. ASSUME NEW h \in Garages, biz[h].number = n PROVE J.sub \in {biz[h].sub, "parent"} \/ n \in slips
    <3>1. biz[h].sub # None /\ (account[n] \in {biz[h].sub, "parent"} \/ n \in slips)
      BY <1>1, <2>2, <2>4, NumbersDistinct DEF RowSound
    <3>2. biz[h].sub \in Subaccounts
      BY <1>1, <3>1 DEF BizRow
    <3> QED
      BY <3>1, <3>2, <2>1, NumbersDistinct
  <2>5. J.op \notin {"none", "create"} /\ (Locks(J.op) => J.phase # "asked")
        /\ (Acquires(J.op) => J.sub = J.sub)
    BY <2>1, <2>2 DEF Acquires, Locks
  <2>6. \A v \in Workers : (v # w /\ Acquires(job[v].op) /\ job[v].phase = "done"
                              /\ job[v].number = n) => job[v].sub = J.sub
    BY <2>3
  <2>7. \A h \in Garages : biz[h].number = n => J.sub \in {biz[h].sub, "parent"} \/ n \in slips
    BY <2>4
  <2>8. J.sub \in {"parent"} \union Subaccounts
    BY <2>2
  <2> HIDE DEF J, n
  <2>9. account' = [account EXCEPT ![job[w].number] = J.sub]
    BY <2>1 DEF J, n
  <2> QED
    BY <2>1, <2>5, <2>6, <2>7, <2>8, <2>9, NumberMoves DEF J, n
<1>3. CASE Provisioning!Move(w)
  <2>1. /\ J.phase = "checked" /\ account[n] = "parent"
        /\ account' = [account EXCEPT ![n] = J.sub] /\ Provisioning!Goes(w, "done")
        /\ UNCHANGED <<trunks, biz, lock, slips>>
    BY <1>3 DEF Provisioning!Move
  <2>2. /\ J.op = "transfer" /\ n \in Numbers /\ J.sub \in Subaccounts /\ J.garage \in Garages
        /\ J.sub = biz[J.garage].sub
        /\ \A h \in Garages \ {J.garage} : biz[h].number = n => n \in slips
    BY <1>1, <2>1 DEF JobSound
  <2>3. ASSUME NEW v \in Workers, Acquires(job[v].op), job[v].phase = "done", job[v].number = n
        PROVE  job[v].sub = J.sub
    <3>1. account[n] = job[v].sub /\ job[v].sub \in Subaccounts
      BY <1>1, <2>3 DEF JobSound, Acquires
    <3> QED
      BY <3>1, <2>1, NumbersDistinct
  <2>4. ASSUME NEW h \in Garages, biz[h].number = n PROVE J.sub \in {biz[h].sub, "parent"} \/ n \in slips
    BY <2>2, <2>4
  <2>5. J.op \notin {"none", "create"} /\ (Locks(J.op) => J.phase # "asked")
        /\ (Acquires(J.op) => J.sub = J.sub)
    BY <2>1, <2>2 DEF Acquires, Locks
  <2>6. \A v \in Workers : (v # w /\ Acquires(job[v].op) /\ job[v].phase = "done"
                              /\ job[v].number = n) => job[v].sub = J.sub
    BY <2>3
  <2>7. \A h \in Garages : biz[h].number = n => J.sub \in {biz[h].sub, "parent"} \/ n \in slips
    BY <2>4
  <2>8. J.sub \in {"parent"} \union Subaccounts
    BY <2>2
  <2> HIDE DEF J, n
  <2>9. account' = [account EXCEPT ![job[w].number] = J.sub]
    BY <2>1 DEF J, n
  <2> QED
    BY <2>1, <2>5, <2>6, <2>7, <2>8, <2>9, NumberMoves DEF J, n
<1>4. CASE Provisioning!GiveBack(w)
  <2>1. /\ J.op = "return" /\ account[n] \in {J.sub, "parent"}
        /\ account' = [account EXCEPT ![n] = "parent"] /\ Provisioning!Goes(w, "done")
        /\ UNCHANGED <<trunks, biz, lock, slips>>
    BY <1>4 DEF Provisioning!GiveBack
  <2>2. /\ n \in Numbers /\ J.sub \in Subaccounts /\ J.garage \in Garages /\ J.sub = biz[J.garage].sub
    BY <1>1, <2>1 DEF JobSound
  <2>3. ASSUME NEW v \in Workers, Acquires(job[v].op), job[v].phase = "done", job[v].number = n
        PROVE  FALSE
    <3>1. /\ account[n] = job[v].sub /\ job[v].sub \in Subaccounts /\ job[v].garage \in Garages
          /\ job[v].sub = biz[job[v].garage].sub /\ job[v].op # "none"
      BY <1>1, <2>3 DEF JobSound, Acquires
    <3>2. job[v].sub = J.sub
      BY <3>1, <2>1, NumbersDistinct
    <3>3. job[v].garage = J.garage
      BY <3>1, <3>2, <2>2, NumbersDistinct DEF NumbersInv, RowsApart
    <3> QED
      BY <3>1, <3>3, <2>1, <2>3 DEF NumbersInv, JobsAgree, Acquires
  <2>4. \A h \in Garages : "parent" \in {biz[h].sub, "parent"}
    OBVIOUS
  <2>5. J.op \notin {"none", "create"} /\ (Locks(J.op) => J.phase # "asked")
        /\ (Acquires(J.op) => "parent" = J.sub)
    BY <2>1, <2>2 DEF Acquires, Locks
  <2>6. \A v \in Workers : (v # w /\ Acquires(job[v].op) /\ job[v].phase = "done"
                              /\ job[v].number = n) => job[v].sub = "parent"
    BY <2>3
  <2>7. \A h \in Garages : biz[h].number = n => "parent" \in {biz[h].sub, "parent"} \/ n \in slips
    BY <2>4
  <2>8. "parent" \in {"parent"} \union Subaccounts
    BY <2>2
  <2> HIDE DEF J, n
  <2>9. account' = [account EXCEPT ![job[w].number] = "parent"]
    BY <2>1 DEF J, n
  <2> QED
    BY <2>1, <2>5, <2>6, <2>7, <2>8, <2>9, NumberMoves DEF J, n
<1> QED
  BY <1>2, <1>3, <1>4

LEMMA CreateTrunkOK == ASSUME NumbersInv, NEW w \in Workers, Provisioning!CreateTrunk(w) PROVE NumbersInv'
<1> DEFINE J == job[w]
<1>1. /\ \A v \in Workers : JobSound(v, job[v], biz, account, trunks, lock, slips)
      /\ Provisioning!Idle.op = "none" /\ Provisioning!Idle.phase = "idle"
  BY IdleJob DEF NumbersInv, JobsSound
<1>2. /\ J.phase = "listed" /\ trunks' = [trunks EXCEPT ![J.sub] = trunks[J.sub] + 1]
      /\ Provisioning!Goes(w, "done") /\ UNCHANGED <<account, biz, lock, slips>>
  BY DEF Provisioning!CreateTrunk
<1>3. /\ J.op = "openai" /\ J.sub \in Subaccounts /\ J.garage \in Garages /\ J.sub = biz[J.garage].sub
      /\ J.number \in Numbers /\ trunks[J.sub] = 0 /\ lock[J.garage] = w
  BY <1>1, <1>2 DEF JobSound, Locks
<1>4. /\ trunks' \in [Subaccounts -> 0..2] /\ \A s \in Subaccounts : trunks'[s] <= 1
      /\ \A s \in Subaccounts : s # J.sub => trunks'[s] = trunks[s]
  <2>1. trunks \in [Subaccounts -> 0..2] /\ \A s \in Subaccounts : trunks[s] <= 1
    BY DEF NumbersInv, NumbersTyped
  <2>2. trunks' = [trunks EXCEPT ![J.sub] = 1]
    BY <1>2, <1>3
  <2> QED
    BY <2>1, <2>2, <1>3
<1>5. /\ job' \in [Workers -> JobFields] /\ \A v \in Workers : v # w => job'[v] = job[v]
      /\ job'[w].op = J.op /\ job'[w].garage = J.garage /\ job'[w].sub = J.sub
      /\ job'[w].number = J.number /\ job'[w].phase = "done" /\ JobsAgree'
  BY <1>2, <1>3, JobGoes
<1>6. NumbersTyped'
  BY <1>2, <1>4, <1>5 DEF NumbersInv, NumbersTyped
<1>7. ASSUME NEW v \in Workers, v # w PROVE JobSound(v, job'[v], biz', account', trunks', lock', slips')
  <2>1. job'[v] = job[v] /\ JobSound(v, job[v], biz, account, trunks, lock, slips)
    BY <1>1, <1>5, <1>7
  <2>2. ASSUME job[v].phase = "listed" PROVE trunks'[job[v].sub] = 0
    <3>1. /\ job[v].op = "openai" /\ trunks[job[v].sub] = 0 /\ job[v].garage \in Garages
          /\ job[v].sub \in Subaccounts /\ job[v].sub = biz[job[v].garage].sub /\ lock[job[v].garage] = v
      BY <1>1, <2>2 DEF JobSound, Locks
    <3>2. job[v].sub # J.sub
      <4> SUFFICES ASSUME job[v].sub = J.sub PROVE FALSE
        OBVIOUS
      <4>1. job[v].garage = J.garage
        BY <3>1, <1>3, NumbersDistinct DEF NumbersInv, RowsApart
      <4> QED
        BY <4>1, <3>1, <1>3, <1>7
    <3> QED
      BY <3>1, <3>2, <1>4
  <2> QED
    BY <2>1, <2>2, <1>2 DEF JobSound
<1>8. JobSound(w, job'[w], biz', account', trunks', lock', slips')
  <2>1. job'[w] \in JobFields /\ job'[w] # Provisioning!Idle
    BY <1>3, <1>5, IdleJob
  <2> QED
    BY <1>2, <1>3, <1>5, <2>1 DEF JobSound, Locks, Acquires
<1> QED
  BY <1>2, <1>5, <1>6, <1>7, <1>8 DEF NumbersInv, JobsSound

LEMMA CreateSubaccountOK ==
  ASSUME NumbersInv, NEW w \in Workers, NEW s \in Subaccounts, Provisioning!CreateSubaccount(w, s)
  PROVE  NumbersInv'
<1> DEFINE J == job[w]  new == [J EXCEPT !.sub = s, !.phase = "done"]
<1>1. /\ \A v \in Workers : JobSound(v, job[v], biz, account, trunks, lock, slips)
      /\ job \in [Workers -> JobFields]
  BY DEF NumbersInv, JobsSound, NumbersTyped
<1>2. /\ J.op = "create" /\ UNCHANGED <<account, trunks, biz, lock, slips>>
      /\ job' = [job EXCEPT ![w].sub = s, ![w].phase = "done"]
  BY DEF Provisioning!CreateSubaccount
<1>3. J \in JobFields /\ job' = [job EXCEPT ![w] = new]
  BY <1>1, <1>2
<1>4. /\ new \in JobFields /\ new.op = "create" /\ new.garage = J.garage /\ new.sub = s
      /\ new.number = J.number /\ new.phase = "done"
  BY <1>2, <1>3 DEF JobFields
<1> HIDE DEF new
<1>5. /\ job' \in [Workers -> JobFields] /\ job'[w] = new /\ \A v \in Workers : v # w => job'[v] = job[v]
  BY <1>1, <1>3, <1>4
<1>6. JobsAgree'
  <2>1. \A v \in Workers : job'[v].op = job[v].op /\ job'[v].garage = job[v].garage
    BY <1>2, <1>4, <1>5
  <2> QED
    BY <2>1 DEF NumbersInv, JobsAgree
<1>7. JobSound(w, job'[w], biz', account', trunks', lock', slips')
  <2>1. job'[w] # Provisioning!Idle
    BY <1>4, <1>5, IdleJob
  <2>2. J.garage \in Garages /\ biz[J.garage].number = None
    BY <1>1, <1>2 DEF JobSound
  <2> QED
    BY <1>2, <1>4, <1>5, <2>1, <2>2 DEF JobSound, Acquires, Locks
<1>8. \A v \in Workers : v # w => JobSound(v, job'[v], biz', account', trunks', lock', slips')
  BY <1>1, <1>2, <1>5
<1>9. NumbersTyped'
  BY <1>2, <1>5 DEF NumbersInv, NumbersTyped
<1> QED
  BY <1>2, <1>6, <1>7, <1>8, <1>9 DEF NumbersInv, JobsSound

\* A job is over, and its lock is given back.
LEMMA JobEnds ==
  ASSUME NumbersInv, NEW w \in Workers, Provisioning!Ends(w)
  PROVE  /\ job' \in [Workers -> JobFields] /\ job'[w] = Provisioning!Idle
         /\ \A v \in Workers : v # w => job'[v] = job[v]
         /\ lock' \in [Garages -> Workers \union {None}]
         /\ \A v \in Workers : v # w => \A g \in Garages : lock[g] = v => lock'[g] = v
         /\ JobsAgree'
<1>1. /\ job \in [Workers -> JobFields] /\ lock \in [Garages -> Workers \union {None}]
      /\ job' = [job EXCEPT ![w] = Provisioning!Idle]
      /\ lock' = [g \in Garages |-> IF lock[g] = w THEN None ELSE lock[g]]
  BY DEF NumbersInv, NumbersTyped, Provisioning!Ends, Provisioning!Unlocked
<1>2. job' \in [Workers -> JobFields] /\ job'[w] = Provisioning!Idle
      /\ \A v \in Workers : v # w => job'[v] = job[v]
  BY <1>1, IdleJob
<1>3. /\ lock' \in [Garages -> Workers \union {None}]
      /\ \A v \in Workers : v # w => \A g \in Garages : lock[g] = v => lock'[g] = v
  BY <1>1
<1>4. JobsAgree'
  BY <1>2, IdleJob DEF NumbersInv, JobsAgree
<1> QED
  BY <1>2, <1>3, <1>4

\* When a job ends, the others keep what they rely on if the rows and slips do.
LEMMA EndLeaves ==
  ASSUME NumbersInv, NEW w \in Workers, Provisioning!Ends(w), UNCHANGED <<account, trunks>>,
         biz' \in [Garages -> BizRow], slips \subseteq slips', slips' \subseteq Numbers \union Subaccounts,
         RowsApart(biz'), \A g \in Garages : RowSound(biz'[g], account, slips'),
         \A v \in Workers : v # w /\ job[v].op # "none" =>
             /\ job[v].op # "create" => biz'[job[v].garage].sub = biz[job[v].garage].sub
             /\ job[v].op = "create" => biz'[job[v].garage].number = None
             /\ job[v].phase = "checked" => \A h \in Garages \ {job[v].garage} :
                    biz'[h].number = job[v].number => biz[h].number = job[v].number \/ job[v].number \in slips'
  PROVE  NumbersInv'
<1>1. /\ job' \in [Workers -> JobFields] /\ job'[w] = Provisioning!Idle
      /\ \A v \in Workers : v # w => job'[v] = job[v]
      /\ lock' \in [Garages -> Workers \union {None}]
      /\ \A v \in Workers : v # w => \A g \in Garages : lock[g] = v => lock'[g] = v
      /\ JobsAgree'
  BY JobEnds
<1>2. NumbersTyped'
  BY <1>1 DEF NumbersInv, NumbersTyped
<1>3. ASSUME NEW v \in Workers, v # w PROVE JobSound(v, job'[v], biz', account', trunks', lock', slips')
  <2>1. job'[v] = job[v] /\ JobSound(v, job[v], biz, account, trunks, lock, slips)
    BY <1>1, <1>3 DEF NumbersInv, JobsSound
  <2>2. CASE job[v].op = "none"
    BY <2>1, <2>2 DEF JobSound
  <2>3. CASE job[v].op # "none"
    <3>1. /\ job[v].op # "create" => biz'[job[v].garage].sub = biz[job[v].garage].sub
          /\ job[v].op = "create" => biz'[job[v].garage].number = None
          /\ job[v].phase = "checked" => \A h \in Garages \ {job[v].garage} :
                 biz'[h].number = job[v].number => biz[h].number = job[v].number \/ job[v].number \in slips'
      BY <1>3, <2>3
    <3>2. job[v].garage \in Garages
      BY <2>1, <2>3 DEF JobSound
    <3>3. Locks(job[v].op) /\ job[v].phase # "asked" => lock'[job[v].garage] = v
      BY <1>1, <1>3, <2>1, <2>3, <3>2 DEF JobSound
    <3>4. job[v].phase = "checked" => \A h \in Garages \ {job[v].garage} :
                 biz'[h].number = job[v].number => job[v].number \in slips'
      BY <2>1, <2>3, <3>1 DEF JobSound
    <3> QED
      BY <2>1, <2>3, <3>1, <3>2, <3>3, <3>4 DEF JobSound
  <2> QED
    BY <2>2, <2>3
<1>4. JobSound(w, job'[w], biz', account', trunks', lock', slips')
  BY <1>1, IdleJob DEF JobSound
<1> QED
  BY <1>1, <1>2, <1>3, <1>4 DEF NumbersInv, JobsSound

LEMMA StopOK == ASSUME NumbersInv, NEW w \in Workers, Provisioning!Stop(w) PROVE NumbersInv'
<1>1. Provisioning!Ends(w) /\ UNCHANGED <<account, trunks, biz, slips>>
  BY DEF Provisioning!Stop
<1>2. /\ biz \in [Garages -> BizRow] /\ slips \subseteq Numbers \union Subaccounts /\ RowsApart(biz)
      /\ \A g \in Garages : RowSound(biz[g], account, slips)
      /\ \A v \in Workers : JobSound(v, job[v], biz, account, trunks, lock, slips)
  BY DEF NumbersInv, NumbersTyped, JobsSound
<1>3. \A v \in Workers : job[v].op = "create" => biz[job[v].garage].number = None
  BY <1>2 DEF JobSound
<1> QED
  BY <1>1, <1>2, <1>3, EndLeaves

LEMMA CommitOK == ASSUME NumbersInv, NEW w \in Workers, Provisioning!Commit(w) PROVE NumbersInv'
<1> DEFINE J == job[w]  g == J.garage  n == J.number
<1>1. /\ J.phase = "done" /\ Provisioning!Ends(w) /\ UNCHANGED <<account, trunks>>
      /\ J.op \in Provisioning!Acquiring => ~Provisioning!ClaimedByOther(g, n)
      /\ J.op = "create" => \A h \in Garages \ {g} : biz[h].sub # J.sub
  BY DEF Provisioning!Commit
<1>2. /\ biz \in [Garages -> BizRow] /\ slips \subseteq Numbers \union Subaccounts /\ RowsApart(biz)
      /\ \A h \in Garages : RowSound(biz[h], account, slips) /\ biz[h] \in BizRow
      /\ \A v \in Workers : JobSound(v, job[v], biz, account, trunks, lock, slips)
      /\ J.op # "none"
  BY <1>1, IdleJob DEF NumbersInv, NumbersTyped, JobsSound, JobSound
<1>3. J \in JobFields /\ g \in Garages
  BY <1>2 DEF JobSound
<1>4. \A v \in Workers : job[v].op # "none" => job[v].garage \in Garages
  BY <1>2 DEF JobSound
<1>5. \A v \in Workers : job[v].op = "create" => biz[job[v].garage].number = None
  BY <1>2 DEF JobSound
<1>6. CASE Acquires(J.op)
  <2>1. /\ biz' = [biz EXCEPT ![g].number = n] /\ slips' = slips \union (Provisioning!BeingMoved \cap {n})
        /\ \A h \in Garages \ {g} : biz[h].number # n
    BY <1>1, <1>6 DEF Provisioning!Commit, Provisioning!ClaimedByOther, Provisioning!Acquiring, Acquires
  <2>2. n \in Numbers /\ J.sub \in Subaccounts /\ J.sub = biz[g].sub /\ account[n] = J.sub
    BY <1>1, <1>2, <1>6 DEF JobSound, Acquires
  <2>3. /\ biz' \in [Garages -> BizRow] /\ biz'[g].number = n /\ biz'[g].sub = biz[g].sub
        /\ \A h \in Garages : h # g => biz'[h] = biz[h]
    BY <1>2, <1>3, <2>1, <2>2 DEF BizRow
  <2>4. RowsApart(biz')
    BY <1>2, <2>3 DEF RowsApart
  <2>5. \A h \in Garages : RowSound(biz'[h], account, slips')
    BY <1>2, <2>1, <2>2, <2>3, NumbersDistinct DEF RowSound
  <2>6. ASSUME NEW v \in Workers, v # w, job[v].op # "none"
        PROVE  /\ job[v].op # "create" => biz'[job[v].garage].sub = biz[job[v].garage].sub
               /\ job[v].op = "create" => biz'[job[v].garage].number = None
               /\ job[v].phase = "checked" => \A h \in Garages \ {job[v].garage} :
                     biz'[h].number = job[v].number => biz[h].number = job[v].number \/ job[v].number \in slips'
    <3>1. job[v].op = "create" => job[v].garage # g
      BY <1>2, <1>6, <2>6 DEF NumbersInv, JobsAgree, Acquires
    <3>2. job[v].phase = "checked" => job[v].number \in Provisioning!BeingMoved
      BY DEF Provisioning!BeingMoved
    <3> QED
      BY <1>4, <1>5, <2>1, <2>3, <2>6, <3>1, <3>2
  <2> QED
    BY <1>1, <1>2, <2>1, <2>2, <2>3, <2>4, <2>5, <2>6, EndLeaves
<1>7. CASE J.op = "return"
  <2>1. biz' = [biz EXCEPT ![g].number = None] /\ slips' = slips
    BY <1>7 DEF Provisioning!Commit, Provisioning!Acquiring
  <2>2. /\ biz' \in [Garages -> BizRow] /\ biz'[g].number = None /\ biz'[g].sub = biz[g].sub
        /\ \A h \in Garages : h # g => biz'[h] = biz[h]
    BY <1>2, <1>3, <2>1 DEF BizRow
  <2>3. RowsApart(biz')
    BY <1>2, <2>2 DEF RowsApart
  <2>4. \A h \in Garages : RowSound(biz'[h], account, slips')
    BY <1>2, <2>1, <2>2 DEF RowSound
  <2>5. ASSUME NEW v \in Workers, v # w, job[v].op # "none"
        PROVE  /\ job[v].op # "create" => biz'[job[v].garage].sub = biz[job[v].garage].sub
               /\ job[v].op = "create" => biz'[job[v].garage].number = None
               /\ job[v].phase = "checked" => \A h \in Garages \ {job[v].garage} :
                     biz'[h].number = job[v].number => biz[h].number = job[v].number \/ job[v].number \in slips'
    <3>1. ASSUME job[v].phase = "checked", NEW h \in Garages, biz'[h].number = job[v].number
          PROVE  biz[h].number = job[v].number
      <4>1. job[v].number # None
        BY <1>2, <2>5, <3>1, NumbersDistinct DEF JobSound
      <4> QED
        BY <2>2, <3>1, <4>1
    <3> QED
      BY <1>4, <1>5, <2>2, <2>5, <3>1
  <2> QED
    BY <1>1, <1>2, <2>1, <2>2, <2>3, <2>4, <2>5, EndLeaves
<1>8. CASE J.op = "create"
  <2>1. biz' = [biz EXCEPT ![g].sub = J.sub] /\ slips' = slips \union ({biz[g].sub} \ {None})
    BY <1>8 DEF Provisioning!Commit, Provisioning!Acquiring
  <2>2. J.sub \in Subaccounts /\ biz[g].number = None /\ \A h \in Garages \ {g} : biz[h].sub # J.sub
    BY <1>1, <1>2, <1>8 DEF JobSound
  <2>3. /\ biz' \in [Garages -> BizRow] /\ biz'[g].number = None /\ biz'[g].sub = J.sub
        /\ \A h \in Garages : h # g => biz'[h] = biz[h]
    BY <1>2, <1>3, <2>1, <2>2 DEF BizRow
  <2>4. slips' \subseteq Numbers \union Subaccounts /\ slips \subseteq slips'
    BY <1>2, <1>3, <2>1 DEF BizRow
  <2>5. RowsApart(biz')
    BY <1>2, <2>2, <2>3 DEF RowsApart
  <2>6. \A h \in Garages : RowSound(biz'[h], account, slips')
    BY <1>2, <2>3, <2>4 DEF RowSound
  <2>7. ASSUME NEW v \in Workers, v # w, job[v].op # "none"
        PROVE  /\ job[v].op # "create" => biz'[job[v].garage].sub = biz[job[v].garage].sub
               /\ job[v].op = "create" => biz'[job[v].garage].number = None
               /\ job[v].phase = "checked" => \A h \in Garages \ {job[v].garage} :
                     biz'[h].number = job[v].number => biz[h].number = job[v].number \/ job[v].number \in slips'
    <3>1. job[v].op # "create" => job[v].garage # g
      BY <1>2, <1>8, <2>7 DEF NumbersInv, JobsAgree
    <3>2. \A h \in Garages : biz'[h].number = biz[h].number
      BY <2>2, <2>3
    <3> QED
      BY <1>4, <1>5, <2>3, <2>7, <3>1, <3>2
  <2> QED
    BY <1>1, <2>3, <2>4, <2>5, <2>6, <2>7, EndLeaves
<1>9. CASE J.op = "openai"
  <2>1. biz' = [biz EXCEPT ![g].openai = TRUE] /\ slips' = slips
    BY <1>9 DEF Provisioning!Commit, Provisioning!Acquiring
  <2>2. /\ biz' \in [Garages -> BizRow]
        /\ \A h \in Garages : biz'[h].sub = biz[h].sub /\ biz'[h].number = biz[h].number
    BY <1>2, <1>3, <2>1 DEF BizRow
  <2>3. RowsApart(biz')
    BY <1>2, <2>2 DEF RowsApart
  <2>4. \A h \in Garages : RowSound(biz'[h], account, slips')
    BY <1>2, <2>1, <2>2 DEF RowSound
  <2> QED
    BY <1>1, <1>2, <1>4, <1>5, <2>1, <2>2, <2>3, <2>4, EndLeaves
<1> QED
  BY <1>2, <1>3, <1>6, <1>7, <1>8, <1>9 DEF JobFields, Acquires

LEMMA AttachOK ==
  ASSUME NumbersInv, NEW g \in Garages, NEW s \in Subaccounts, Provisioning!AttachSubaccount(g, s)
  PROVE  NumbersInv'
<1>1. /\ biz[g].sub = None /\ (\A w \in Workers : job[w].garage # g) /\ \A h \in Garages : biz[h].sub # s
      /\ biz' = [biz EXCEPT ![g].sub = s] /\ UNCHANGED <<account, trunks, lock, job, slips>>
  BY DEF Provisioning!AttachSubaccount
<1>2. /\ biz \in [Garages -> BizRow] /\ RowsApart(biz)
      /\ \A h \in Garages : RowSound(biz[h], account, slips)
      /\ \A v \in Workers : JobSound(v, job[v], biz, account, trunks, lock, slips)
  BY DEF NumbersInv, NumbersTyped, JobsSound
<1>3. biz[g].number = None
  BY <1>1, <1>2 DEF RowSound
<1>4. /\ biz' \in [Garages -> BizRow] /\ biz'[g].number = None /\ biz'[g].sub = s
      /\ \A h \in Garages : h # g => biz'[h] = biz[h]
      /\ \A h \in Garages : biz'[h].number = biz[h].number
  BY <1>1, <1>2, <1>3 DEF BizRow
<1>5. RowsApart(biz')
  BY <1>1, <1>2, <1>4 DEF RowsApart
<1>6. \A h \in Garages : RowSound(biz'[h], account', slips')
  BY <1>1, <1>2, <1>4 DEF RowSound
<1>7. ASSUME NEW v \in Workers PROVE JobSound(v, job'[v], biz', account', trunks', lock', slips')
  <2>1. job'[v] = job[v] /\ job[v].garage # g /\ JobSound(v, job[v], biz, account, trunks, lock, slips)
    BY <1>1, <1>2
  <2> QED
    BY <1>1, <1>4, <2>1 DEF JobSound
<1>8. NumbersTyped' /\ JobsAgree'
  BY <1>1, <1>4 DEF NumbersInv, NumbersTyped, JobsAgree
<1> QED
  BY <1>5, <1>6, <1>7, <1>8 DEF NumbersInv, JobsSound

LEMMA StartOK ==
  ASSUME NumbersInv, NEW w \in Workers, NEW op \in {"buy", "adopt", "transfer", "openai", "return", "create"},
         NEW g \in Garages, NEW n \in Numbers \union {None}, Provisioning!Start(w, op, g, n)
  PROVE  NumbersInv'
<1> DEFINE new == [op |-> op, garage |-> g, sub |-> biz[g].sub, number |-> n, phase |-> "asked"]
<1>1. /\ \A v \in Workers : job[v].garage = g => job[v].op = op /\ job[v].number = n
      /\ job' = [job EXCEPT ![w] = new] /\ UNCHANGED <<account, trunks, biz, lock, slips>>
  BY DEF Provisioning!Start
<1>2. /\ Acquires(op) => biz[g].sub # None /\ n # None
      /\ op \in {"return", "openai"} => biz[g].number # None /\ n = biz[g].number
      /\ op = "create" => biz[g].sub = None
  BY DEF Provisioning!Start, Provisioning!Acquiring, Acquires
<1>3. /\ biz[g] \in BizRow /\ RowSound(biz[g], account, slips) /\ job \in [Workers -> JobFields]
      /\ \A v \in Workers : JobSound(v, job[v], biz, account, trunks, lock, slips)
  BY DEF NumbersInv, NumbersTyped, JobsSound
<1>4. new \in JobFields
  BY <1>3 DEF JobFields, BizRow
<1>5. /\ new.op = op /\ new.garage = g /\ new.sub = biz[g].sub /\ new.number = n /\ new.phase = "asked"
  OBVIOUS
<1> HIDE DEF new
<1>6. /\ job' \in [Workers -> JobFields] /\ job'[w] = new /\ \A v \in Workers : v # w => job'[v] = job[v]
  BY <1>1, <1>3, <1>4
<1>7. op # "create" => n \in Numbers /\ biz[g].sub \in Subaccounts
  BY <1>2, <1>3 DEF RowSound, BizRow, Acquires
<1>8. op = "create" => biz[g].number = None
  BY <1>2, <1>3 DEF RowSound
<1>9. new # Provisioning!Idle
  BY <1>5, IdleJob
<1>10. JobSound(w, job'[w], biz', account', trunks', lock', slips')
  BY <1>1, <1>4, <1>5, <1>6, <1>7, <1>8, <1>9 DEF JobSound
<1>11. \A v \in Workers : v # w => JobSound(v, job'[v], biz', account', trunks', lock', slips')
  BY <1>1, <1>3, <1>6
<1>12. JobsAgree'
  <2> SUFFICES ASSUME NEW u \in Workers, NEW v \in Workers, job'[u].op # "none", job'[v].op # "none",
                      job'[u].garage = job'[v].garage
               PROVE  job'[u].op = job'[v].op
    BY DEF JobsAgree
  <2>1. CASE u # w /\ v # w
    BY <1>6, <2>1 DEF NumbersInv, JobsAgree
  <2>2. CASE u = w /\ v # w
    BY <1>1, <1>5, <1>6, <2>2
  <2>3. CASE u # w /\ v = w
    BY <1>1, <1>5, <1>6, <2>3
  <2> QED
    BY <2>1, <2>2, <2>3
<1>13. NumbersTyped'
  BY <1>1, <1>6 DEF NumbersInv, NumbersTyped
<1> QED
  BY <1>1, <1>10, <1>11, <1>12, <1>13 DEF NumbersInv, JobsSound

LEMMA NumbersStepOK == NumbersInv /\ [Provisioning!Next]_(Provisioning!numberVars) => NumbersInv'
<1> SUFFICES ASSUME NumbersInv, [Provisioning!Next]_(Provisioning!numberVars) PROVE NumbersInv'
  OBVIOUS
<1>1. CASE UNCHANGED Provisioning!numberVars
  <2>1. UNCHANGED <<account, trunks, biz, lock, job, slips>>
    BY <1>1 DEF Provisioning!numberVars
  <2> QED
    BY <2>1 DEF NumbersInv, NumbersTyped, JobsSound, JobsAgree
<1>2. CASE Provisioning!Next
  <2>1. Provisioning!Locking \union {"return", "create"}
            = {"buy", "adopt", "transfer", "openai", "return", "create"}
    BY DEF Provisioning!Locking, Provisioning!Acquiring
  <2> QED
    BY <1>2, <2>1, LookOK, TwilioOK, CreateTrunkOK, CreateSubaccountOK, CommitOK, StopOK, AttachOK, StartOK
    DEF Provisioning!Next
<1> QED
  BY <1>1, <1>2

\* For any number of workers, businesses, numbers and subaccounts: no call is answered for the
\* wrong business, but in the two windows that slips records, and nothing is made twice at Twilio
\* or at the carrier for a press that was refused, repeated or cut short.
THEOREM NothingGetsMixedUp == Spec => []NothingIsMixedUp
<1> DEFINE Inv == (focus = "numbers" => NumbersInv) /\ (focus = "carrier" => CarrierInv)
<1>1. Init => Inv
  BY NumbersInitOK, CarrierInitOK DEF Init
<1>2. Inv /\ [Next]_vars => Inv'
  <2> SUFFICES ASSUME Inv, [Next]_vars PROVE Inv'
    OBVIOUS
  <2>1. ASSUME focus' = "numbers" PROVE NumbersInv'
    <3> focus = "numbers" /\ [Provisioning!Next]_(Provisioning!numberVars)
      BY <2>1 DEF Next, vars, twilioVars, numberVars, Provisioning!numberVars, LoyaltyStep, RemindersStep,
                  ImportsStep, NumbersStep, ChannelsStep, CarrierStep, TenantsStep, StripeStep, SquareStep,
                  AccessStep, ImagesStep
    <3> QED
      BY NumbersStepOK
  <2>2. ASSUME focus' = "carrier" PROVE CarrierInv'
    <3> focus = "carrier" /\ [Carrier!Next]_(Carrier!carrierVars)
      BY <2>2 DEF Next, vars, twilioVars, carrierVars, Carrier!carrierVars, LoyaltyStep, RemindersStep,
                  ImportsStep, NumbersStep, ChannelsStep, CarrierStep, TenantsStep, StripeStep, SquareStep,
                  AccessStep, ImagesStep
    <3> QED
      BY CarrierStepOK
  <2> QED
    BY <2>1, <2>2
<1>3. Inv => NothingIsMixedUp
  BY NumbersHold, CarrierHolds DEF NothingIsMixedUp
<1> QED
  BY <1>1, <1>2, <1>3, PTL DEF Spec

-----------------------------------------------------------------------------
(* The pictures of a service. What a request is about to show, it holds alone or excused. *)
Holds(t, k) == t \in Images!PictureTask /\ k \in {t.key, t.seen}
Waiting(t) == /\ t \in Images!PictureTask /\ t.op = "finalize"
              /\ t.step # "committed" /\ t.key # t.seen
Cleaning(t, k) == /\ t \in Images!PictureTask /\ t.step = "committed"
                  /\ k = t.seen /\ k # t.key
KeyFits(t) == /\ t.op = "finalize" => t.key \in Pictures
              /\ t.op \in {"clear", "delete"} => t.key = None
WaitsAlone(T, img, exc) ==
    \A w \in Workers : Waiting(T[w]) =>
        \/ T[w].key \in exc
        \/ img # T[w].key /\ \A v \in Workers \ {w} : ~Holds(T[v], T[w].key)
CleansUnshown(T, img, exc) ==
    \A w \in Workers, k \in Pictures : Cleaning(T[w], k) /\ img = k => k \in exc
CheckedIsThere(T, objects, exc) ==
    \A w \in Workers : Waiting(T[w]) /\ T[w].step = "checked" =>
        objects[T[w].key] = "good" \/ T[w].key \in exc
ShownIsThere(img, objects, exc) == img \in Pictures => img \in exc \/ objects[img] = "good"
Detaching(t, k) == t.op = "detach" /\ t.key = k
Attaching(t, k) == t.op = "attach" /\ t.key = k
MediaStand(T, rows, objects, exc) ==
    \A k \in Media :
       \/ rows[k] = "uploaded"
       \/ rows[k] = "pending" /\ \E w \in Workers : Attaching(T[w], k)
       => k \in exc \/ objects[k] # "none" \/ \E w \in Workers : Detaching(T[w], k)
MediaTicketed(T, rows, given) ==
    \A k \in Media :
       rows[k] # "none" \/ (\E w \in Workers : Attaching(T[w], k) \/ Detaching(T[w], k)) => k \in given
OneOnRow(T, img, acc) ==
    ~acc => /\ \A v, w \in Workers : T[v] \in Images!PictureTask /\ T[w] \in Images!PictureTask => v = w
            /\ \A w \in Workers : T[w] \in Images!PictureTask /\ T[w].step # "committed" => T[w].seen = img
RetiredGoes(T, objects, ret, acc) ==
    ~acc => \A k \in Pictures \cap ret : objects[k] = "none" \/ \E w \in Workers : Cleaning(T[w], k)
ImagesInv ==
    /\ Images!TypeOK /\ \A w \in Workers : KeyFits(upload[w])
    /\ WaitsAlone(upload, image, excused)
    /\ CleansUnshown(upload, image, excused)
    /\ CheckedIsThere(upload, bucket, excused)
    /\ ShownIsThere(image, bucket, excused)
    /\ MediaStand(upload, media, bucket, excused)
    /\ MediaTicketed(upload, media, tickets)
    /\ OneOnRow(upload, image, accident)
    /\ RetiredGoes(upload, bucket, retired, accident)
    /\ image \in Pictures => image \notin retired

\* Every request is one of its two kinds, or none.
Jobs == {Images!Idle} \union Images!PictureTask \union Images!MediaTask
LEMMA JobKinds ==
  ASSUME NEW t \in Jobs
  PROVE  /\ t \in Images!PictureTask <=> t.op \in {"finalize", "clear", "delete"}
         /\ t \in Images!MediaTask <=> t.op \in {"attach", "detach"}
         /\ t \in Images!PictureTask => /\ t.key \in Pictures \union {None}
                                        /\ t.seen \in Pictures \union {None}
                                        /\ t.step \in {"loaded", "checked", "committed"}
         /\ t \in Images!MediaTask => t.key \in Media
         /\ ~(t \in Images!PictureTask /\ t \in Images!MediaTask)
  BY DEF Jobs, Images!Idle, Images!PictureTask, Images!MediaTask

LEMMA IdleUpload == /\ Images!Idle \in Jobs /\ Images!Idle.op = "none"
                    /\ Images!Idle \notin Images!PictureTask /\ Images!Idle \notin Images!MediaTask
                    /\ KeyFits(Images!Idle)
  BY DEF Jobs, Images!Idle, Images!PictureTask, Images!MediaTask, KeyFits

LEMMA FilesApart == /\ Pictures \cap Media = {} /\ None \notin Pictures /\ "gone" \notin Pictures
                    /\ None \notin Media /\ "gone" \notin Media
  BY FilesAssumption

LEMMA UploadTypes ==
  ASSUME Images!TypeOK
  PROVE  /\ image \in Pictures \union {None, "gone"} /\ tickets \subseteq Pictures \union Media
         /\ bucket \in [Pictures \union Media -> {"none", "good", "bad"}]
         /\ media \in [Media -> {"none", "pending", "uploaded", "deleted"}]
         /\ upload \in [Workers -> Jobs] /\ retired \subseteq Pictures \union Media
         /\ excused \subseteq Pictures \union Media /\ accident \in BOOLEAN
  BY DEF Images!TypeOK, Images!Files, Images!Content, Jobs

LEMMA UploadTyped ==
  ASSUME image' \in Pictures \union {None, "gone"}, tickets' \subseteq Pictures \union Media,
         bucket' \in [Pictures \union Media -> {"none", "good", "bad"}],
         media' \in [Media -> {"none", "pending", "uploaded", "deleted"}],
         upload' \in [Workers -> Jobs], retired' \subseteq Pictures \union Media,
         excused' \subseteq Pictures \union Media, accident' \in BOOLEAN
  PROVE  Images!TypeOK'
  BY DEF Images!TypeOK, Images!Files, Images!Content, Jobs

LEMMA ImagesInitOK == Images!Init => ImagesInv
<1> SUFFICES ASSUME Images!Init PROVE ImagesInv
  OBVIOUS
<1>1. /\ image = None /\ tickets = {} /\ bucket = [k \in Pictures \union Media |-> "none"]
      /\ media = [k \in Media |-> "none"] /\ upload = [w \in Workers |-> Images!Idle]
      /\ retired = {} /\ accident = FALSE /\ excused = {}
  BY DEF Images!Init, Images!Files
<1>2. Images!TypeOK
  BY <1>1, IdleUpload DEF Images!TypeOK, Images!Files, Images!Content, Jobs
<1>3. \A w \in Workers : upload[w] = Images!Idle
  BY <1>1
<1>4. MediaStand(upload, media, bucket, excused) /\ MediaTicketed(upload, media, tickets)
  BY <1>1, <1>3, IdleUpload DEF MediaStand, MediaTicketed, Attaching, Detaching
<1> QED
  BY <1>1, <1>2, <1>3, <1>4, IdleUpload, FilesApart
     DEF ImagesInv, WaitsAlone, CleansUnshown, CheckedIsThere, ShownIsThere, OneOnRow, RetiredGoes,
         Waiting, Cleaning

LEMMA ImagesHold == ImagesInv => Images!TypeOK /\ Images!ShownFilesExist /\ Images!NothingIsLeftBehind
<1> SUFFICES ASSUME ImagesInv
             PROVE  Images!TypeOK /\ Images!ShownFilesExist /\ Images!NothingIsLeftBehind
  OBVIOUS
<1>1. Images!ShownFilesExist
  BY DEF ImagesInv, Images!ShownFilesExist, ShownIsThere, MediaStand, Detaching
<1>2. Images!NothingIsLeftBehind
  <2> SUFFICES ASSUME ~accident, NEW k \in Pictures \cap retired, bucket[k] # "none"
               PROVE  \E w \in Workers : Images!OnRow(w) /\ k \in Images!Replaced(upload[w])
    BY DEF Images!NothingIsLeftBehind
  <2>1. PICK w \in Workers : Cleaning(upload[w], k)
    BY DEF ImagesInv, RetiredGoes
  <2>2. k # None
    BY FilesApart
  <2> QED
    BY <2>1, <2>2 DEF Cleaning, Images!OnRow, Images!Replaced
<1> QED
  BY <1>1, <1>2 DEF ImagesInv

-----------------------------------------------------------------------------
\* What a request that ends leaves as it was, when it had nothing to clean up or detach.
LEMMA UploadEnds ==
  ASSUME NEW T \in [Workers -> Jobs], NEW w \in Workers, NEW img, NEW acc, NEW exc, NEW rows, NEW objects,
         NEW given, NEW ret
  PROVE  LET U == [T EXCEPT ![w] = Images!Idle] IN
         /\ U \in [Workers -> Jobs]
         /\ (\A v \in Workers : KeyFits(T[v])) => \A v \in Workers : KeyFits(U[v])
         /\ WaitsAlone(T, img, exc) => WaitsAlone(U, img, exc)
         /\ CleansUnshown(T, img, exc) => CleansUnshown(U, img, exc)
         /\ CheckedIsThere(T, objects, exc) => CheckedIsThere(U, objects, exc)
         /\ MediaTicketed(T, rows, given) => MediaTicketed(U, rows, given)
         /\ OneOnRow(T, img, acc) => OneOnRow(U, img, acc)
         /\ T[w].op # "detach" /\ MediaStand(T, rows, objects, exc) => MediaStand(U, rows, objects, exc)
         /\ (/\ ~(T[w] \in Images!PictureTask /\ T[w].step = "committed")
             /\ RetiredGoes(T, objects, ret, acc)) => RetiredGoes(U, objects, ret, acc)
<1> DEFINE U == [T EXCEPT ![w] = Images!Idle]
<1>1. U \in [Workers -> Jobs] /\ U[w] = Images!Idle /\ \A v \in Workers \ {w} : U[v] = T[v]
  BY IdleUpload
<1> HIDE DEF U
<1>2. (\A v \in Workers : KeyFits(T[v])) => \A v \in Workers : KeyFits(U[v])
  BY <1>1, IdleUpload
<1>3. WaitsAlone(T, img, exc) => WaitsAlone(U, img, exc)
  BY <1>1, IdleUpload DEF WaitsAlone, Waiting, Holds
<1>4. /\ CleansUnshown(T, img, exc) => CleansUnshown(U, img, exc)
      /\ CheckedIsThere(T, objects, exc) => CheckedIsThere(U, objects, exc)
  BY <1>1, IdleUpload DEF CleansUnshown, CheckedIsThere, Waiting, Cleaning
<1>5. MediaTicketed(T, rows, given) => MediaTicketed(U, rows, given)
  BY <1>1, IdleUpload DEF MediaTicketed, Attaching, Detaching
<1>6. OneOnRow(T, img, acc) => OneOnRow(U, img, acc)
  BY <1>1, IdleUpload DEF OneOnRow
<1>7. T[w].op # "detach" /\ MediaStand(T, rows, objects, exc) => MediaStand(U, rows, objects, exc)
  BY <1>1, IdleUpload DEF MediaStand, Attaching, Detaching
<1>8. (/\ ~(T[w] \in Images!PictureTask /\ T[w].step = "committed")
       /\ RetiredGoes(T, objects, ret, acc)) => RetiredGoes(U, objects, ret, acc)
  BY <1>1, IdleUpload DEF RetiredGoes, Cleaning
<1> QED
  BY <1>1, <1>2, <1>3, <1>4, <1>5, <1>6, <1>7, <1>8 DEF U

\* To excuse more keeps what was true.
LEMMA Excuse ==
  ASSUME NEW T, NEW img, NEW exc, NEW more, exc \subseteq more, NEW rows, NEW objects
  PROVE  /\ WaitsAlone(T, img, exc) => WaitsAlone(T, img, more)
         /\ CleansUnshown(T, img, exc) => CleansUnshown(T, img, more)
         /\ CheckedIsThere(T, objects, exc) => CheckedIsThere(T, objects, more)
         /\ ShownIsThere(img, objects, exc) => ShownIsThere(img, objects, more)
         /\ MediaStand(T, rows, objects, exc) => MediaStand(T, rows, objects, more)
  BY DEF WaitsAlone, CleansUnshown, CheckedIsThere, ShownIsThere, MediaStand

\* The parts of the invariant, taken together.
LEMMA ImagesParts ==
  ASSUME Images!TypeOK', \A w \in Workers : KeyFits(upload'[w]),
         WaitsAlone(upload', image', excused'), CleansUnshown(upload', image', excused'),
         CheckedIsThere(upload', bucket', excused'), ShownIsThere(image', bucket', excused'),
         MediaStand(upload', media', bucket', excused'), MediaTicketed(upload', media', tickets'),
         OneOnRow(upload', image', accident'), RetiredGoes(upload', bucket', retired', accident'),
         image' \in Pictures => image' \notin retired'
  PROVE  ImagesInv'
  BY DEF ImagesInv, WaitsAlone, CleansUnshown, CheckedIsThere, ShownIsThere, MediaStand, MediaTicketed,
         OneOnRow, RetiredGoes

LEMMA TicketOK == ASSUME ImagesInv, NEW k \in Pictures \union Media, Images!Ticket(k) PROVE ImagesInv'
<1>1. /\ k \notin tickets /\ tickets' = tickets \union {k}
      /\ media' = IF k \in Media THEN [media EXCEPT ![k] = "pending"] ELSE media
      /\ image' = image /\ bucket' = bucket /\ upload' = upload /\ retired' = retired
      /\ accident' = accident /\ excused' = excused
  BY DEF Images!Ticket
<1>2. Images!TypeOK'
  <2>1. Images!TypeOK
    BY DEF ImagesInv
  <2>2. media' \in [Media -> {"none", "pending", "uploaded", "deleted"}]
    BY <1>1, <2>1, UploadTypes
  <2> QED
    BY <1>1, <2>1, <2>2, UploadTypes, UploadTyped
<1>3. media \in [Media -> {"none", "pending", "uploaded", "deleted"}]
  BY UploadTypes DEF ImagesInv
<1>4. MediaTicketed(upload, media', tickets')
  BY <1>1, <1>3 DEF ImagesInv, MediaTicketed
<1>5. MediaStand(upload, media', bucket, excused)
  BY <1>1, <1>3 DEF ImagesInv, MediaStand, MediaTicketed
<1> QED
  BY <1>1, <1>2, <1>4, <1>5, ImagesParts DEF ImagesInv

LEMMA PutOK ==
  ASSUME ImagesInv, NEW k \in Pictures \union Media, NEW content \in Images!Content, Images!Put(k, content)
  PROVE  ImagesInv'
<1>1. /\ k \in tickets \ retired /\ content # "none" /\ content \in {"none", "good", "bad"}
      /\ bucket' = [bucket EXCEPT ![k] = content]
      /\ excused' = IF bucket[k] = "good" /\ content = "bad" THEN excused \union {k} ELSE excused
      /\ image' = image /\ tickets' = tickets /\ upload' = upload /\ retired' = retired
      /\ accident' = accident /\ media' = media
  BY DEF Images!Put, Images!Content
<1>2. Images!TypeOK
  BY DEF ImagesInv
<1>3. /\ bucket \in [Pictures \union Media -> {"none", "good", "bad"}]
      /\ bucket' \in [Pictures \union Media -> {"none", "good", "bad"}]
      /\ bucket'[k] = content /\ \A o \in (Pictures \union Media) \ {k} : bucket'[o] = bucket[o]
  BY <1>1, <1>2, UploadTypes
<1>4. Images!TypeOK'
  BY <1>1, <1>2, <1>3, UploadTypes, UploadTyped
<1>5. WaitsAlone(upload, image, excused') /\ CleansUnshown(upload, image, excused')
  BY <1>1, Excuse DEF ImagesInv
<1>6. \A w \in Workers : Waiting(upload[w]) => upload[w].key \in Pictures
  BY DEF ImagesInv, Waiting, KeyFits
<1>7. CheckedIsThere(upload, bucket', excused') /\ ShownIsThere(image, bucket', excused')
  BY <1>1, <1>3, <1>6 DEF ImagesInv, CheckedIsThere, ShownIsThere
<1>8. MediaStand(upload, media, bucket', excused')
  BY <1>1, <1>3, FilesApart DEF ImagesInv, MediaStand
<1>9. RetiredGoes(upload, bucket', retired, accident)
  BY <1>1, <1>3 DEF ImagesInv, RetiredGoes
<1> QED
  BY <1>1, <1>4, <1>5, <1>7, <1>8, <1>9, ImagesParts DEF ImagesInv

\* A request is loaded, or a medium's is begun.
LEMMA LoadOK ==
  ASSUME ImagesInv, NEW w \in Workers, NEW op \in {"finalize", "clear", "delete"},
         NEW k \in Pictures \union {None}, op = "finalize" => k \in Pictures,
         op # "finalize" => k = None, Images!Load(w, op, k)
  PROVE  ImagesInv'
<1> DEFINE new == [op |-> op, key |-> k, seen |-> image, step |-> "loaded"]
<1>1. /\ upload[w] = Images!Idle /\ image # "gone" /\ upload' = [upload EXCEPT ![w] = new]
      /\ accident' = (accident \/ \E v \in Workers : upload[v] \in Images!PictureTask)
      /\ excused' = excused \union {q \in ({k} \ {None}) : \E v \in Workers :
                         upload[v] \in Images!PictureTask /\ q \in {upload[v].key, upload[v].seen}}
      /\ image' = image /\ bucket' = bucket /\ tickets' = tickets /\ media' = media
      /\ retired' = retired
  BY DEF Images!Load, Images!OnRow
<1>2. Images!TypeOK
  BY DEF ImagesInv
<1>3. /\ new \in Images!PictureTask /\ new \in Jobs /\ KeyFits(new) /\ new.key = k
      /\ new.seen = image /\ new.step = "loaded" /\ new.op = op
  BY <1>1, <1>2, UploadTypes DEF Images!PictureTask, Jobs, KeyFits
<1> HIDE DEF new
<1>4. /\ upload' \in [Workers -> Jobs] /\ upload'[w] = new
      /\ \A v \in Workers \ {w} : upload'[v] = upload[v]
  BY <1>1, <1>2, <1>3, UploadTypes
<1>5. Images!TypeOK'
  <2>1. excused' \subseteq Pictures \union Media /\ accident' \in BOOLEAN
    BY <1>1, <1>2, UploadTypes
  <2> QED
    BY <1>1, <1>2, <1>4, <2>1, UploadTypes, UploadTyped
<1>6. \A v \in Workers : KeyFits(upload'[v])
  BY <1>3, <1>4 DEF ImagesInv
<1>7. WaitsAlone(upload', image, excused')
  <2> SUFFICES ASSUME NEW v \in Workers, Waiting(upload'[v]), upload'[v].key \notin excused'
               PROVE  image # upload'[v].key /\ \A u \in Workers \ {v} : ~Holds(upload'[u], upload'[v].key)
    BY DEF WaitsAlone
  <2>0. /\ excused \subseteq excused'
        /\ \A u \in Workers \ {w} : upload[u] \in Images!PictureTask =>
              k \notin {upload[u].key, upload[u].seen} \/ k \in excused' \union {None}
    BY <1>1
  <2>1. CASE v = w
    <3>1. upload'[v] = new /\ k # image /\ op = "finalize" /\ k \in Pictures /\ k \notin excused'
      BY <1>3, <1>4, <2>1 DEF Waiting
    <3> QED
      BY <3>1, <1>3, <1>4, <2>1, <2>0, FilesApart DEF Holds
  <2>2. CASE v # w
    <3>1. /\ upload'[v] = upload[v] /\ Waiting(upload[v]) /\ upload[v].key \notin excused
          /\ upload[v].key \in Pictures /\ upload[v] \in Images!PictureTask
      BY <1>4, <2>2, <2>0 DEF Waiting, ImagesInv, KeyFits
    <3>2. image # upload[v].key /\ \A u \in Workers \ {v} : ~Holds(upload[u], upload[v].key)
      BY <3>1 DEF ImagesInv, WaitsAlone
    <3>3. k # upload[v].key
      BY <3>1, <2>0, <2>2, FilesApart
    <3> QED
      BY <3>1, <3>2, <3>3, <1>3, <1>4 DEF Holds
  <2> QED
    BY <2>1, <2>2
<1>8. CleansUnshown(upload', image, excused') /\ CheckedIsThere(upload', bucket, excused')
  BY <1>1, <1>3, <1>4 DEF ImagesInv, CleansUnshown, CheckedIsThere, Waiting, Cleaning
<1>9. ShownIsThere(image, bucket, excused')
  BY <1>1, Excuse DEF ImagesInv
<1>10. MediaStand(upload', media, bucket, excused') /\ MediaTicketed(upload', media, tickets)
  BY <1>1, <1>3, <1>4, IdleUpload DEF ImagesInv, MediaStand, MediaTicketed, Attaching, Detaching
<1>11. OneOnRow(upload', image, accident')
  BY <1>1, <1>3, <1>4 DEF ImagesInv, OneOnRow
<1>12. RetiredGoes(upload', bucket, retired, accident')
  BY <1>1, <1>4, IdleUpload DEF ImagesInv, RetiredGoes, Cleaning
<1> QED
  BY <1>1, <1>5, <1>6, <1>7, <1>8, <1>9, <1>10, <1>11, <1>12, ImagesParts DEF ImagesInv

\* A picture that is asked for in the bucket is there, or its request ends.
LEMMA CheckOK == ASSUME ImagesInv, NEW w \in Workers, Images!Check(w) PROVE ImagesInv'
<1> DEFINE k == upload[w].key
           new == [upload[w] EXCEPT !.step = "checked"]
<1>1. /\ upload[w].op = "finalize" /\ upload[w].step = "loaded"
      /\ bucket' = [bucket EXCEPT ![k] = IF bucket[k] = "bad" THEN "none" ELSE bucket[k]]
      /\ upload' = [upload EXCEPT ![w] = IF bucket[k] = "good" THEN new ELSE Images!Idle]
      /\ image' = image /\ tickets' = tickets /\ media' = media /\ retired' = retired
      /\ accident' = accident /\ excused' = excused
  BY DEF Images!Check, Images!Step, Images!Done
<1>2. Images!TypeOK
  BY DEF ImagesInv
<1>3. upload[w] \in Jobs /\ upload[w] \in Images!PictureTask /\ k \in Pictures
  BY <1>1, <1>2, UploadTypes, JobKinds DEF ImagesInv, KeyFits
<1>4. /\ new \in Images!PictureTask /\ new \in Jobs /\ KeyFits(new) /\ new.key = k /\ new.op = "finalize"
      /\ new.seen = upload[w].seen /\ new.step = "checked"
  BY <1>1, <1>3 DEF Images!PictureTask, Jobs, KeyFits
<1>5. /\ bucket \in [Pictures \union Media -> {"none", "good", "bad"}]
      /\ bucket' \in [Pictures \union Media -> {"none", "good", "bad"}]
      /\ \A o \in Pictures \union Media :
            bucket'[o] # bucket[o] => o = k /\ bucket[k] = "bad" /\ bucket'[k] = "none"
  BY <1>1, <1>2, <1>3, UploadTypes
<1> DEFINE mid == [upload EXCEPT ![w] = new]
<1>6. /\ mid \in [Workers -> Jobs] /\ mid[w] = new /\ \A v \in Workers \ {w} : mid[v] = upload[v]
  BY <1>2, <1>4, UploadTypes
<1> HIDE DEF new, mid, k
<1>7. ShownIsThere(image, bucket', excused) /\ RetiredGoes(upload, bucket', retired, accident)
      /\ MediaStand(upload, media, bucket', excused) /\ CheckedIsThere(upload, bucket', excused)
  <2>1. ShownIsThere(image, bucket', excused) /\ RetiredGoes(upload, bucket', retired, accident)
    BY <1>5 DEF ImagesInv, ShownIsThere, RetiredGoes
  <2>2. MediaStand(upload, media, bucket', excused)
    BY <1>3, <1>5, FilesApart DEF ImagesInv, MediaStand
  <2>3. \A v \in Workers : Waiting(upload[v]) => upload[v].key \in Pictures
    BY DEF ImagesInv, Waiting, KeyFits
  <2>4. CheckedIsThere(upload, bucket', excused)
    BY <1>5, <2>3 DEF ImagesInv, CheckedIsThere
  <2> QED
    BY <2>1, <2>2, <2>4
<1>8. CASE bucket[k] = "good"
  <2>1. upload' = mid
    BY <1>1, <1>8 DEF mid, new, k
  <2>2. Images!TypeOK'
    BY <1>1, <1>2, <1>5, <1>6, <2>1, UploadTypes, UploadTyped
  <2>3. (\A v \in Workers : KeyFits(mid[v])) /\ WaitsAlone(mid, image, excused)
    <3>1. Waiting(new) => Waiting(upload[w])
      BY <1>1, <1>3, <1>4 DEF Waiting, k
    <3>2. \A q : Holds(new, q) => Holds(upload[w], q)
      BY <1>1, <1>3, <1>4 DEF Holds, k
    <3> QED
      BY <1>4, <1>6, <3>1, <3>2 DEF ImagesInv, WaitsAlone, k
  <2>4. CleansUnshown(mid, image, excused)
    BY <1>4, <1>6 DEF ImagesInv, CleansUnshown, Cleaning
  <2>5. CheckedIsThere(mid, bucket', excused)
    BY <1>4, <1>5, <1>6, <1>7, <1>8, <1>3 DEF CheckedIsThere
  <2>6. MediaStand(mid, media, bucket', excused) /\ MediaTicketed(mid, media, tickets)
    BY <1>1, <1>4, <1>6, <1>7 DEF ImagesInv, MediaStand, MediaTicketed, Attaching, Detaching
  <2>7. OneOnRow(mid, image, accident)
    BY <1>1, <1>3, <1>4, <1>6 DEF ImagesInv, OneOnRow
  <2>8. RetiredGoes(mid, bucket', retired, accident)
    BY <1>1, <1>3, <1>6, <1>7 DEF RetiredGoes, Cleaning
  <2> QED
    BY <1>1, <1>7, <2>1, <2>2, <2>3, <2>4, <2>5, <2>6, <2>7, <2>8, ImagesParts DEF ImagesInv
<1>9. CASE bucket[k] # "good"
  <2>1. upload' = [upload EXCEPT ![w] = Images!Idle] /\ upload[w].op # "detach" /\ upload[w].step # "committed"
    BY <1>1, <1>9 DEF k
  <2>2. upload \in [Workers -> Jobs]
    BY <1>2, UploadTypes
  <2>3. upload' \in [Workers -> Jobs]
    BY <2>1, <2>2, UploadEnds
  <2>4. Images!TypeOK'
    BY <1>1, <1>2, <1>5, <2>3, UploadTypes, UploadTyped
  <2>5. \A v \in Workers : KeyFits(upload'[v])
    BY <2>1, <2>2, UploadEnds DEF ImagesInv
  <2>6. WaitsAlone(upload', image, excused) /\ CleansUnshown(upload', image, excused)
    BY <2>1, <2>2, UploadEnds DEF ImagesInv
  <2>7. CheckedIsThere(upload', bucket', excused) /\ MediaStand(upload', media, bucket', excused)
    BY <1>7, <2>1, <2>2, UploadEnds
  <2>8. MediaTicketed(upload', media, tickets) /\ OneOnRow(upload', image, accident)
    BY <2>1, <2>2, UploadEnds DEF ImagesInv
  <2>9. RetiredGoes(upload', bucket', retired, accident)
    BY <1>7, <2>1, <2>2, UploadEnds
  <2> QED
    BY <1>1, <1>7, <2>4, <2>5, <2>6, <2>7, <2>8, <2>9, ImagesParts DEF ImagesInv
<1> QED
  BY <1>8, <1>9

\* The row is written with what the request makes of it.
LEMMA CommitPictureOK == ASSUME ImagesInv, NEW w \in Workers, Images!Commit(w) PROVE ImagesInv'
<1> DEFINE t == upload[w]
           new == [t EXCEPT !.step = "committed"]
<1>1. /\ t \in Images!PictureTask /\ t.step = (IF t.op = "finalize" THEN "checked" ELSE "loaded")
      /\ t.step # "committed"
      /\ IF image = "gone" THEN Images!Done(w) /\ UNCHANGED <<image, retired>>
         ELSE /\ image' = Images!Written(t)
              /\ retired' = (retired \union ({image} \ {None})) \ {image'}
              /\ IF Images!Replaced(t) = {} THEN Images!Done(w) ELSE Images!Step(w, "committed")
      /\ bucket' = bucket /\ tickets' = tickets /\ media' = media
      /\ accident' = accident /\ excused' = excused
  BY DEF Images!Commit, Images!OnRow
<1>2. Images!TypeOK
  BY DEF ImagesInv
<1>3. /\ t \in Jobs /\ KeyFits(t) /\ t.op \in {"finalize", "clear", "delete"}
      /\ t.key \in Pictures \union {None} /\ t.seen \in Pictures \union {None}
  BY <1>1, <1>2, UploadTypes, JobKinds DEF ImagesInv
<1>4. /\ new \in Images!PictureTask /\ new \in Jobs /\ KeyFits(new) /\ new.key = t.key
      /\ new.op = t.op /\ new.seen = t.seen /\ new.step = "committed"
  BY <1>1, <1>3 DEF Images!PictureTask, Jobs, KeyFits
<1>5. Images!Written(t) = IF t.op = "clear" THEN None ELSE IF t.op = "delete" THEN "gone"
                          ELSE IF t.key = t.seen THEN image ELSE t.key
  BY <1>3 DEF Images!Written
<1>6. Images!Replaced(t) = {t.seen} \ {t.key, None}
  BY DEF Images!Replaced
<1> DEFINE mid == [upload EXCEPT ![w] = new]
           end == [upload EXCEPT ![w] = Images!Idle]
<1>7. /\ mid \in [Workers -> Jobs] /\ mid[w] = new /\ \A v \in Workers \ {w} : mid[v] = upload[v]
      /\ end \in [Workers -> Jobs] /\ end[w] = Images!Idle /\ \A v \in Workers \ {w} : end[v] = upload[v]
  BY <1>2, <1>4, UploadTypes, IdleUpload
<1>8. /\ image = "gone" => upload' = end /\ image' = image /\ retired' = retired
      /\ image # "gone" => /\ image' = Images!Written(t)
                           /\ retired' = (retired \union ({image} \ {None})) \ {image'}
      /\ image # "gone" /\ t.seen \notin {t.key, None} => upload' = mid
      /\ image # "gone" /\ t.seen \in {t.key, None} => upload' = end
  BY <1>1, <1>6 DEF Images!Done, Images!Step
<1> HIDE DEF new, mid, end
<1>9. \/ image' \in {image, None, "gone"}
      \/ image' = t.key /\ Waiting(t) /\ t.step = "checked" /\ t.key \in Pictures
  BY <1>1, <1>3, <1>5, <1>8 DEF Waiting, KeyFits
<1>10. /\ upload' \in [Workers -> Jobs] /\ \A v \in Workers \ {w} : upload'[v] = upload[v]
       /\ upload'[w] \in {new, Images!Idle} /\ KeyFits(upload'[w])
  BY <1>4, <1>7, <1>8, IdleUpload
<1>11. Images!TypeOK'
  <2>1. image' \in Pictures \union {None, "gone"} /\ retired' \subseteq Pictures \union Media
    BY <1>2, <1>8, <1>9, UploadTypes, FilesApart
  <2> QED
    BY <1>1, <1>2, <1>10, <2>1, UploadTypes, UploadTyped
<1>12. \A v \in Workers : KeyFits(upload'[v])
  BY <1>10 DEF ImagesInv
<1>13. upload[w] = t /\ ~Waiting(upload'[w]) /\ \A k : Holds(upload'[w], k) => Holds(t, k)
  BY <1>1, <1>4, <1>10, IdleUpload DEF Waiting, Holds
<1> HIDE DEF t
<1>14. ASSUME NEW v \in Workers, Waiting(upload'[v]), upload'[v].key \notin excused
       PROVE  /\ v # w /\ upload'[v] = upload[v] /\ image # upload[v].key /\ upload[v].key \in Pictures
              /\ \A u \in Workers \ {v} : ~Holds(upload[u], upload[v].key)
  BY <1>10, <1>13, <1>14 DEF ImagesInv, WaitsAlone, Waiting, KeyFits
<1>15. WaitsAlone(upload', image', excused)
  <2> SUFFICES ASSUME NEW v \in Workers, Waiting(upload'[v]), upload'[v].key \notin excused
               PROVE  image' # upload'[v].key /\ \A u \in Workers \ {v} : ~Holds(upload'[u], upload'[v].key)
    BY DEF WaitsAlone
  <2>1. /\ v # w /\ upload'[v] = upload[v] /\ image # upload[v].key /\ upload[v].key \in Pictures
        /\ \A u \in Workers \ {v} : ~Holds(upload[u], upload[v].key)
    BY <1>14
  <2>2. image' # upload[v].key
    <3>1. ~Holds(t, upload[v].key)
      BY <2>1, <1>13
    <3> QED
      BY <3>1, <2>1, <1>1, <1>9, FilesApart DEF Holds
  <2> QED
    BY <2>1, <2>2, <1>10, <1>13
<1>16. CleansUnshown(upload', image', excused)
  <2> SUFFICES ASSUME NEW v \in Workers, NEW k \in Pictures, Cleaning(upload'[v], k), image' = k
               PROVE  k \in excused
    BY DEF CleansUnshown
  <2>1. CASE v = w
    <3>1. upload'[w] = new /\ k = t.seen /\ k # t.key /\ image # "gone"
      BY <2>1, <1>4, <1>7, <1>8, <1>10, IdleUpload DEF Cleaning
    <3>2. image' # t.seen
      BY <3>1, <1>3, <1>5, <1>8, FilesApart
    <3> QED
      BY <3>1, <3>2
  <2>2. CASE v # w
    <3>1. upload'[v] = upload[v] /\ Cleaning(upload[v], k)
      BY <2>2, <1>10
    <3>2. CASE image' = image
      BY <3>1, <3>2 DEF ImagesInv, CleansUnshown
    <3>3. CASE image' # image
      <4>1. Waiting(t) /\ t.key = k /\ Holds(upload[v], k)
        BY <3>1, <3>3, <1>9, FilesApart DEF Holds, Cleaning
      <4> QED
        BY <4>1, <2>2, <1>13 DEF ImagesInv, WaitsAlone
    <3> QED
      BY <3>2, <3>3
  <2> QED
    BY <2>1, <2>2
<1>17. CheckedIsThere(upload', bucket, excused) /\ MediaTicketed(upload', media, tickets)
       /\ MediaStand(upload', media, bucket, excused)
  <2>1. upload'[w].op \notin {"attach", "detach"} /\ t.op \notin {"attach", "detach"}
    BY <1>3, <1>4, <1>10, IdleUpload
  <2>2. CheckedIsThere(upload', bucket, excused)
    BY <1>10, <1>13 DEF ImagesInv, CheckedIsThere
  <2>3. MediaTicketed(upload', media, tickets)
    BY <1>10, <2>1 DEF ImagesInv, MediaTicketed, Attaching, Detaching
  <2>4. MediaStand(upload', media, bucket, excused)
    BY <1>10, <1>13, <2>1 DEF ImagesInv, MediaStand, Attaching, Detaching
  <2> QED
    BY <2>2, <2>3, <2>4
<1>18. ShownIsThere(image', bucket, excused)
  <2>1. CASE image' \in {image, None, "gone"}
    BY <2>1, FilesApart DEF ImagesInv, ShownIsThere
  <2>2. CASE image' = t.key /\ Waiting(t) /\ t.step = "checked"
    BY <2>2, <1>13 DEF ImagesInv, ShownIsThere, CheckedIsThere
  <2> QED
    BY <1>9, <2>1, <2>2
<1>19. OneOnRow(upload', image', accident)
  BY <1>1, <1>4, <1>10, <1>13, IdleUpload DEF ImagesInv, OneOnRow
<1>20. RetiredGoes(upload', bucket, retired', accident)
  <2> SUFFICES ASSUME ~accident, NEW k \in Pictures \cap retired', bucket[k] # "none"
               PROVE  \E v \in Workers : Cleaning(upload'[v], k)
    BY DEF RetiredGoes
  <2>1. CASE k \in retired
    <3>1. PICK v \in Workers : Cleaning(upload[v], k)
      BY <2>1 DEF ImagesInv, RetiredGoes
    <3>2. v # w
      BY <3>1, <1>1, <1>13 DEF Cleaning
    <3> QED
      BY <3>1, <3>2, <1>10
  <2>2. CASE k \notin retired
    <3>1. image # "gone" /\ k = image /\ k # image' /\ t.seen = image
      BY <2>2, <1>1, <1>8, <1>13 DEF ImagesInv, OneOnRow
    <3>2. t.seen \notin {t.key, None}
      BY <3>1, <1>3, <1>5, <1>8, FilesApart DEF KeyFits
    <3>3. Cleaning(upload'[w], k)
      BY <3>1, <3>2, <1>4, <1>7, <1>8 DEF Cleaning
    <3> QED
      BY <3>3
  <2> QED
    BY <2>1, <2>2
<1>21. image' \in Pictures => image' \notin retired'
  BY <1>8, FilesApart DEF ImagesInv
<1> QED
  BY <1>1, <1>11, <1>12, <1>15, <1>16, <1>17, <1>18, <1>19, <1>20, <1>21, ImagesParts

\* The object that the row no longer shows is deleted.
LEMMA CleanUpOK == ASSUME ImagesInv, NEW w \in Workers, Images!CleanUp(w) PROVE ImagesInv'
<1> DEFINE t == upload[w]
<1>1. /\ t \in Images!PictureTask /\ t.step = "committed"
      /\ bucket' = [k \in Pictures \union Media |-> IF k \in Images!Replaced(t) THEN "none" ELSE bucket[k]]
      /\ upload' = [upload EXCEPT ![w] = Images!Idle]
      /\ image' = image /\ tickets' = tickets /\ media' = media /\ retired' = retired
      /\ accident' = accident /\ excused' = excused
  BY DEF Images!CleanUp, Images!OnRow, Images!Done, Images!Files
<1>2. Images!TypeOK
  BY DEF ImagesInv
<1>3. t \in Jobs /\ t.op \in {"finalize", "clear", "delete"} /\ t.seen \in Pictures \union {None}
  BY <1>1, <1>2, UploadTypes, JobKinds
<1>4. /\ bucket \in [Pictures \union Media -> {"none", "good", "bad"}]
      /\ bucket' \in [Pictures \union Media -> {"none", "good", "bad"}]
      /\ \A k \in Pictures \union Media :
            /\ Cleaning(t, k) => bucket'[k] = "none"
            /\ bucket'[k] # bucket[k] => Cleaning(t, k) /\ k \in Pictures
  <2>1. \A k \in Pictures \union Media : k \in Images!Replaced(t) <=> Cleaning(t, k)
    BY <1>1, FilesApart DEF Images!Replaced, Cleaning
  <2>2. \A k : Cleaning(t, k) => k \in Pictures \union {None}
    BY <1>3 DEF Cleaning
  <2>3. bucket \in [Pictures \union Media -> {"none", "good", "bad"}]
    BY <1>2, UploadTypes
  <2>4. \A k \in Pictures \union Media : bucket'[k] = IF k \in Images!Replaced(t) THEN "none" ELSE bucket[k]
    BY <1>1
  <2>5. bucket' \in [Pictures \union Media -> {"none", "good", "bad"}]
    BY <1>1, <2>3
  <2>6. \A k \in Pictures \union Media : k # None
    BY FilesApart
  <2> QED
    BY <2>1, <2>2, <2>3, <2>4, <2>5, <2>6
<1>5. /\ upload \in [Workers -> Jobs] /\ upload' \in [Workers -> Jobs] /\ upload'[w] = Images!Idle
      /\ upload[w] = t /\ \A v \in Workers \ {w} : upload'[v] = upload[v]
  BY <1>1, <1>2, UploadTypes, IdleUpload
<1>6. Images!TypeOK'
  BY <1>1, <1>2, <1>4, <1>5, UploadTypes, UploadTyped
<1> HIDE DEF t
<1>7. /\ \A v \in Workers : KeyFits(upload'[v])
      /\ WaitsAlone(upload', image, excused) /\ CleansUnshown(upload', image, excused)
  BY <1>1, <1>5, UploadEnds DEF ImagesInv
<1>8. MediaTicketed(upload', media, tickets) /\ OneOnRow(upload', image, accident)
  BY <1>1, <1>5, UploadEnds DEF ImagesInv
<1>9. CheckedIsThere(upload', bucket', excused)
  <2> SUFFICES ASSUME NEW v \in Workers, Waiting(upload'[v]), upload'[v].step = "checked",
                      upload'[v].key \notin excused
               PROVE  bucket'[upload'[v].key] = "good"
    BY DEF CheckedIsThere
  <2>1. v # w /\ upload'[v] = upload[v]
    BY <1>5, IdleUpload DEF Waiting
  <2>2. upload[v].key \in Pictures /\ bucket[upload[v].key] = "good"
    BY <2>1 DEF ImagesInv, CheckedIsThere, Waiting, KeyFits
  <2>3. ~Cleaning(t, upload[v].key)
    BY <2>1, <1>5 DEF ImagesInv, WaitsAlone, Holds, Cleaning
  <2> QED
    BY <2>1, <2>2, <2>3, <1>4
<1>10. ShownIsThere(image, bucket', excused)
  BY <1>4, <1>5 DEF ImagesInv, ShownIsThere, CleansUnshown
<1>11. MediaStand(upload', media, bucket', excused)
  <2>1. MediaStand(upload', media, bucket, excused)
    BY <1>1, <1>3, <1>5, UploadEnds DEF ImagesInv
  <2> QED
    BY <2>1, <1>4, FilesApart DEF MediaStand
<1>12. RetiredGoes(upload', bucket', retired, accident)
  <2> SUFFICES ASSUME ~accident, NEW k \in Pictures \cap retired, bucket'[k] # "none"
               PROVE  \E v \in Workers : Cleaning(upload'[v], k)
    BY DEF RetiredGoes
  <2>1. bucket[k] # "none" /\ ~Cleaning(t, k)
    <3>1. k \in Pictures \union Media
      OBVIOUS
    <3> QED
      BY <1>4, <3>1
  <2>2. PICK v \in Workers : Cleaning(upload[v], k)
    BY <2>1 DEF ImagesInv, RetiredGoes
  <2> QED
    BY <2>1, <2>2, <1>5
<1> QED
  BY <1>1, <1>6, <1>7, <1>8, <1>9, <1>10, <1>11, <1>12, ImagesParts DEF ImagesInv

\* A worker that dies with the row's old object still to be deleted is an accident.
LEMMA UploadFailOK == ASSUME ImagesInv, NEW w \in Workers, Images!Fail(w) PROVE ImagesInv'
<1>1. /\ accident' = (accident \/ (upload[w] \in Images!PictureTask /\ upload[w].step = "committed"))
      /\ excused' = IF upload[w].op = "detach" THEN excused \union {upload[w].key} ELSE excused
      /\ upload' = [upload EXCEPT ![w] = Images!Idle]
      /\ image' = image /\ tickets' = tickets /\ media' = media /\ retired' = retired /\ bucket' = bucket
  BY DEF Images!Fail, Images!OnRow, Images!Done
<1>2. Images!TypeOK
  BY DEF ImagesInv
<1>3. /\ upload \in [Workers -> Jobs] /\ upload' \in [Workers -> Jobs] /\ upload'[w] = Images!Idle
      /\ \A v \in Workers \ {w} : upload'[v] = upload[v]
  BY <1>1, <1>2, UploadTypes, IdleUpload
<1>4. Images!TypeOK'
  <2>1. upload[w].op = "detach" => upload[w].key \in Media
    BY <1>3, JobKinds
  <2>2. excused' \subseteq Pictures \union Media /\ accident' \in BOOLEAN
    BY <1>1, <1>2, <2>1, UploadTypes
  <2> QED
    BY <1>1, <1>2, <1>3, <2>2, UploadTypes, UploadTyped
<1>5. /\ \A v \in Workers : KeyFits(upload'[v])
      /\ WaitsAlone(upload', image, excused) /\ CleansUnshown(upload', image, excused)
      /\ CheckedIsThere(upload', bucket, excused)
  BY <1>1, <1>3, UploadEnds DEF ImagesInv
<1>6. MediaTicketed(upload', media, tickets) /\ OneOnRow(upload', image, accident)
  BY <1>1, <1>3, UploadEnds DEF ImagesInv
<1>7. excused \subseteq excused'
  BY <1>1
<1>8. /\ WaitsAlone(upload', image, excused') /\ CleansUnshown(upload', image, excused')
      /\ CheckedIsThere(upload', bucket, excused') /\ ShownIsThere(image, bucket, excused')
  BY <1>5, <1>7, Excuse DEF ImagesInv
<1>9. MediaStand(upload', media, bucket, excused')
  BY <1>1, <1>3, IdleUpload DEF ImagesInv, MediaStand, Attaching, Detaching
<1>10. OneOnRow(upload', image, accident') /\ RetiredGoes(upload', bucket, retired, accident')
  <2>1. OneOnRow(upload', image, accident')
    BY <1>1, <1>6 DEF OneOnRow
  <2>2. RetiredGoes(upload', bucket, retired, accident')
    <3> SUFFICES ASSUME ~accident', NEW k \in Pictures \cap retired, bucket[k] # "none"
                 PROVE  \E v \in Workers : Cleaning(upload'[v], k)
      BY DEF RetiredGoes
    <3>1. ~accident /\ ~Cleaning(upload[w], k)
      BY <1>1 DEF Cleaning
    <3>2. PICK v \in Workers : Cleaning(upload[v], k)
      BY <3>1 DEF ImagesInv, RetiredGoes
    <3> QED
      BY <3>1, <3>2, <1>3
  <2> QED
    BY <2>1, <2>2
<1> QED
  BY <1>1, <1>4, <1>5, <1>6, <1>8, <1>9, <1>10, ImagesParts DEF ImagesInv

\* A request about a medium leaves the row of the picture alone.
LEMMA MediumBegins ==
  ASSUME NEW T \in [Workers -> Jobs], NEW w \in Workers, T[w] = Images!Idle, NEW n \in Images!MediaTask,
         NEW img, NEW acc, NEW exc, NEW objects, NEW ret
  PROVE  LET U == [T EXCEPT ![w] = n] IN
         /\ U \in [Workers -> Jobs] /\ n.op \in {"attach", "detach"}
         /\ (\A v \in Workers : KeyFits(T[v])) => \A v \in Workers : KeyFits(U[v])
         /\ WaitsAlone(T, img, exc) => WaitsAlone(U, img, exc)
         /\ CleansUnshown(T, img, exc) => CleansUnshown(U, img, exc)
         /\ CheckedIsThere(T, objects, exc) => CheckedIsThere(U, objects, exc)
         /\ OneOnRow(T, img, acc) => OneOnRow(U, img, acc)
         /\ RetiredGoes(T, objects, ret, acc) => RetiredGoes(U, objects, ret, acc)
<1> DEFINE U == [T EXCEPT ![w] = n]
<1>1. n \in Jobs
  BY DEF Jobs
<1>2. U \in [Workers -> Jobs] /\ U[w] = n /\ \A v \in Workers \ {w} : U[v] = T[v]
  BY <1>1
<1> HIDE DEF U
<1>3. n \notin Images!PictureTask /\ n.op \in {"attach", "detach"} /\ KeyFits(n)
  BY <1>1, JobKinds DEF KeyFits
<1>4. (\A v \in Workers : KeyFits(T[v])) => \A v \in Workers : KeyFits(U[v])
  BY <1>2, <1>3
<1>5. WaitsAlone(T, img, exc) => WaitsAlone(U, img, exc)
  BY <1>2, <1>3 DEF WaitsAlone, Waiting, Holds
<1>6. CleansUnshown(T, img, exc) => CleansUnshown(U, img, exc)
  BY <1>2, <1>3 DEF CleansUnshown, Cleaning
<1>7. CheckedIsThere(T, objects, exc) => CheckedIsThere(U, objects, exc)
  BY <1>2, <1>3 DEF CheckedIsThere, Waiting
<1>8. OneOnRow(T, img, acc) => OneOnRow(U, img, acc)
  BY <1>2, <1>3 DEF OneOnRow
<1>9. RetiredGoes(T, objects, ret, acc) => RetiredGoes(U, objects, ret, acc)
  BY <1>2, <1>3, IdleUpload DEF RetiredGoes, Cleaning
<1> QED
  BY <1>2, <1>3, <1>4, <1>5, <1>6, <1>7, <1>8, <1>9 DEF U

LEMMA AttachMediumOK ==
  ASSUME ImagesInv, NEW w \in Workers, NEW k \in Media, Images!Attach(w, k) PROVE ImagesInv'
<1> DEFINE new == [op |-> "attach", key |-> k, step |-> "loaded"]
<1>1. /\ upload[w] = Images!Idle /\ media[k] = "pending" /\ bucket[k] # "none"
      /\ upload' = [upload EXCEPT ![w] = new]
      /\ image' = image /\ tickets' = tickets /\ media' = media /\ retired' = retired /\ bucket' = bucket
      /\ accident' = accident /\ excused' = excused
  BY DEF Images!Attach
<1>2. new \in Images!MediaTask /\ new.op = "attach" /\ new.key = k
  BY DEF Images!MediaTask
<1> HIDE DEF new
<1>3. Images!TypeOK /\ upload \in [Workers -> Jobs]
  BY UploadTypes DEF ImagesInv
<1>4. /\ upload' \in [Workers -> Jobs] /\ upload'[w] = new
      /\ \A v \in Workers \ {w} : upload'[v] = upload[v]
  BY <1>1, <1>2, <1>3, MediumBegins
<1>5. Images!TypeOK'
  BY <1>1, <1>3, <1>4, UploadTypes, UploadTyped
<1>6. /\ \A v \in Workers : KeyFits(upload'[v])
      /\ WaitsAlone(upload', image, excused) /\ CleansUnshown(upload', image, excused)
      /\ CheckedIsThere(upload', bucket, excused)
  BY <1>1, <1>2, <1>3, MediumBegins DEF ImagesInv
<1>7. OneOnRow(upload', image, accident) /\ RetiredGoes(upload', bucket, retired, accident)
  BY <1>1, <1>2, <1>3, MediumBegins DEF ImagesInv
<1>8. MediaStand(upload', media, bucket, excused) /\ MediaTicketed(upload', media, tickets)
  BY <1>1, <1>2, <1>4, IdleUpload DEF ImagesInv, MediaStand, MediaTicketed, Attaching, Detaching
<1> QED
  BY <1>1, <1>5, <1>6, <1>7, <1>8, ImagesParts DEF ImagesInv

LEMMA DetachMediumOK ==
  ASSUME ImagesInv, NEW w \in Workers, NEW k \in Media, Images!Detach(w, k) PROVE ImagesInv'
<1> DEFINE new == [op |-> "detach", key |-> k, step |-> "loaded"]
<1>1. /\ upload[w] = Images!Idle /\ media[k] \in {"pending", "uploaded"}
      /\ bucket' = [bucket EXCEPT ![k] = "none"] /\ retired' = retired \union {k}
      /\ upload' = [upload EXCEPT ![w] = new]
      /\ image' = image /\ tickets' = tickets /\ media' = media
      /\ accident' = accident /\ excused' = excused
  BY DEF Images!Detach
<1>2. new \in Images!MediaTask /\ new.op = "detach" /\ new.key = k
  BY DEF Images!MediaTask
<1> HIDE DEF new
<1>3. Images!TypeOK /\ upload \in [Workers -> Jobs]
  BY UploadTypes DEF ImagesInv
<1>4. /\ upload' \in [Workers -> Jobs] /\ upload'[w] = new
      /\ \A v \in Workers \ {w} : upload'[v] = upload[v]
  BY <1>1, <1>2, <1>3, MediumBegins
<1>5. /\ bucket' \in [Pictures \union Media -> {"none", "good", "bad"}] /\ k \notin Pictures
      /\ \A o \in Pictures \union Media : o # k => bucket'[o] = bucket[o]
  BY <1>1, <1>3, UploadTypes, FilesApart
<1>6. Images!TypeOK'
  <2>1. retired' \subseteq Pictures \union Media
    BY <1>1, <1>3, UploadTypes
  <2> QED
    BY <1>1, <1>3, <1>4, <1>5, <2>1, UploadTypes, UploadTyped
<1>7. /\ \A v \in Workers : KeyFits(upload'[v])
      /\ WaitsAlone(upload', image, excused) /\ CleansUnshown(upload', image, excused)
      /\ CheckedIsThere(upload', bucket, excused)
  BY <1>1, <1>2, <1>3, MediumBegins DEF ImagesInv
<1>8. OneOnRow(upload', image, accident) /\ RetiredGoes(upload', bucket, retired, accident)
  BY <1>1, <1>2, <1>3, MediumBegins DEF ImagesInv
<1>9. MediaStand(upload', media, bucket', excused)
  BY <1>1, <1>2, <1>4, <1>5, IdleUpload DEF ImagesInv, MediaStand, Attaching, Detaching
<1>10. MediaTicketed(upload', media, tickets)
  BY <1>1, <1>2, <1>4 DEF ImagesInv, MediaTicketed, Attaching, Detaching
<1>11. CheckedIsThere(upload', bucket', excused)
  BY <1>5, <1>7 DEF CheckedIsThere, Waiting, KeyFits
<1>12. ShownIsThere(image, bucket', excused) /\ RetiredGoes(upload', bucket', retired', accident)
  BY <1>1, <1>5, <1>8 DEF ImagesInv, ShownIsThere, RetiredGoes
<1> QED
  BY <1>1, <1>5, <1>6, <1>7, <1>8, <1>9, <1>10, <1>11, <1>12, ImagesParts DEF ImagesInv

\* The row of a medium is written, and its request is over.
LEMMA MediumEnds ==
  ASSUME ImagesInv, NEW w \in Workers,
         \/ Images!Attached(w)
         \/ Images!Detached(w)
  PROVE  ImagesInv'
<1> DEFINE k == upload[w].key
<1>1. /\ upload[w].op \in {"attach", "detach"}
      /\ upload[w].op = "attach" =>
            media' = [media EXCEPT ![k] = IF media[k] = "pending" THEN "uploaded" ELSE media[k]]
      /\ upload[w].op = "detach" => media' = [media EXCEPT ![k] = "deleted"]
      /\ upload' = [upload EXCEPT ![w] = Images!Idle]
      /\ image' = image /\ tickets' = tickets /\ retired' = retired /\ bucket' = bucket
      /\ accident' = accident /\ excused' = excused
  BY DEF Images!Attached, Images!Detached, Images!Done
<1>2. Images!TypeOK /\ upload \in [Workers -> Jobs]
  BY UploadTypes DEF ImagesInv
<1>3. upload[w] \notin Images!PictureTask /\ k \in Media
  BY <1>1, <1>2, JobKinds
<1> HIDE DEF k
<1>4. /\ upload' \in [Workers -> Jobs] /\ upload'[w] = Images!Idle
      /\ \A v \in Workers \ {w} : upload'[v] = upload[v]
  BY <1>1, <1>2, IdleUpload
<1>5. /\ media \in [Media -> {"none", "pending", "uploaded", "deleted"}]
      /\ media' \in [Media -> {"none", "pending", "uploaded", "deleted"}]
      /\ \A o \in Media \ {k} : media'[o] = media[o]
      /\ upload[w].op = "attach" => media'[k] = IF media[k] = "pending" THEN "uploaded" ELSE media[k]
      /\ upload[w].op = "detach" => media'[k] = "deleted"
  BY <1>1, <1>2, <1>3, UploadTypes
<1>6. Images!TypeOK'
  BY <1>1, <1>2, <1>4, <1>5, UploadTypes, UploadTyped
<1>7. /\ \A v \in Workers : KeyFits(upload'[v])
      /\ WaitsAlone(upload', image, excused) /\ CleansUnshown(upload', image, excused)
      /\ CheckedIsThere(upload', bucket, excused)
  BY <1>1, <1>2, UploadEnds DEF ImagesInv
<1>8. OneOnRow(upload', image, accident) /\ RetiredGoes(upload', bucket, retired, accident)
  BY <1>1, <1>2, <1>3, UploadEnds DEF ImagesInv
<1>9. MediaTicketed(upload', media', tickets)
  BY <1>1, <1>3, <1>4, <1>5, IdleUpload DEF ImagesInv, MediaTicketed, Attaching, Detaching, k
<1>10. MediaStand(upload', media', bucket, excused)
  <2> SUFFICES ASSUME NEW o \in Media, o \notin excused, bucket[o] = "none",
                      \/ media'[o] = "uploaded"
                      \/ media'[o] = "pending" /\ \E v \in Workers : Attaching(upload'[v], o)
               PROVE  \E v \in Workers : Detaching(upload'[v], o)
    BY DEF MediaStand
  <2>1. \/ media[o] = "uploaded"
        \/ media[o] = "pending" /\ \E v \in Workers : Attaching(upload[v], o)
    BY <1>1, <1>3, <1>4, <1>5, IdleUpload DEF Attaching, k
  <2>2. PICK v \in Workers : Detaching(upload[v], o)
    BY <2>1 DEF ImagesInv, MediaStand
  <2>3. v # w
    BY <1>5, <2>2 DEF Detaching, k
  <2> QED
    BY <2>2, <2>3, <1>4
<1> QED
  BY <1>1, <1>6, <1>7, <1>8, <1>9, <1>10, ImagesParts DEF ImagesInv

LEMMA ImagesStepOK == ImagesInv /\ [Images!Next]_(Images!uploadVars) => ImagesInv'
<1> SUFFICES ASSUME ImagesInv, [Images!Next]_(Images!uploadVars) PROVE ImagesInv'
  OBVIOUS
<1>1. CASE UNCHANGED Images!uploadVars
  <2>1. UNCHANGED <<image, bucket, tickets, media, upload, retired, accident, excused>>
    BY <1>1 DEF Images!uploadVars
  <2>2. Images!TypeOK'
    BY <2>1 DEF ImagesInv, Images!TypeOK
  <2> QED
    BY <2>1, <2>2, ImagesParts DEF ImagesInv
<1>2. CASE \E k \in Images!Files : Images!Ticket(k) \/ \E content \in Images!Content : Images!Put(k, content)
  BY <1>2, TicketOK, PutOK DEF Images!Files
<1>3. ASSUME NEW w \in Workers,
             \/ Images!Check(w) \/ Images!Commit(w) \/ Images!CleanUp(w) \/ Images!Fail(w)
             \/ Images!Attached(w) \/ Images!Detached(w)
             \/ \E k \in Media : Images!Attach(w, k) \/ Images!Detach(w, k)
      PROVE  ImagesInv'
  BY <1>3, CheckOK, CommitPictureOK, CleanUpOK, UploadFailOK, MediumEnds, AttachMediumOK, DetachMediumOK
<1>4. ASSUME NEW w \in Workers,
             Images!Clear(w) \/ Images!Delete(w) \/ \E k \in Pictures : Images!Finalize(w, k)
      PROVE  ImagesInv'
  BY <1>4, LoadOK DEF Images!Clear, Images!Delete, Images!Finalize
<1> QED
  BY <1>1, <1>2, <1>3, <1>4 DEF Images!Next

\* For any number of workers and files: however uploads, replacements and deletions overlap or
\* break off, a picture that is shown lies in the bucket, and one that is not leaves nothing
\* there unless a worker died or two requests overlapped.
THEOREM PicturesStayKept == Spec => []PicturesAreKept
<1> DEFINE Inv == focus = "images" => ImagesInv
<1>1. Init => Inv
  BY ImagesInitOK DEF Init
<1>2. Inv /\ [Next]_vars => Inv'
  <2> SUFFICES ASSUME Inv, [Next]_vars, focus' = "images" PROVE ImagesInv'
    OBVIOUS
  <2> focus = "images" /\ [Images!Next]_(Images!uploadVars)
    BY DEF Next, vars, ownerVars, imageVars, Images!uploadVars, LoyaltyStep, RemindersStep, ImportsStep,
           NumbersStep, ChannelsStep, CarrierStep, TenantsStep, StripeStep, SquareStep, AccessStep, ImagesStep
  <2> QED
    BY ImagesStepOK
<1>3. Inv => PicturesAreKept
  BY ImagesHold DEF PicturesAreKept
<1> QED
  BY <1>1, <1>2, <1>3, PTL DEF Spec

-----------------------------------------------------------------------------
(* The connection to Square. Who has not been overtaken works on what the row says. *)
MerchantsApart(rows) ==
    \A a, b \in Businesses : rows[a].merchant = rows[b].merchant => a = b \/ rows[a].merchant = None
TokensHeld(rows, issued) ==
    \A b \in Businesses : /\ rows[b].token # None => rows[b].token \in 1..Len(issued)
                          /\ rows[b].merchant # None => Len(issued) > 0
                          /\ rows[b].age \in {"fresh", "due"} => rows[b].token # None
RequestsHeld(Q, issued) ==
    \A w \in Workers : /\ Q[w].op \in {"connect", "call"} => Q[w].token \in 1..Len(issued)
                       /\ Q[w].op = "connect" /\ Q[w].seen # Square!Idle =>
                             Q[w].seen.merchant = issued[Q[w].token].merchant
TokensApart(rows, Q) ==
    /\ \A a, b \in Businesses : rows[a].token = rows[b].token => a = b \/ rows[a].token = None
    /\ \A w \in Workers : Q[w].op = "connect" =>
          /\ \A b \in Businesses : rows[b].token # Q[w].token
          /\ \A v \in Workers : Q[v].op = "connect" /\ Q[v].token = Q[w].token => v = w
RowWorks(row, issued, due) ==
    /\ row.token # None => issued[row.token].merchant = row.merchant
    /\ row.merchant # None => row.location \in {row.merchant, None}
    /\ row.status = "CONNECTED" /\ row.token # None =>
          \/ issued[row.token].granted
          \/ \E e \in due : e.merchant = row.merchant /\ e.upto >= row.token
RequestTrue(q, row, issued) ==
    /\ q.op = "connect" => /\ issued[q.token].granted
                           /\ q.seen # Square!Idle => /\ q.seen.merchant = row.merchant
                                                      /\ q.seen.location = row.location
    /\ q.op = "choose" => row.merchant \in {q.merchant, None}
RowsWork(rows, issued, due, exc) == \A b \in Businesses \ exc : RowWorks(rows[b], issued, due)
RequestsTrue(Q, rows, issued, exc) ==
    \A w \in Workers : Q[w] # Square!Idle /\ Q[w].business \notin exc =>
        RequestTrue(Q[w], rows[Q[w].business], issued)
SquareInv ==
    /\ Square!TypeOK
    /\ MerchantsApart(connection) /\ TokensHeld(connection, tokens) /\ RequestsHeld(calling, tokens)
    /\ TokensApart(connection, calling)
    /\ RowsWork(connection, tokens, news, outrun)
    /\ RequestsTrue(calling, connection, tokens, outrun)

Asked == {Square!Idle} \union Square!Connecting \union Square!Calling \union Square!Choosing
LEMMA RequestKinds ==
  ASSUME NEW q \in Asked
  PROVE  /\ q.op = "connect" => /\ q.business \in Businesses /\ q.token \in 1..MaxTokens
                                /\ q.seen \in Square!Row \union {Square!Idle}
         /\ q.op = "call" => q.business \in Businesses /\ q.token \in 1..MaxTokens
         /\ q.op = "choose" => q.business \in Businesses /\ q.merchant \in Merchants
         /\ q.op \in {"none", "connect", "call", "choose"} /\ (q = Square!Idle <=> q.op = "none")
  BY DEF Asked, Square!Idle, Square!Connecting, Square!Calling, Square!Choosing, Square!Token

LEMMA IdleRequest == Square!Idle \in Asked /\ Square!Idle.op = "none"
  BY DEF Asked, Square!Idle

LEMMA RowFields ==
  ASSUME NEW r \in Square!Row
  PROVE  /\ r.merchant \in Merchants \union {None} /\ r.token \in (1..MaxTokens) \union {None}
         /\ r.age \in {"fresh", "due", "expired", None}
         /\ r.status \in {"NOT_CONNECTED", "CONNECTED", "REVOKED", "ERROR"}
         /\ r.location \in Merchants \union {None} /\ r # Square!Idle
<1>1. r # Square!Idle
  BY DEF Square!Row, Square!Idle
<1> QED
  BY <1>1 DEF Square!Row, Square!Token

LEMMA SquareBounds == /\ MaxTokens \in Nat /\ MaxNews \in Nat /\ None \notin Merchants /\ None \notin Nat
                      /\ None \notin {"fresh", "due", "expired"} /\ None \notin Workers
  BY BoundsAssumption, NoneAssumption, MerchantsAssumption

LEMMA SquareTypes ==
  ASSUME Square!TypeOK
  PROVE  /\ connection \in [Businesses -> Square!Row] /\ tokens \in Seq(Square!Issued)
         /\ Len(tokens) \in Nat /\ Len(tokens) <= MaxTokens
         /\ \A t \in 1..Len(tokens) : tokens[t] \in Square!Issued
         /\ news \subseteq [merchant : Merchants, upto : 1..MaxTokens]
         /\ told \in 0..MaxNews /\ outrun \subseteq Businesses /\ calling \in [Workers -> Asked]
<1>1. /\ connection \in [Businesses -> Square!Row] /\ tokens \in Seq(Square!Issued)
      /\ Len(tokens) <= MaxTokens /\ news \subseteq [merchant : Merchants, upto : 1..MaxTokens]
      /\ told \in 0..MaxNews /\ outrun \subseteq Businesses /\ calling \in [Workers -> Asked]
  BY DEF Square!TypeOK, Square!Token, Asked
<1>2. Len(tokens) \in Nat /\ \A t \in 1..Len(tokens) : tokens[t] \in Square!Issued
  BY <1>1, LenProperties, ElementOfSeq
<1> QED
  BY <1>1, <1>2

LEMMA SquareTyped ==
  ASSUME connection' \in [Businesses -> Square!Row], tokens' \in Seq(Square!Issued),
         Len(tokens') <= MaxTokens, news' \subseteq [merchant : Merchants, upto : 1..MaxTokens],
         told' \in 0..MaxNews, outrun' \subseteq Businesses, calling' \in [Workers -> Asked]
  PROVE  Square!TypeOK'
  BY DEF Square!TypeOK, Square!Token, Asked

LEMMA SquareParts ==
  ASSUME Square!TypeOK', MerchantsApart(connection'), TokensHeld(connection', tokens'),
         RequestsHeld(calling', tokens'), TokensApart(connection', calling'),
         RowsWork(connection', tokens', news', outrun'), RequestsTrue(calling', connection', tokens', outrun')
  PROVE  SquareInv'
  BY DEF SquareInv, MerchantsApart, TokensHeld, RequestsHeld, TokensApart, RowsWork, RowWorks, RequestsTrue,
         RequestTrue

LEMMA SquareInitOK == Square!Init => SquareInv
<1> SUFFICES ASSUME Square!Init PROVE SquareInv
  OBVIOUS
<1>1. /\ connection = [b \in Businesses |-> Square!Cleared] /\ tokens = <<>> /\ news = {} /\ told = 0
      /\ calling = [w \in Workers |-> Square!Idle] /\ outrun = {}
  BY DEF Square!Init
<1>2. Square!Cleared \in Square!Row /\ Square!Cleared.merchant = None /\ Square!Cleared.token = None
      /\ Square!Cleared.age = None /\ Square!Cleared.status = "NOT_CONNECTED"
  BY DEF Square!Cleared, Square!Row
<1>3. Square!TypeOK
  <2>1. tokens \in Seq(Square!Issued) /\ Len(tokens) = 0
    BY <1>1
  <2>2. 0 <= MaxTokens /\ 0 \in 0..MaxNews
    BY BoundsAssumption
  <2> QED
    BY <1>1, <1>2, <2>1, <2>2 DEF Square!TypeOK
<1>4. /\ \A b \in Businesses : connection[b] = Square!Cleared
      /\ \A w \in Workers : calling[w] = Square!Idle
  BY <1>1
<1> QED
  BY <1>1, <1>2, <1>3, <1>4, IdleRequest, SquareBounds
     DEF SquareInv, MerchantsApart, TokensHeld, RequestsHeld, TokensApart, RowsWork, RowWorks, RequestsTrue

LEMMA SquareHolds == SquareInv => Square!TypeOK /\ Square!ReadyConnectionsWork
<1> SUFFICES ASSUME SquareInv PROVE Square!TypeOK /\ Square!ReadyConnectionsWork
  OBVIOUS
<1>1. ASSUME NEW b \in Businesses \ outrun, Square!Ready(b)
      PROVE  /\ tokens[connection[b].token].merchant = connection[b].merchant
             /\ connection[b].location = connection[b].merchant
             /\ \/ tokens[connection[b].token].granted
                \/ \E e \in news : e.merchant = connection[b].merchant /\ e.upto >= connection[b].token
  BY <1>1 DEF SquareInv, RowsWork, RowWorks, Square!Ready, Square!Connected
<1> QED
  BY <1>1 DEF SquareInv, MerchantsApart, Square!ReadyConnectionsWork

-----------------------------------------------------------------------------
\* What is true of a request stays so when others end, and for fewer businesses.
LEMMA RequestEnds ==
  ASSUME NEW Q \in [Workers -> Asked], NEW w \in Workers, NEW rows, NEW issued, NEW exc
  PROVE  LET P == [Q EXCEPT ![w] = Square!Idle] IN
         /\ P \in [Workers -> Asked]
         /\ RequestsHeld(Q, issued) => RequestsHeld(P, issued)
         /\ TokensApart(rows, Q) => TokensApart(rows, P)
         /\ RequestsTrue(Q, rows, issued, exc) => RequestsTrue(P, rows, issued, exc)
<1> DEFINE P == [Q EXCEPT ![w] = Square!Idle]
<1>1. P \in [Workers -> Asked] /\ P[w] = Square!Idle /\ \A v \in Workers \ {w} : P[v] = Q[v]
  BY IdleRequest
<1> HIDE DEF P
<1>2. RequestsHeld(Q, issued) => RequestsHeld(P, issued)
  BY <1>1, IdleRequest DEF RequestsHeld
<1>3. TokensApart(rows, Q) => TokensApart(rows, P)
  BY <1>1, IdleRequest DEF TokensApart
<1>4. RequestsTrue(Q, rows, issued, exc) => RequestsTrue(P, rows, issued, exc)
  BY <1>1 DEF RequestsTrue
<1> QED
  BY <1>1, <1>2, <1>3, <1>4 DEF P

LEMMA SquareEndOK ==
  ASSUME SquareInv, NEW w \in Workers, Square!Abandon(w) \/ Square!Accepted(w)
  PROVE  SquareInv'
<1>1. /\ calling' = [calling EXCEPT ![w] = Square!Idle]
      /\ connection' = connection /\ tokens' = tokens /\ news' = news /\ told' = told /\ outrun' = outrun
  BY DEF Square!Abandon, Square!Accepted, Square!Answer
<1>2. Square!TypeOK /\ calling \in [Workers -> Asked]
  BY SquareTypes DEF SquareInv
<1>3. calling' \in [Workers -> Asked] /\ RequestsHeld(calling', tokens)
  BY <1>1, <1>2, RequestEnds DEF SquareInv
<1>4. TokensApart(connection, calling') /\ RequestsTrue(calling', connection, tokens, outrun)
  BY <1>1, <1>2, RequestEnds DEF SquareInv
<1>5. Square!TypeOK'
  BY <1>1, <1>2, <1>3, SquareTypes, SquareTyped
<1> QED
  BY <1>1, <1>3, <1>4, <1>5, SquareParts DEF SquareInv

\* A call, or the choice of a location, begins with what the row says.
LEMMA SquareBegins ==
  ASSUME SquareInv, NEW w \in Workers, NEW b \in Businesses,
         Square!Call(w, b) \/ Square!ChooseLocation(w, b)
  PROVE  SquareInv'
<1>1. PICK q : /\ calling' = [calling EXCEPT ![w] = q]
               /\ \/ q = [op |-> "call", business |-> b, token |-> connection[b].token]
                  \/ q = [op |-> "choose", business |-> b, merchant |-> connection[b].merchant]
  BY DEF Square!Call, Square!ChooseLocation, Square!Begin
<1>2. /\ connection[b].token # None /\ connection[b].merchant # None
      /\ connection' = connection /\ tokens' = tokens /\ news' = news /\ told' = told /\ outrun' = outrun
  BY DEF Square!Call, Square!ChooseLocation, Square!Usable
<1>3. Square!TypeOK /\ calling \in [Workers -> Asked] /\ connection[b] \in Square!Row
  BY SquareTypes DEF SquareInv
<1>4. /\ q \in Asked /\ q.op \in {"call", "choose"} /\ q.business = b
      /\ q.op = "call" => q.token = connection[b].token
      /\ q.op = "choose" => q.merchant = connection[b].merchant
  <2>1. connection[b].token \in 1..MaxTokens /\ connection[b].merchant \in Merchants
    BY <1>2, <1>3, RowFields
  <2> QED
    BY <1>1, <2>1 DEF Asked, Square!Calling, Square!Choosing, Square!Token
<1>5. calling' \in [Workers -> Asked] /\ calling'[w] = q /\ \A v \in Workers \ {w} : calling'[v] = calling[v]
  BY <1>1, <1>3, <1>4
<1>6. RequestsHeld(calling', tokens)
  BY <1>2, <1>4, <1>5 DEF SquareInv, RequestsHeld, TokensHeld
<1>7. TokensApart(connection, calling')
  BY <1>4, <1>5 DEF SquareInv, TokensApart
<1>8. RequestsTrue(calling', connection, tokens, outrun)
  BY <1>4, <1>5 DEF SquareInv, RequestsTrue, RequestTrue
<1>9. Square!TypeOK'
  BY <1>2, <1>3, <1>5, SquareTypes, SquareTyped
<1> QED
  BY <1>2, <1>6, <1>7, <1>8, <1>9, SquareParts DEF SquareInv

-----------------------------------------------------------------------------
\* Square issues one more token: what was true of the others is still.
LEMMA TokensGrow ==
  ASSUME NEW issued \in Seq(Square!Issued), NEW n \in Square!Issued, NEW rows, NEW Q \in [Workers -> Asked],
         NEW due, NEW exc
  PROVE  LET more == Append(issued, n) IN
         /\ more \in Seq(Square!Issued) /\ Len(more) = Len(issued) + 1 /\ more[Len(issued) + 1] = n
         /\ Len(issued) \in Nat /\ \A t \in 1..Len(issued) : more[t] = issued[t]
         /\ TokensHeld(rows, issued) => TokensHeld(rows, more)
         /\ RequestsHeld(Q, issued) => RequestsHeld(Q, more)
         /\ TokensHeld(rows, issued) /\ RowsWork(rows, issued, due, exc) => RowsWork(rows, more, due, exc)
         /\ RequestsHeld(Q, issued) /\ RequestsTrue(Q, rows, issued, exc) => RequestsTrue(Q, rows, more, exc)
<1> DEFINE more == Append(issued, n)
<1>1. /\ more \in Seq(Square!Issued) /\ Len(more) = Len(issued) + 1 /\ more[Len(issued) + 1] = n
      /\ Len(issued) \in Nat /\ \A t \in 1..Len(issued) : more[t] = issued[t]
  BY AppendProperties, LenProperties
<1> HIDE DEF more
<1>2. 1..Len(issued) \subseteq 1..Len(more)
  BY <1>1
<1>3. TokensHeld(rows, issued) => TokensHeld(rows, more)
  BY <1>1, <1>2 DEF TokensHeld
<1>4. RequestsHeld(Q, issued) => RequestsHeld(Q, more)
  BY <1>1, <1>2 DEF RequestsHeld
<1>5. TokensHeld(rows, issued) /\ RowsWork(rows, issued, due, exc) => RowsWork(rows, more, due, exc)
  BY <1>1 DEF TokensHeld, RowsWork, RowWorks
<1>6. RequestsHeld(Q, issued) /\ RequestsTrue(Q, rows, issued, exc) => RequestsTrue(Q, rows, more, exc)
  BY <1>1, RequestKinds DEF RequestsHeld, RequestsTrue, RequestTrue
<1> QED
  BY <1>1, <1>3, <1>4, <1>5, <1>6 DEF more

LEMMA IssueSays ==
  ASSUME Square!TypeOK, NEW m \in Merchants, NEW t \in (1..MaxTokens) \union {None}, Square!Issue(m, t)
  PROVE  \E n \in Square!Issued : /\ n.merchant = m /\ n.granted = TRUE /\ n.of = t
                                  /\ tokens' = Append(tokens, n) /\ Len(tokens) + 1 \in 1..MaxTokens
<1> DEFINE n == [merchant |-> m, live |-> TRUE, granted |-> TRUE, of |-> t]
<1>1. n \in Square!Issued /\ n.merchant = m /\ n.granted = TRUE /\ n.of = t
  BY DEF Square!Issued, Square!Token
<1>2. tokens' = Append(tokens, n) /\ Len(tokens) < MaxTokens
  BY DEF Square!Issue
<1>3. Len(tokens) + 1 \in 1..MaxTokens
  BY <1>2, SquareTypes, SquareBounds
<1> QED
  BY <1>1, <1>2, <1>3

\* The callback has its token, and the row as it loaded it.
LEMMA ExchangeOK ==
  ASSUME SquareInv, NEW w \in Workers, NEW b \in Businesses, NEW m \in Merchants, Square!Exchange(w, b, m)
  PROVE  SquareInv'
<1>1. Square!TypeOK /\ calling \in [Workers -> Asked] /\ connection[b] \in Square!Row
      /\ tokens \in Seq(Square!Issued) /\ Len(tokens) \in Nat
  BY SquareTypes DEF SquareInv
<1>2. PICK n \in Square!Issued : /\ n.merchant = m /\ n.granted = TRUE /\ n.of = None
                                 /\ tokens' = Append(tokens, n) /\ Len(tokens) + 1 \in 1..MaxTokens
  BY <1>1, IssueSays DEF Square!Exchange
<1> DEFINE seen == IF Square!OwnersOf(m) = {b} THEN connection[b] ELSE Square!Idle
           q == [op |-> "connect", business |-> b, token |-> Len(tokens) + 1, seen |-> seen]
<1>3. /\ calling' = [calling EXCEPT ![w] = q]
      /\ connection' = connection /\ news' = news /\ told' = told /\ outrun' = outrun
  BY DEF Square!Exchange, Square!Begin
<1>4. /\ q \in Asked /\ q.op = "connect" /\ q.business = b /\ q.token = Len(tokens) + 1
      /\ q.seen # Square!Idle => q.seen = connection[b] /\ connection[b].merchant = m
  <2>1. q \in Square!Connecting
    BY <1>1, <1>2 DEF Square!Connecting, Square!Token
  <2>2. Square!OwnersOf(m) = {b} => connection[b].merchant = m
    BY DEF Square!OwnersOf
  <2> QED
    BY <2>1, <2>2 DEF Asked
<1> HIDE DEF q
<1>5. calling' \in [Workers -> Asked] /\ calling'[w] = q /\ \A v \in Workers \ {w} : calling'[v] = calling[v]
  BY <1>1, <1>3, <1>4
<1>6. /\ tokens' \in Seq(Square!Issued) /\ Len(tokens') = Len(tokens) + 1 /\ tokens'[Len(tokens) + 1] = n
      /\ TokensHeld(connection, tokens') /\ RequestsHeld(calling, tokens')
      /\ RowsWork(connection, tokens', news, outrun) /\ RequestsTrue(calling, connection, tokens', outrun)
  BY <1>1, <1>2, TokensGrow DEF SquareInv
<1>7. RequestsHeld(calling', tokens')
  BY <1>1, <1>2, <1>4, <1>5, <1>6 DEF RequestsHeld
<1>8. TokensApart(connection, calling')
  <2>1. \A v \in Workers : calling[v].op = "connect" => calling[v].token # Len(tokens) + 1
    BY <1>1 DEF SquareInv, RequestsHeld
  <2>2. \A a \in Businesses : connection[a].token # Len(tokens) + 1
    BY <1>1, SquareBounds DEF SquareInv, TokensHeld
  <2> QED
    BY <2>1, <2>2, <1>4, <1>5 DEF SquareInv, TokensApart
<1>9. RequestsTrue(calling', connection, tokens', outrun)
  <2>1. tokens'[q.token].granted
    BY <1>2, <1>4, <1>6
  <2>2. q.seen # Square!Idle =>
            q.seen.merchant = connection[b].merchant /\ q.seen.location = connection[b].location
    BY <1>4
  <2>3. RequestTrue(q, connection[b], tokens')
    BY <2>1, <2>2, <1>4 DEF RequestTrue
  <2> QED
    BY <2>3, <1>4, <1>5, <1>6 DEF RequestsTrue
<1>10. Square!TypeOK'
  BY <1>1, <1>2, <1>3, <1>5, <1>6, SquareTypes, SquareTyped
<1> QED
  BY <1>3, <1>6, <1>7, <1>8, <1>9, <1>10, SquareParts DEF SquareInv

-----------------------------------------------------------------------------
\* A row of which only the token, its age and the status are written, with a token of nobody else's.
LEMMA RowRenewed ==
  ASSUME SquareInv, NEW b \in Businesses, NEW n \in Square!Row, NEW issued, NEW due,
         connection[b].merchant = n.merchant, connection[b].location = n.location,
         RequestsTrue(calling, connection, issued, outrun)
  PROVE  LET new == [connection EXCEPT ![b] = n] IN
         /\ new \in [Businesses -> Square!Row] /\ MerchantsApart(new)
         /\ RequestsTrue(calling, new, issued, outrun)
         /\ (/\ n.token \in {connection[b].token, None}
             /\ TokensApart(connection, calling)) => TokensApart(new, calling)
         /\ (/\ RowsWork(connection, issued, due, outrun)
             /\ b \notin outrun => RowWorks(n, issued, due)) => RowsWork(new, issued, due, outrun)
         /\ (/\ TokensHeld(connection, issued)
             /\ n.token # None => n.token \in 1..Len(issued)
             /\ n.age \in {"fresh", "due"} => n.token # None) => TokensHeld(new, issued)
<1> DEFINE new == [connection EXCEPT ![b] = n]
<1>1. connection \in [Businesses -> Square!Row] /\ calling \in [Workers -> Asked]
  BY SquareTypes DEF SquareInv
<1>2. new \in [Businesses -> Square!Row] /\ new[b] = n /\ \A a \in Businesses \ {b} : new[a] = connection[a]
  BY <1>1
<1> HIDE DEF new
<1>3. \A a \in Businesses : new[a].merchant = connection[a].merchant /\ new[a].location = connection[a].location
  BY <1>2
<1>4. MerchantsApart(new)
  BY <1>3 DEF SquareInv, MerchantsApart
<1>5. RequestsTrue(calling, new, issued, outrun)
  BY <1>1, <1>3, RequestKinds DEF RequestsTrue, RequestTrue
<1>6. (/\ n.token \in {connection[b].token, None}
       /\ TokensApart(connection, calling)) => TokensApart(new, calling)
  <2>1. \A w \in Workers : calling[w].op = "connect" => calling[w].token # None
    BY <1>1, RequestKinds, SquareBounds
  <2> QED
    BY <1>2, <2>1 DEF TokensApart
<1>7. (/\ RowsWork(connection, issued, due, outrun)
       /\ b \notin outrun => RowWorks(n, issued, due)) => RowsWork(new, issued, due, outrun)
  BY <1>2 DEF RowsWork
<1>8. (/\ TokensHeld(connection, issued)
       /\ n.token # None => n.token \in 1..Len(issued)
       /\ n.age \in {"fresh", "due"} => n.token # None) => TokensHeld(new, issued)
  BY <1>2, <1>3 DEF TokensHeld
<1> QED
  BY <1>2, <1>4, <1>5, <1>6, <1>7, <1>8 DEF new

\* A token renewed, an authorisation found withdrawn, or no answer.
LEMMA RefreshKeeps ==
  ASSUME SquareInv, NEW b \in Businesses, Square!Usable(b), Square!Refresh(b)
  PROVE  /\ connection' \in [Businesses -> Square!Row] /\ tokens' \in Seq(Square!Issued)
         /\ Len(tokens') <= MaxTokens
         /\ MerchantsApart(connection') /\ TokensHeld(connection', tokens')
         /\ RequestsHeld(calling, tokens') /\ TokensApart(connection', calling)
         /\ RowsWork(connection', tokens', news, outrun)
         /\ RequestsTrue(calling, connection', tokens', outrun)
<1> DEFINE t == connection[b].token
           row == connection[b]
<1>1. /\ Square!TypeOK /\ calling \in [Workers -> Asked] /\ row \in Square!Row
      /\ tokens \in Seq(Square!Issued) /\ Len(tokens) \in Nat /\ Len(tokens) <= MaxTokens
      /\ connection \in [Businesses -> Square!Row]
  BY SquareTypes DEF SquareInv
<1>2. row.status = "CONNECTED" /\ t # None /\ row.merchant # None
  BY DEF Square!Usable, Square!Connected
<1>3. /\ t \in 1..Len(tokens) /\ t \in 1..MaxTokens
      /\ tokens[t] \in Square!Issued /\ tokens[t].merchant \in Merchants
  <2>1. t \in 1..Len(tokens)
    BY <1>2 DEF SquareInv, TokensHeld
  <2> QED
    BY <2>1, <1>1, SquareTypes, SquareBounds DEF Square!Issued
<1>4. RequestsTrue(calling, connection, tokens, outrun) /\ TokensApart(connection, calling)
      /\ TokensHeld(connection, tokens) /\ RowsWork(connection, tokens, news, outrun)
      /\ RequestsHeld(calling, tokens) /\ MerchantsApart(connection)
  BY DEF SquareInv
<1>5. CASE tokens[t].granted /\ Square!Issue(tokens[t].merchant, t)
           /\ connection' = [connection EXCEPT ![b].token = Len(tokens) + 1, ![b].age = "fresh"]
  <2>1. PICK n \in Square!Issued : /\ n.merchant = tokens[t].merchant /\ n.granted = TRUE /\ n.of = t
                                   /\ tokens' = Append(tokens, n) /\ Len(tokens) + 1 \in 1..MaxTokens
    BY <1>1, <1>3, <1>5, IssueSays
  <2>2. /\ tokens' \in Seq(Square!Issued) /\ Len(tokens') = Len(tokens) + 1 /\ tokens'[Len(tokens) + 1] = n
        /\ TokensHeld(connection, tokens') /\ RequestsHeld(calling, tokens')
        /\ RowsWork(connection, tokens', news, outrun) /\ RequestsTrue(calling, connection, tokens', outrun)
    BY <1>1, <1>4, <2>1, TokensGrow
  <2> DEFINE new == [row EXCEPT !.token = Len(tokens) + 1, !.age = "fresh"]
  <2>3. connection' = [connection EXCEPT ![b] = new]
    BY <1>1, <1>5
  <2>4. /\ new \in Square!Row /\ new.token = Len(tokens) + 1 /\ new.age = "fresh" /\ new.merchant = row.merchant
        /\ new.location = row.location /\ new.status = "CONNECTED"
    BY <1>1, <1>2, <2>1 DEF Square!Row, Square!Token
  <2> HIDE DEF new
  <2>5. new.token # None /\ new.token \in 1..Len(tokens')
    BY <2>4, <2>2, <1>1, SquareBounds
  <2>6. b \notin outrun => RowWorks(new, tokens', news)
    <3>1. b \notin outrun => tokens[t].merchant = row.merchant /\ row.location \in {row.merchant, None}
      BY <1>2, <1>4 DEF RowsWork, RowWorks
    <3> QED
      BY <3>1, <2>1, <2>2, <2>4 DEF RowWorks
  <2>7. connection' \in [Businesses -> Square!Row] /\ MerchantsApart(connection')
    BY <2>2, <2>3, <2>4, RowRenewed
  <2>8. RequestsTrue(calling, connection', tokens', outrun)
    BY <2>2, <2>3, <2>4, RowRenewed
  <2>9. RowsWork(connection', tokens', news, outrun)
    BY <2>2, <2>3, <2>4, <2>6, RowRenewed
  <2>10. TokensHeld(connection', tokens')
    BY <2>2, <2>3, <2>4, <2>5, RowRenewed
  <2>11. TokensApart(connection', calling)
    <3>1. \A v \in Workers : calling[v].op = "connect" => calling[v].token # Len(tokens) + 1
      BY <1>1, <1>4 DEF RequestsHeld
    <3>2. \A a \in Businesses : connection[a].token # Len(tokens) + 1
      BY <1>1, <1>4, SquareBounds DEF TokensHeld
    <3>3. connection'[b].token = Len(tokens) + 1 /\ \A a \in Businesses \ {b} : connection'[a] = connection[a]
      BY <1>1, <2>3, <2>4
    <3> QED
      BY <3>1, <3>2, <3>3, <1>4 DEF TokensApart
  <2> QED
    BY <2>1, <2>2, <2>7, <2>8, <2>9, <2>10, <2>11
<1>6. ASSUME NEW s \in {"REVOKED", "ERROR"}, connection' = [connection EXCEPT ![b].status = s], tokens' = tokens
      PROVE  /\ connection' \in [Businesses -> Square!Row]
             /\ MerchantsApart(connection') /\ TokensHeld(connection', tokens')
             /\ TokensApart(connection', calling)
             /\ RowsWork(connection', tokens', news, outrun)
             /\ RequestsTrue(calling, connection', tokens', outrun)
  <2> DEFINE new == [row EXCEPT !.status = s]
  <2>1. connection' = [connection EXCEPT ![b] = new]
    BY <1>1, <1>6
  <2>2. /\ new \in Square!Row /\ new.token = t /\ new.age = row.age /\ new.merchant = row.merchant
        /\ new.location = row.location /\ new.status # "CONNECTED"
    BY <1>1 DEF Square!Row
  <2> HIDE DEF new
  <2>3. b \notin outrun => RowWorks(new, tokens, news)
    BY <2>2, <1>4 DEF RowsWork, RowWorks
  <2>4. /\ connection[b].merchant = new.merchant /\ connection[b].location = new.location
        /\ new.token \in {connection[b].token, None}
        /\ new.token # None => new.token \in 1..Len(tokens)
        /\ new.age \in {"fresh", "due"} => new.token # None
    BY <1>3, <2>2, <1>2
  <2>5. connection' \in [Businesses -> Square!Row] /\ MerchantsApart(connection')
    BY <1>4, <2>1, <2>2, <2>4, RowRenewed
  <2>6. RequestsTrue(calling, connection', tokens, outrun)
    BY <1>4, <2>1, <2>2, <2>4, RowRenewed
  <2>7. TokensApart(connection', calling)
    BY <1>4, <2>1, <2>2, <2>4, RowRenewed
  <2>8. RowsWork(connection', tokens, news, outrun)
    BY <1>4, <2>1, <2>2, <2>3, <2>4, RowRenewed
  <2>9. TokensHeld(connection', tokens)
    BY <1>4, <2>1, <2>2, <2>4, RowRenewed
  <2> QED
    BY <1>6, <2>5, <2>6, <2>7, <2>8, <2>9
<1>7. CASE connection' = connection /\ tokens' = tokens
  BY <1>1, <1>4, <1>7
<1> QED
  BY <1>1, <1>4, <1>5, <1>6, <1>7 DEF Square!Refresh

LEMMA RenewOK ==
  ASSUME SquareInv, NEW w \in Workers, NEW b \in Businesses, Square!Renew(w, b)
  PROVE  SquareInv'
<1>1. /\ Square!Usable(b) /\ Square!Refresh(b)
      /\ news' = news /\ told' = told /\ outrun' = outrun /\ calling' = calling
  BY DEF Square!Renew
<1>2. Square!TypeOK'
  BY <1>1, RefreshKeeps, SquareTypes, SquareTyped DEF SquareInv
<1> QED
  BY <1>1, <1>2, RefreshKeeps, SquareParts DEF SquareInv

LEMMA RefusedOK ==
  ASSUME SquareInv, NEW w \in Workers, Square!Refused(w)
  PROVE  SquareInv'
<1> DEFINE b == calling[w].business
<1>1. /\ calling[w].op = "call" /\ calling' = [calling EXCEPT ![w] = Square!Idle]
      /\ news' = news /\ told' = told /\ outrun' = outrun
      /\ \/ Square!Usable(b) /\ Square!Refresh(b)
         \/ connection' = connection /\ tokens' = tokens
  BY DEF Square!Refused, Square!Answer
<1>2. Square!TypeOK /\ calling \in [Workers -> Asked] /\ b \in Businesses
  BY <1>1, SquareTypes, RequestKinds DEF SquareInv
<1>3. /\ connection' \in [Businesses -> Square!Row] /\ tokens' \in Seq(Square!Issued)
      /\ Len(tokens') <= MaxTokens
      /\ MerchantsApart(connection') /\ TokensHeld(connection', tokens')
      /\ RequestsHeld(calling, tokens') /\ TokensApart(connection', calling)
      /\ RowsWork(connection', tokens', news, outrun)
      /\ RequestsTrue(calling, connection', tokens', outrun)
  <2>1. CASE connection' = connection /\ tokens' = tokens
    BY <1>2, <2>1, SquareTypes DEF SquareInv
  <2>2. CASE Square!Usable(b) /\ Square!Refresh(b)
    BY <1>2, <2>2, RefreshKeeps
  <2> QED
    BY <1>1, <2>1, <2>2
<1> HIDE DEF b
<1>4. /\ calling' \in [Workers -> Asked] /\ RequestsHeld(calling', tokens')
      /\ TokensApart(connection', calling')
  BY <1>1, <1>2, <1>3, RequestEnds
<1>5. RequestsTrue(calling', connection', tokens', outrun)
  BY <1>1, <1>2, <1>3, RequestEnds
<1>6. Square!TypeOK'
  BY <1>1, <1>2, <1>3, <1>4, SquareTypes, SquareTyped
<1> QED
  BY <1>1, <1>3, <1>4, <1>5, <1>6, SquareParts

\* Who writes a row that another means to write notes it, so that no other relies on the row.
LEMMA Overtakes ==
  ASSUME SquareInv, NEW w, NEW b \in Businesses, NEW n \in Square!Row, NEW P \in [Workers -> Asked],
         \A v \in Workers \ {w} : P[v] = calling[v], w \in Workers => P[w] = Square!Idle,
         NEW more, outrun \subseteq more, Square!Overtaking(w, b) => b \in more
  PROVE  RequestsTrue(P, [connection EXCEPT ![b] = n], tokens, more)
<1> DEFINE new == [connection EXCEPT ![b] = n]
<1>1. connection \in [Businesses -> Square!Row] /\ calling \in [Workers -> Asked] /\ outrun \subseteq Businesses
  BY SquareTypes DEF SquareInv
<1>2. \A a \in Businesses \ {b} : new[a] = connection[a]
  BY <1>1
<1> HIDE DEF new
<1>3. ASSUME NEW v \in Workers, P[v] # Square!Idle, P[v].business \notin more
      PROVE  RequestTrue(P[v], new[P[v].business], tokens)
  <2>1. v # w /\ P[v] = calling[v] /\ P[v].business \notin outrun
    BY <1>3
  <2>2. RequestTrue(calling[v], connection[calling[v].business], tokens)
    BY <1>3, <2>1 DEF SquareInv, RequestsTrue
  <2>3. P[v].op \in {"connect", "choose"} => P[v].business \in Businesses \ {b}
    BY <1>1, <1>3, <2>1, RequestKinds DEF Square!Overtaking
  <2> QED
    BY <1>2, <2>1, <2>2, <2>3 DEF RequestTrue
<1> QED
  BY <1>3 DEF RequestsTrue, new

\* Fewer businesses that count, and the same rows, tokens and news.
LEMMA FewerRows ==
  ASSUME NEW rows, NEW issued, NEW due, NEW exc, NEW more, exc \subseteq more
  PROVE  RowsWork(rows, issued, due, exc) => RowsWork(rows, issued, due, more)
  BY DEF RowsWork

\* The callback's tokens are stored.
LEMMA StoreOK == ASSUME SquareInv, NEW w \in Workers, Square!Store(w) PROVE SquareInv'
<1> DEFINE q == calling[w]
           b == calling[w].business
           row == connection[b]
           m == tokens[calling[w].token].merchant
           seen == IF q.seen = Square!Idle THEN row ELSE q.seen
           new(loc) == [merchant |-> IF seen.merchant = m THEN row.merchant ELSE m,
                        token    |-> q.token, age |-> "fresh",
                        status   |-> IF seen.status = "CONNECTED" THEN row.status ELSE "CONNECTED",
                        location |-> IF seen.location = loc THEN row.location ELSE loc]
<1>1. q.op = "connect" /\ calling' = [calling EXCEPT ![w] = Square!Idle]
      /\ tokens' = tokens /\ news' = news /\ told' = told
  BY DEF Square!Store, Square!Answer
<1>2. /\ outrun \subseteq outrun' /\ outrun' \subseteq outrun \union {b}
      /\ Square!Overtaking(w, b) => b \in outrun'
  BY DEF Square!Store, Square!Overtake
<1>3. \/ connection' = connection
      \/ /\ Square!OwnersOf(m) \subseteq {b}
         /\ \E loc \in {m, None} : connection' = [connection EXCEPT ![b] = new(loc)]
  BY DEF Square!Store
<1>4. /\ Square!TypeOK /\ calling \in [Workers -> Asked] /\ q \in Asked /\ b \in Businesses
      /\ connection \in [Businesses -> Square!Row] /\ row \in Square!Row
      /\ q.token \in 1..MaxTokens /\ q.seen \in Square!Row \union {Square!Idle} /\ seen \in Square!Row
  <2>1. Square!TypeOK /\ calling \in [Workers -> Asked] /\ connection \in [Businesses -> Square!Row]
    BY SquareTypes DEF SquareInv
  <2> QED
    BY <1>1, <2>1, RequestKinds
<1>5. q.token \in 1..Len(tokens) /\ m \in Merchants /\ m # None
  <2>1. q.token \in 1..Len(tokens)
    BY <1>1 DEF SquareInv, RequestsHeld
  <2>2. tokens[q.token] \in Square!Issued
    BY <2>1, <1>4, SquareTypes
  <2> QED
    BY <2>1, <2>2, SquareBounds DEF Square!Issued
<1>6. /\ calling' \in [Workers -> Asked] /\ RequestsHeld(calling', tokens)
      /\ TokensApart(connection, calling') /\ calling'[w] = Square!Idle
      /\ \A v \in Workers \ {w} : calling'[v] = calling[v]
  <2>1. calling' \in [Workers -> Asked] /\ RequestsHeld(calling', tokens) /\ TokensApart(connection, calling')
    BY <1>1, <1>4, RequestEnds DEF SquareInv
  <2> QED
    BY <1>1, <1>4, <2>1
<1>7. b \notin outrun => /\ tokens[q.token].granted
                        /\ seen.merchant = row.merchant /\ seen.location = row.location
  BY <1>1, <1>4, RequestKinds DEF SquareInv, RequestsTrue, RequestTrue
<1>8. outrun \subseteq outrun'
  BY <1>2
<1>9. CASE connection' = connection
  <2>1. [connection EXCEPT ![b] = row] = connection
    BY <1>4
  <2>2. outrun' \subseteq Businesses /\ RequestsTrue(calling', connection, tokens, outrun')
    <3>1. RequestsTrue(calling', [connection EXCEPT ![b] = row], tokens, outrun')
      BY <1>2, <1>4, <1>6, Overtakes
    <3>2. outrun' \subseteq Businesses
      BY <1>2, <1>4, SquareTypes
    <3> QED
      BY <3>1, <3>2, <2>1
  <2>3. Square!TypeOK'
    BY <1>1, <1>4, <1>6, <1>9, <2>2, SquareTypes, SquareTyped
  <2> QED
    BY <1>1, <1>6, <1>8, <1>9, <2>2, <2>3, FewerRows, SquareParts DEF SquareInv
<1>10. ASSUME NEW loc \in {m, None}, Square!OwnersOf(m) \subseteq {b},
              connection' = [connection EXCEPT ![b] = new(loc)]
       PROVE  SquareInv'
  <2> DEFINE n == new(loc)
  <2>1. /\ n \in Square!Row /\ n.token = q.token /\ n.merchant \in {row.merchant, m}
        /\ b \notin outrun => n.merchant = m /\ n.location = loc
    <3>1. /\ n.merchant \in {row.merchant, m} /\ n.token = q.token /\ n.age = "fresh"
          /\ n.status \in {row.status, "CONNECTED"} /\ n.location \in {row.location, loc}
      OBVIOUS
    <3>2. n \in Square!Row
      BY <1>4, <1>5, RowFields DEF Square!Row, Square!Token
    <3>3. b \notin outrun => n.merchant = m /\ n.location = loc
      BY <1>7
    <3> QED
      BY <3>1, <3>2, <3>3
  <2> HIDE DEF n
  <2>2. connection' = [connection EXCEPT ![b] = n]
    BY <1>10 DEF n
  <2>3. /\ connection' \in [Businesses -> Square!Row] /\ connection'[b] = n
        /\ \A a \in Businesses \ {b} : connection'[a] = connection[a]
    BY <1>4, <2>1, <2>2
  <2>4. outrun' \subseteq Businesses /\ RequestsTrue(calling', connection', tokens, outrun')
    <3>1. RequestsTrue(calling', [connection EXCEPT ![b] = n], tokens, outrun')
      BY <1>2, <1>4, <1>6, <2>1, Overtakes
    <3>2. outrun' \subseteq Businesses
      BY <1>2, <1>4, SquareTypes
    <3> QED
      BY <3>1, <3>2, <2>2
  <2>5. MerchantsApart(connection')
    <3>1. \A a \in Businesses \ {b} : connection[a].merchant # m
      BY <1>10 DEF Square!OwnersOf
    <3> QED
      BY <3>1, <2>1, <2>3, <1>4 DEF SquareInv, MerchantsApart
  <2>6. TokensHeld(connection', tokens)
    <3>1. q.token # None /\ Len(tokens) > 0
      BY <1>4, <1>5, SquareTypes, SquareBounds
    <3> QED
      BY <3>1, <1>5, <2>1, <2>3 DEF SquareInv, TokensHeld
  <2>7. TokensApart(connection', calling')
    <3>1. \A a \in Businesses : connection[a].token # q.token
      BY <1>1 DEF SquareInv, TokensApart
    <3>2. \A v \in Workers \ {w} : calling[v].op = "connect" => calling[v].token # q.token
      BY <1>1 DEF SquareInv, TokensApart
    <3> QED
      BY <3>1, <3>2, <1>6, <2>1, <2>3, IdleRequest DEF TokensApart
  <2>8. RowsWork(connection', tokens, news, outrun')
    <3>1. b \notin outrun => RowWorks(n, tokens, news)
      BY <2>1, <1>7 DEF RowWorks
    <3> QED
      BY <3>1, <1>8, <2>3 DEF SquareInv, RowsWork
  <2>9. Square!TypeOK'
    BY <1>1, <1>4, <1>6, <2>3, <2>4, SquareTypes, SquareTyped
  <2> QED
    BY <1>1, <1>6, <2>4, <2>5, <2>6, <2>7, <2>8, <2>9, SquareParts
<1> QED
  BY <1>3, <1>9, <1>10

\* The location chosen is written without a lock.
LEMMA LocationOK == ASSUME SquareInv, NEW w \in Workers, Square!LocationChosen(w) PROVE SquareInv'
<1> DEFINE q == calling[w]
           b == calling[w].business
           row == connection[b]
           n == [row EXCEPT !.location = q.merchant]
<1>1. /\ q.op = "choose" /\ calling' = [calling EXCEPT ![w] = Square!Idle]
      /\ tokens' = tokens /\ news' = news /\ told' = told
      /\ connection' = [connection EXCEPT ![b].location = q.merchant]
      /\ outrun \subseteq outrun' /\ outrun' \subseteq outrun \union {b}
      /\ Square!Overtaking(w, b) => b \in outrun'
  BY DEF Square!LocationChosen, Square!Overtake, Square!Answer
<1>2. Square!TypeOK /\ calling \in [Workers -> Asked] /\ connection \in [Businesses -> Square!Row]
  BY SquareTypes DEF SquareInv
<1>3. q \in Asked /\ b \in Businesses /\ q.merchant \in Merchants /\ row \in Square!Row
  BY <1>1, <1>2, RequestKinds
<1>4. /\ n \in Square!Row /\ n.token = row.token /\ n.merchant = row.merchant /\ n.age = row.age
      /\ n.status = row.status /\ n.location = q.merchant /\ connection' = [connection EXCEPT ![b] = n]
  BY <1>1, <1>2, <1>3 DEF Square!Row
<1> HIDE DEF n
<1>5. /\ calling' \in [Workers -> Asked] /\ RequestsHeld(calling', tokens)
      /\ TokensApart(connection, calling') /\ calling'[w] = Square!Idle
      /\ \A v \in Workers \ {w} : calling'[v] = calling[v]
  <2>1. calling' \in [Workers -> Asked] /\ RequestsHeld(calling', tokens) /\ TokensApart(connection, calling')
    BY <1>1, <1>2, RequestEnds DEF SquareInv
  <2> QED
    BY <1>1, <1>2, <2>1
<1>6. outrun' \subseteq Businesses /\ RequestsTrue(calling', connection', tokens, outrun')
  <2>1. RequestsTrue(calling', [connection EXCEPT ![b] = n], tokens, outrun')
    BY <1>1, <1>3, <1>4, <1>5, Overtakes
  <2>2. outrun' \subseteq Businesses
    BY <1>1, <1>2, <1>3, SquareTypes
  <2> QED
    BY <2>1, <2>2, <1>4
<1>7. /\ connection' \in [Businesses -> Square!Row] /\ connection'[b] = n
      /\ \A a \in Businesses \ {b} : connection'[a] = connection[a]
  BY <1>2, <1>3, <1>4
<1>8. MerchantsApart(connection') /\ TokensHeld(connection', tokens) /\ TokensApart(connection', calling')
  <2>1. MerchantsApart(connection') /\ TokensHeld(connection', tokens)
    BY <1>4, <1>7 DEF SquareInv, MerchantsApart, TokensHeld
  <2>2. TokensApart(connection', calling')
    BY <1>4, <1>5, <1>7 DEF TokensApart
  <2> QED
    BY <2>1, <2>2
<1>9. RowsWork(connection', tokens, news, outrun')
  <2>1. b \notin outrun => row.merchant \in {q.merchant, None} /\ RowWorks(row, tokens, news)
    BY <1>1, <1>2, <1>3, RequestKinds DEF SquareInv, RequestsTrue, RequestTrue, RowsWork
  <2>2. b \notin outrun => RowWorks(n, tokens, news)
    BY <1>4, <2>1 DEF RowWorks
  <2> QED
    BY <2>2, <1>1, <1>7 DEF SquareInv, RowsWork
<1>10. Square!TypeOK'
  BY <1>1, <1>2, <1>5, <1>6, <1>7, SquareTypes, SquareTyped
<1> QED
  BY <1>1, <1>5, <1>6, <1>8, <1>9, <1>10, SquareParts

-----------------------------------------------------------------------------
\* Tokens that keep their merchants and their authorisation: the rows and requests stand.
LEMMA TokensSame ==
  ASSUME NEW issued \in Seq(Square!Issued), NEW same \in Seq(Square!Issued), Len(same) = Len(issued),
         \A t \in 1..Len(issued) : same[t].merchant = issued[t].merchant /\ same[t].granted = issued[t].granted,
         NEW rows, NEW Q \in [Workers -> Asked], NEW due, NEW exc,
         TokensHeld(rows, issued), RequestsHeld(Q, issued)
  PROVE  /\ TokensHeld(rows, same) /\ RequestsHeld(Q, same)
         /\ RowsWork(rows, issued, due, exc) => RowsWork(rows, same, due, exc)
         /\ RequestsTrue(Q, rows, issued, exc) => RequestsTrue(Q, rows, same, exc)
<1>1. TokensHeld(rows, same)
  BY DEF TokensHeld
<1>2. RequestsHeld(Q, same)
  BY DEF RequestsHeld
<1>3. RowsWork(rows, issued, due, exc) => RowsWork(rows, same, due, exc)
  BY DEF TokensHeld, RowsWork, RowWorks
<1>4. RequestsTrue(Q, rows, issued, exc) => RequestsTrue(Q, rows, same, exc)
  BY RequestKinds DEF RequestsHeld, RequestsTrue, RequestTrue
<1> QED
  BY <1>1, <1>2, <1>3, <1>4

LEMMA EndEarlyOK == ASSUME SquareInv, NEW b \in Businesses, Square!EndEarly(b) PROVE SquareInv'
<1> DEFINE t == connection[b].token
           n == [tokens[t] EXCEPT !.live = FALSE]
<1>1. /\ t # None /\ tokens' = [tokens EXCEPT ![t].live = FALSE]
      /\ connection' = connection /\ news' = news /\ told' = told /\ outrun' = outrun /\ calling' = calling
  BY DEF Square!EndEarly
<1>2. Square!TypeOK /\ tokens \in Seq(Square!Issued) /\ Len(tokens) \in Nat /\ calling \in [Workers -> Asked]
  BY SquareTypes DEF SquareInv
<1>3. t \in 1..Len(tokens)
  BY <1>1 DEF SquareInv, TokensHeld
<1>4. /\ tokens[t] \in Square!Issued /\ n \in Square!Issued /\ n.merchant = tokens[t].merchant
      /\ n.granted = tokens[t].granted /\ tokens' = [tokens EXCEPT ![t] = n]
  <2>1. tokens[t] \in Square!Issued
    BY <1>2, <1>3, SquareTypes
  <2> QED
    BY <1>1, <2>1 DEF Square!Issued
<1> HIDE DEF n, t
<1>5. /\ tokens' \in Seq(Square!Issued) /\ Len(tokens') = Len(tokens)
      /\ \A i \in 1..Len(tokens) : tokens'[i] = IF i = t THEN n ELSE tokens[i]
  BY <1>2, <1>3, <1>4, ExceptSeq
<1>6. /\ TokensHeld(connection, tokens') /\ RequestsHeld(calling, tokens')
      /\ RowsWork(connection, tokens', news, outrun) /\ RequestsTrue(calling, connection, tokens', outrun)
  <2>1. \A i \in 1..Len(tokens) :
           tokens'[i].merchant = tokens[i].merchant /\ tokens'[i].granted = tokens[i].granted
    BY <1>4, <1>5
  <2> QED
    BY <1>2, <1>5, <2>1, TokensSame DEF SquareInv
<1>7. Square!TypeOK'
  BY <1>1, <1>2, <1>5, SquareTypes, SquareTyped
<1> QED
  BY <1>1, <1>6, <1>7, SquareParts DEF SquareInv

LEMMA AgeOK == ASSUME SquareInv, NEW b \in Businesses, Square!Age(b) PROVE SquareInv'
<1> DEFINE row == connection[b]
           t == row.token
           n == [row EXCEPT !.age = IF row.age = "fresh" THEN "due" ELSE "expired"]
           token == [tokens[t] EXCEPT !.live = (tokens[t].live /\ row.age = "fresh")]
<1>1. /\ row.age \in {"fresh", "due"}
      /\ connection' = [connection EXCEPT ![b].age = IF row.age = "fresh" THEN "due" ELSE "expired"]
      /\ tokens' = [tokens EXCEPT ![t].live = (tokens[t].live /\ row.age = "fresh")]
      /\ news' = news /\ told' = told /\ outrun' = outrun /\ calling' = calling
  BY DEF Square!Age
<1>2. /\ Square!TypeOK /\ tokens \in Seq(Square!Issued) /\ Len(tokens) \in Nat
      /\ calling \in [Workers -> Asked] /\ connection \in [Businesses -> Square!Row] /\ row \in Square!Row
  BY SquareTypes DEF SquareInv
<1>3. t # None /\ t \in 1..Len(tokens)
  BY <1>1 DEF SquareInv, TokensHeld
<1>4. /\ tokens[t] \in Square!Issued /\ token \in Square!Issued /\ token.merchant = tokens[t].merchant
      /\ token.granted = tokens[t].granted /\ tokens' = [tokens EXCEPT ![t] = token]
  <2>1. tokens[t] \in Square!Issued
    BY <1>2, <1>3, SquareTypes
  <2>2. tokens' = [tokens EXCEPT ![t] = token]
    BY <1>1
  <2>3. (tokens[t].live /\ row.age = "fresh") \in BOOLEAN
    OBVIOUS
  <2> QED
    BY <2>1, <2>2, <2>3 DEF Square!Issued
<1>5. /\ n \in Square!Row /\ n.merchant = row.merchant /\ n.location = row.location /\ n.token = t
      /\ n.status = row.status /\ connection' = [connection EXCEPT ![b] = n]
  BY <1>1, <1>2 DEF Square!Row
<1> HIDE DEF token, n
<1>6. /\ tokens' \in Seq(Square!Issued) /\ Len(tokens') = Len(tokens)
      /\ \A i \in 1..Len(tokens) : tokens'[i] = IF i = t THEN token ELSE tokens[i]
  BY <1>2, <1>3, <1>4, ExceptSeq
<1>7. /\ TokensHeld(connection, tokens') /\ RequestsHeld(calling, tokens')
      /\ RowsWork(connection, tokens', news, outrun) /\ RequestsTrue(calling, connection, tokens', outrun)
  <2>1. \A i \in 1..Len(tokens) :
           tokens'[i].merchant = tokens[i].merchant /\ tokens'[i].granted = tokens[i].granted
    BY <1>4, <1>6
  <2> QED
    BY <1>2, <1>6, <2>1, TokensSame DEF SquareInv
<1>8. /\ b \notin outrun => RowWorks(n, tokens', news)
      /\ n.token # None /\ n.token \in 1..Len(tokens') /\ n.token \in {connection[b].token, None}
  BY <1>3, <1>5, <1>6, <1>7 DEF RowsWork, RowWorks
<1>9. connection' \in [Businesses -> Square!Row] /\ MerchantsApart(connection')
  BY <1>5, <1>7, RowRenewed
<1>10. RequestsTrue(calling, connection', tokens', outrun)
  BY <1>5, <1>7, RowRenewed
<1>11. TokensApart(connection', calling)
  BY <1>5, <1>7, <1>8, RowRenewed DEF SquareInv
<1>12. RowsWork(connection', tokens', news, outrun)
  BY <1>5, <1>7, <1>8, RowRenewed
<1>13. TokensHeld(connection', tokens')
  BY <1>5, <1>7, <1>8, RowRenewed
<1>14. Square!TypeOK'
  BY <1>1, <1>2, <1>6, <1>9, SquareTypes, SquareTyped
<1> QED
  BY <1>1, <1>7, <1>9, <1>10, <1>11, <1>12, <1>13, <1>14, SquareParts

\* The merchant's tokens are worth nothing, its business has news to come, and those that
\* have one of the tokens in hand do not rely on it.
LEMMA WithdrawKeeps ==
  ASSUME SquareInv, NEW m \in Merchants, Len(tokens) > 0, Square!Withdraw(m)
  PROVE  /\ tokens' \in Seq(Square!Issued) /\ Len(tokens') = Len(tokens)
         /\ news' \subseteq [merchant : Merchants, upto : 1..MaxTokens] /\ told' \in 0..MaxNews
         /\ outrun \subseteq outrun' /\ outrun' \subseteq Businesses
         /\ TokensHeld(connection, tokens') /\ RequestsHeld(calling, tokens')
         /\ RowsWork(connection, tokens', news', outrun')
         /\ RequestsTrue(calling, connection, tokens', outrun')
         /\ \A w \in Workers : calling[w].op = "connect" /\ calling[w].business \notin outrun' =>
                tokens[calling[w].token].merchant # m
<1>1. /\ told < MaxNews /\ told' = told + 1
      /\ tokens' = [t \in DOMAIN tokens |->
                        IF tokens[t].merchant = m THEN [tokens[t] EXCEPT !.live = FALSE, !.granted = FALSE]
                        ELSE tokens[t]]
      /\ news' = news \union {[merchant |-> m, upto |-> Len(tokens)]}
      /\ outrun' = outrun \union {calling[w].business : w \in {v \in Workers :
                       calling[v].op = "connect" /\ tokens[calling[v].token].merchant = m}}
  BY DEF Square!Withdraw
<1>2. /\ Square!TypeOK /\ tokens \in Seq(Square!Issued) /\ Len(tokens) \in Nat /\ Len(tokens) <= MaxTokens
      /\ calling \in [Workers -> Asked] /\ connection \in [Businesses -> Square!Row]
      /\ DOMAIN tokens = 1..Len(tokens) /\ \A t \in 1..Len(tokens) : tokens[t] \in Square!Issued
  BY SquareTypes, LenProperties DEF SquareInv
<1>3. \A t \in 1..Len(tokens) : /\ tokens'[t] \in Square!Issued /\ tokens'[t].merchant = tokens[t].merchant
                                /\ tokens[t].merchant # m => tokens'[t] = tokens[t]
  BY <1>1, <1>2 DEF Square!Issued
<1>4. tokens' \in Seq(Square!Issued) /\ Len(tokens') = Len(tokens)
  <2>1. DOMAIN tokens' = 1..Len(tokens)
    BY <1>1, <1>2
  <2>2. tokens' \in [1..Len(tokens) -> Square!Issued]
    BY <1>1, <1>2, <1>3, <2>1
  <2>3. tokens' \in Seq(Square!Issued)
    BY <1>2, <2>2, SeqDef
  <2> QED
    BY <1>2, <2>1, <2>3, LenProperties
<1>5. /\ news' \subseteq [merchant : Merchants, upto : 1..MaxTokens] /\ told' \in 0..MaxNews
      /\ outrun \subseteq outrun' /\ outrun' \subseteq Businesses
  <2>1. news' \subseteq [merchant : Merchants, upto : 1..MaxTokens]
    <3>1. Len(tokens) \in 1..MaxTokens
      BY <1>2, SquareBounds
    <3>2. news \subseteq [merchant : Merchants, upto : 1..MaxTokens]
      BY <1>2, SquareTypes
    <3>3. [merchant |-> m, upto |-> Len(tokens)] \in [merchant : Merchants, upto : 1..MaxTokens]
      BY <3>1
    <3>4. news' = news \union {[merchant |-> m, upto |-> Len(tokens)]}
      BY <1>1
    <3> QED
      BY <3>2, <3>3, <3>4
  <2>2. told' \in 0..MaxNews
    <3>1. told \in 0..MaxNews /\ MaxNews \in Nat
      BY <1>2, SquareTypes, SquareBounds
    <3>2. told < MaxNews /\ told' = told + 1
      BY <1>1
    <3> QED
      BY <3>1, <3>2
  <2>3. outrun \subseteq outrun' /\ outrun' \subseteq Businesses
    BY <1>1, <1>2, SquareTypes, RequestKinds
  <2> QED
    BY <2>1, <2>2, <2>3
<1>6. TokensHeld(connection, tokens') /\ RequestsHeld(calling, tokens')
  <2>1. TokensHeld(connection, tokens')
    BY <1>4 DEF SquareInv, TokensHeld
  <2>2. RequestsHeld(calling, tokens')
    BY <1>3, <1>4 DEF SquareInv, RequestsHeld
  <2> QED
    BY <2>1, <2>2
<1>7. \A w \in Workers : calling[w].op = "connect" /\ calling[w].business \notin outrun' =>
         tokens[calling[w].token].merchant # m
  BY <1>1
<1>8. RowsWork(connection, tokens', news', outrun')
  <2> SUFFICES ASSUME NEW b \in Businesses \ outrun' PROVE RowWorks(connection[b], tokens', news')
    BY DEF RowsWork
  <2>1. RowWorks(connection[b], tokens, news)
    BY <1>5 DEF SquareInv, RowsWork
  <2>2. connection[b].token # None => connection[b].token \in 1..Len(tokens)
    BY DEF SquareInv, TokensHeld
  <2> DEFINE e == [merchant |-> m, upto |-> Len(tokens)]
  <2>3. e \in news' /\ e.merchant = m /\ e.upto = Len(tokens) /\ news \subseteq news'
    BY <1>1
  <2> HIDE DEF e
  <2>4. CASE connection[b].merchant = m
    <3>1. connection[b].token # None => e.upto >= connection[b].token
      BY <2>2, <2>3, <1>2
    <3> QED
      BY <2>1, <2>2, <2>3, <2>4, <3>1, <1>3 DEF RowWorks
  <2>5. CASE connection[b].merchant # m
    <3>1. connection[b].token # None =>
             tokens'[connection[b].token] = tokens[connection[b].token]
      BY <2>1, <2>2, <2>5, <1>3 DEF RowWorks
    <3> QED
      BY <2>1, <2>3, <3>1 DEF RowWorks
  <2> QED
    BY <2>4, <2>5
<1>9. RequestsTrue(calling, connection, tokens', outrun')
  <2> SUFFICES ASSUME NEW w \in Workers, calling[w] # Square!Idle, calling[w].business \notin outrun'
               PROVE  RequestTrue(calling[w], connection[calling[w].business], tokens')
    BY DEF RequestsTrue
  <2>1. RequestTrue(calling[w], connection[calling[w].business], tokens)
    BY <1>5 DEF SquareInv, RequestsTrue
  <2>2. calling[w].op = "connect" => tokens'[calling[w].token] = tokens[calling[w].token]
    BY <1>3, <1>7 DEF SquareInv, RequestsHeld
  <2> QED
    BY <2>1, <2>2 DEF RequestTrue
<1> QED
  BY <1>4, <1>5, <1>6, <1>7, <1>8, <1>9

LEMMA RevokeOK == ASSUME SquareInv, NEW m \in Merchants, Square!Revoke(m) PROVE SquareInv'
<1>1. /\ Square!Withdraw(m) /\ connection' = connection /\ calling' = calling
      /\ \E t \in DOMAIN tokens : tokens[t].merchant = m
  BY DEF Square!Revoke
<1>2. Len(tokens) > 0 /\ Len(tokens) \in Nat /\ Len(tokens) <= MaxTokens
  BY <1>1, SquareTypes, LenProperties DEF SquareInv
<1>3. Square!TypeOK'
  BY <1>1, <1>2, WithdrawKeeps, SquareTypes, SquareTyped DEF SquareInv
<1> QED
  BY <1>1, <1>2, <1>3, WithdrawKeeps, SquareParts DEF SquareInv

LEMMA DisconnectOK == ASSUME SquareInv, NEW b \in Businesses, Square!Disconnect(b) PROVE SquareInv'
<1> DEFINE m == connection[b].merchant
           n == Square!Cleared
<1>1. /\ m # None /\ connection' = [connection EXCEPT ![b] = n] /\ calling' = calling
      /\ \/ Square!Withdraw(m)
         \/ /\ outrun \subseteq outrun' /\ outrun' \subseteq outrun \union {b}
            /\ Square!Overtaking(None, b) => b \in outrun'
            /\ tokens' = tokens /\ news' = news /\ told' = told
  BY DEF Square!Disconnect
<1>2. /\ Square!TypeOK /\ tokens \in Seq(Square!Issued) /\ Len(tokens) \in Nat /\ Len(tokens) <= MaxTokens
      /\ calling \in [Workers -> Asked] /\ connection \in [Businesses -> Square!Row] /\ m \in Merchants
  <2>1. connection[b] \in Square!Row
    BY SquareTypes DEF SquareInv
  <2> QED
    BY <1>1, <2>1, RowFields, SquareTypes DEF SquareInv
<1>3. Len(tokens) > 0
  BY <1>1 DEF SquareInv, TokensHeld
<1>4. /\ n \in Square!Row /\ n.merchant = None /\ n.token = None
      /\ n.age = None /\ n.status = "NOT_CONNECTED"
  BY DEF Square!Cleared, Square!Row
<1> HIDE DEF n
<1>5. /\ connection' \in [Businesses -> Square!Row] /\ connection'[b] = n
      /\ \A a \in Businesses \ {b} : connection'[a] = connection[a]
  BY <1>1, <1>2, <1>4
<1>6. /\ tokens' \in Seq(Square!Issued) /\ Len(tokens') = Len(tokens)
      /\ news' \subseteq [merchant : Merchants, upto : 1..MaxTokens] /\ told' \in 0..MaxNews
      /\ outrun \subseteq outrun' /\ outrun' \subseteq Businesses
      /\ TokensHeld(connection, tokens') /\ RequestsHeld(calling, tokens')
      /\ RowsWork(connection, tokens', news', outrun')
  <2>1. CASE Square!Withdraw(m)
    BY <1>2, <1>3, <2>1, WithdrawKeeps
  <2>2. CASE /\ outrun \subseteq outrun' /\ outrun' \subseteq outrun \union {b}
             /\ Square!Overtaking(None, b) => b \in outrun'
             /\ tokens' = tokens /\ news' = news /\ told' = told
    BY <1>2, <2>2, SquareTypes, FewerRows DEF SquareInv
  <2> QED
    BY <1>1, <2>1, <2>2
<1>7. RequestsTrue(calling, connection', tokens', outrun')
  <2>1. CASE Square!Withdraw(m)
    <3> SUFFICES ASSUME NEW w \in Workers, calling[w] # Square!Idle, calling[w].business \notin outrun'
                 PROVE  RequestTrue(calling[w], connection'[calling[w].business], tokens')
      BY DEF RequestsTrue
    <3>1. /\ RequestTrue(calling[w], connection[calling[w].business], tokens')
          /\ calling[w].op = "connect" => tokens[calling[w].token].merchant # m
      BY <1>2, <1>3, <2>1, WithdrawKeeps DEF RequestsTrue
    <3>2. CASE calling[w].business # b
      <4>1. calling[w].op \in {"connect", "choose"} => calling[w].business \in Businesses \ {b}
        BY <1>2, <3>2, RequestKinds
      <4> QED
        BY <3>1, <4>1, <1>5 DEF RequestTrue
    <3>3. CASE calling[w].business = b
      <4>1. calling[w].op = "connect" => calling[w].seen = Square!Idle
        BY <3>1, <3>3 DEF RequestTrue, SquareInv, RequestsHeld
      <4> QED
        BY <3>1, <3>3, <4>1, <1>4, <1>5 DEF RequestTrue
    <3> QED
      BY <3>2, <3>3
  <2>2. CASE /\ outrun \subseteq outrun'
             /\ Square!Overtaking(None, b) => b \in outrun'
             /\ tokens' = tokens
    <3>1. RequestsTrue(calling, [connection EXCEPT ![b] = n], tokens, outrun')
      BY <1>2, <1>4, <2>2, Overtakes, SquareBounds
    <3> QED
      BY <3>1, <1>1, <2>2
  <2> QED
    BY <1>1, <2>1, <2>2
<1>8. MerchantsApart(connection') /\ TokensHeld(connection', tokens') /\ TokensApart(connection', calling)
  <2>1. MerchantsApart(connection')
    BY <1>4, <1>5 DEF SquareInv, MerchantsApart
  <2>2. TokensHeld(connection', tokens')
    BY <1>4, <1>5, <1>6, SquareBounds DEF TokensHeld
  <2>3. \A w \in Workers : calling[w].op = "connect" => calling[w].token # None
    BY <1>2, RequestKinds, SquareBounds
  <2>4. TokensApart(connection', calling)
    BY <1>4, <1>5, <2>3 DEF SquareInv, TokensApart
  <2> QED
    BY <2>1, <2>2, <2>4
<1>9. RowsWork(connection', tokens', news', outrun')
  BY <1>4, <1>5, <1>6 DEF RowsWork, RowWorks
<1>10. Square!TypeOK'
  BY <1>1, <1>2, <1>5, <1>6, SquareTyped
<1> QED
  BY <1>1, <1>6, <1>7, <1>8, <1>9, <1>10, SquareParts

\* Whatever the merchant's row holds by now is dropped.
LEMMA RevokedOK == ASSUME SquareInv, NEW e \in news, Square!Revoked(e) PROVE SquareInv'
<1> DEFINE new(b) == [connection[b] EXCEPT !.token = None, !.age = None, !.status = "REVOKED"]
<1>1. /\ news' = news \ {e} /\ tokens' = tokens /\ told' = told /\ calling' = calling
      /\ connection' = [b \in Businesses |->
                           IF b \in Square!OwnersOf(e.merchant) THEN new(b) ELSE connection[b]]
      /\ outrun \subseteq outrun' /\ outrun' \subseteq outrun \union Businesses
  BY DEF Square!Revoked, Square!OwnersOf
<1>2. /\ Square!TypeOK /\ tokens \in Seq(Square!Issued) /\ Len(tokens) <= MaxTokens
      /\ calling \in [Workers -> Asked] /\ connection \in [Businesses -> Square!Row]
      /\ \A b \in Businesses : connection[b] \in Square!Row
  BY SquareTypes DEF SquareInv
<1>3. \A b \in Businesses : /\ new(b) \in Square!Row /\ new(b).merchant = connection[b].merchant
                            /\ new(b).location = connection[b].location /\ new(b).token = None
                            /\ new(b).age = None /\ new(b).status = "REVOKED"
  BY <1>2 DEF Square!Row
<1> HIDE DEF new
<1>4. \A b \in Businesses :
         /\ connection'[b] \in Square!Row
         /\ connection'[b].merchant = connection[b].merchant /\ connection'[b].location = connection[b].location
         /\ \/ connection'[b] = connection[b] /\ connection[b].merchant # e.merchant
            \/ connection'[b].token = None /\ connection'[b].age = None /\ connection'[b].status = "REVOKED"
  BY <1>1, <1>2, <1>3 DEF Square!OwnersOf
<1>5. connection' \in [Businesses -> Square!Row]
  <2>1. DOMAIN connection' = Businesses
    BY <1>1
  <2>2. connection' = [b \in Businesses |-> connection'[b]]
    BY <1>1
  <2> QED
    BY <1>4, <2>2
<1>6. MerchantsApart(connection') /\ TokensHeld(connection', tokens)
  BY <1>4, SquareBounds DEF SquareInv, MerchantsApart, TokensHeld
<1>7. TokensApart(connection', calling)
  <2>1. \A w \in Workers : calling[w].op = "connect" => calling[w].token # None
    BY <1>2, RequestKinds, SquareBounds
  <2> QED
    BY <1>4, <2>1 DEF SquareInv, TokensApart
<1>8. RowsWork(connection', tokens, news', outrun')
  <2> SUFFICES ASSUME NEW b \in Businesses \ outrun' PROVE RowWorks(connection'[b], tokens, news')
    BY DEF RowsWork
  <2>1. RowWorks(connection[b], tokens, news)
    BY <1>1 DEF SquareInv, RowsWork
  <2> QED
    BY <1>1, <1>4, <2>1 DEF RowWorks
<1>9. RequestsTrue(calling, connection', tokens, outrun')
  <2> SUFFICES ASSUME NEW w \in Workers, calling[w] # Square!Idle, calling[w].business \notin outrun'
               PROVE  RequestTrue(calling[w], connection'[calling[w].business], tokens)
    BY DEF RequestsTrue
  <2>1. RequestTrue(calling[w], connection[calling[w].business], tokens)
    BY <1>1 DEF SquareInv, RequestsTrue
  <2>2. calling[w].op \in {"connect", "choose"} => calling[w].business \in Businesses
    BY <1>2, RequestKinds
  <2> QED
    BY <1>4, <2>1, <2>2 DEF RequestTrue
<1>10. Square!TypeOK'
  <2>1. news' \subseteq [merchant : Merchants, upto : 1..MaxTokens] /\ outrun' \subseteq Businesses
    BY <1>1, <1>2, SquareTypes
  <2> QED
    BY <1>1, <1>2, <1>5, <2>1, SquareTypes, SquareTyped
<1> QED
  BY <1>1, <1>6, <1>7, <1>8, <1>9, <1>10, SquareParts DEF SquareInv

LEMMA SquareStepOK == SquareInv /\ [Square!Next]_(Square!squareVars) => SquareInv'
<1> SUFFICES ASSUME SquareInv, [Square!Next]_(Square!squareVars) PROVE SquareInv'
  OBVIOUS
<1>1. CASE UNCHANGED Square!squareVars
  <2>1. UNCHANGED <<connection, tokens, news, told, calling, outrun>>
    BY <1>1 DEF Square!squareVars
  <2>2. Square!TypeOK'
    BY <2>1 DEF SquareInv, Square!TypeOK
  <2> QED
    BY <2>1, <2>2, SquareParts DEF SquareInv
<1>2. CASE Square!Next
  BY <1>2, ExchangeOK, SquareBegins, RenewOK, RefusedOK, SquareEndOK, StoreOK, LocationOK, DisconnectOK,
     AgeOK, EndEarlyOK, RevokeOK, RevokedOK DEF Square!Next
<1> QED
  BY <1>1, <1>2

-----------------------------------------------------------------------------
(* What a step may do to a good token, and to a connection. *)
KeepsTokens ==
    /\ \A t \in DOMAIN tokens' \ DOMAIN tokens, b \in Businesses :
          tokens'[t].of = connection[b].token =>
              connection[b].token = None \/ connection[b].age # "fresh" \/ ~tokens[connection[b].token].live
    /\ \A b \in Businesses : Square!Connected(b) /\ connection'[b].status \in {"REVOKED", "ERROR"} =>
          \/ connection[b].token = None \/ ~tokens[connection[b].token].granted
          \/ connection[b].age = "expired"
          \/ \E e \in news \ news' : e.merchant = connection[b].merchant

\* A token is renewed for the one business that has it, when it is old or refused, and its
\* connection is given up when the authorisation is withdrawn or the token has run out.
LEMMA RefreshKeepsTokens ==
  ASSUME SquareInv, NEW b \in Businesses, Square!Usable(b), Square!Refresh(b),
         connection[b].age # "fresh" \/ ~tokens[connection[b].token].live
  PROVE  KeepsTokens
<1> DEFINE t == connection[b].token
<1>1. /\ Square!TypeOK /\ tokens \in Seq(Square!Issued) /\ Len(tokens) \in Nat
      /\ connection \in [Businesses -> Square!Row]
      /\ DOMAIN tokens = 1..Len(tokens) /\ t # None /\ connection[b].status = "CONNECTED"
  BY SquareTypes, LenProperties DEF SquareInv, Square!Usable, Square!Connected
<1>2. \A a \in Businesses : connection[a].token = t => a = b
  BY <1>1 DEF SquareInv, TokensApart
<1>3. \A i \in DOMAIN tokens' \ DOMAIN tokens : tokens'[i].of = t
  <2>1. CASE tokens' = tokens
    BY <2>1
  <2>2. CASE tokens[t].granted /\ Square!Issue(tokens[t].merchant, t)
    <3> DEFINE n == [merchant |-> tokens[t].merchant, live |-> TRUE, granted |-> TRUE, of |-> t]
    <3>1. tokens' = Append(tokens, n) /\ n.of = t
      BY <2>2 DEF Square!Issue
    <3>2. t \in 1..Len(tokens)
      BY <1>1 DEF SquareInv, TokensHeld
    <3>3. tokens[t].merchant \in Merchants /\ t \in 1..MaxTokens
      BY <1>1, <3>2, SquareTypes, SquareBounds DEF Square!Issued
    <3>4. n \in Square!Issued
      BY <3>3 DEF Square!Issued, Square!Token
    <3> HIDE DEF n
    <3>5. /\ DOMAIN tokens' = 1..(Len(tokens) + 1) /\ tokens'[Len(tokens) + 1] = n
      BY <1>1, <3>1, <3>4, AppendProperties, LenProperties
    <3> QED
      BY <1>1, <3>1, <3>5
  <2> QED
    BY <2>1, <2>2 DEF Square!Refresh
<1>4. \A a \in Businesses : a # b => connection'[a] = connection[a]
  BY <1>1 DEF Square!Refresh
<1>5. connection'[b].status \in {"REVOKED", "ERROR"} => ~tokens[t].granted \/ connection[b].age = "expired"
  <2>1. \/ ~tokens[t].granted \/ connection' = connection \/ connection[b].age = "expired"
        \/ connection' = [connection EXCEPT ![b].token = Len(tokens) + 1, ![b].age = "fresh"]
    BY DEF Square!Refresh
  <2>2. CASE connection' = [connection EXCEPT ![b].token = Len(tokens) + 1, ![b].age = "fresh"]
    <3>1. connection[b] \in Square!Row
      BY <1>1
    <3>2. connection'[b] = [connection[b] EXCEPT !.token = Len(tokens) + 1, !.age = "fresh"]
      BY <1>1, <2>2
    <3>3. connection'[b].status = "CONNECTED"
      BY <1>1, <3>1, <3>2 DEF Square!Row
    <3> QED
      BY <3>3
  <2> QED
    BY <1>1, <2>1, <2>2
<1> QED
  BY <1>2, <1>3, <1>4, <1>5 DEF KeepsTokens, Square!Connected

LEMMA SquareKeepsTokens == SquareInv /\ Square!Next => KeepsTokens
<1> SUFFICES ASSUME SquareInv, Square!Next PROVE KeepsTokens
  OBVIOUS
<1>1. /\ Square!TypeOK /\ tokens \in Seq(Square!Issued) /\ Len(tokens) \in Nat
      /\ connection \in [Businesses -> Square!Row] /\ calling \in [Workers -> Asked]
      /\ DOMAIN tokens = 1..Len(tokens)
  BY SquareTypes, LenProperties DEF SquareInv
<1>2. ASSUME DOMAIN tokens' = DOMAIN tokens,
             \A b \in Businesses : connection'[b].status \in {"REVOKED", "ERROR"} =>
                 \/ connection'[b].status = connection[b].status
                 \/ \E e \in news \ news' : e.merchant = connection[b].merchant
      PROVE  KeepsTokens
  BY <1>2 DEF KeepsTokens, Square!Connected
<1>3. ASSUME NEW w \in Workers, NEW b \in Businesses, NEW m \in Merchants, Square!Exchange(w, b, m)
      PROVE  KeepsTokens
  <2> DEFINE n == [merchant |-> m, live |-> TRUE, granted |-> TRUE, of |-> None]
  <2>1. tokens' = Append(tokens, n) /\ n.of = None /\ connection' = connection
    BY <1>3 DEF Square!Exchange, Square!Issue
  <2>2. n \in Square!Issued
    BY DEF Square!Issued
  <2> HIDE DEF n
  <2>3. DOMAIN tokens' = 1..(Len(tokens) + 1) /\ tokens'[Len(tokens) + 1] = n
    BY <1>1, <2>1, <2>2, AppendProperties, LenProperties
  <2> QED
    BY <1>1, <2>1, <2>3 DEF KeepsTokens, Square!Connected
<1>4. ASSUME NEW w \in Workers, NEW b \in Businesses, Square!Call(w, b) \/ Square!ChooseLocation(w, b)
      PROVE  KeepsTokens
  BY <1>2, <1>4 DEF Square!Call, Square!ChooseLocation
<1>5. ASSUME NEW w \in Workers, NEW b \in Businesses, Square!Renew(w, b)
      PROVE  KeepsTokens
  BY <1>5, RefreshKeepsTokens DEF Square!Renew
<1>6. ASSUME NEW w \in Workers, Square!Refused(w)
      PROVE  KeepsTokens
  <2> DEFINE b == calling[w].business
  <2>1. calling[w].op = "call" /\ ~tokens[calling[w].token].live /\ b \in Businesses
    BY <1>1, <1>6, RequestKinds DEF Square!Refused
  <2>2. CASE Square!Usable(b) /\ (connection[b].age # "fresh" \/ connection[b].token = calling[w].token)
    BY <1>6, <2>1, <2>2, RefreshKeepsTokens DEF Square!Refused
  <2>3. CASE connection' = connection /\ tokens' = tokens
    BY <1>2, <2>3
  <2> QED
    BY <1>6, <2>2, <2>3 DEF Square!Refused
<1>7. ASSUME NEW w \in Workers, Square!Abandon(w) \/ Square!Accepted(w)
      PROVE  KeepsTokens
  BY <1>2, <1>7 DEF Square!Abandon, Square!Accepted
<1>8. ASSUME NEW w \in Workers, Square!Store(w)
      PROVE  KeepsTokens
  <2> DEFINE b == calling[w].business
  <2>1. \/ connection' = connection
        \/ \E r : /\ r.status \in {connection[b].status, "CONNECTED"}
                 /\ connection' = [connection EXCEPT ![b] = r]
    <3> DEFINE q == calling[w]
               m == tokens[calling[w].token].merchant
               seen == IF q.seen = Square!Idle THEN connection[b] ELSE q.seen
               new(loc) == [merchant |-> IF seen.merchant = m THEN connection[b].merchant ELSE m,
                            token    |-> q.token, age |-> "fresh",
                            status   |-> IF seen.status = "CONNECTED" THEN connection[b].status
                                         ELSE "CONNECTED",
                            location |-> IF seen.location = loc THEN connection[b].location ELSE loc]
    <3>1. connection' = connection \/ \E loc : connection' = [connection EXCEPT ![b] = new(loc)]
      BY <1>8 DEF Square!Store
    <3>2. \A loc : new(loc).status \in {connection[b].status, "CONNECTED"}
      OBVIOUS
    <3> HIDE DEF new
    <3> QED
      BY <3>1, <3>2
  <2>2. b \in Businesses /\ tokens' = tokens
    BY <1>1, <1>8, RequestKinds DEF Square!Store
  <2>3. \A a \in Businesses : connection'[a].status \in {connection[a].status, "CONNECTED"}
    BY <1>1, <2>1, <2>2
  <2> QED
    BY <1>2, <2>2, <2>3
<1>9. ASSUME NEW w \in Workers, Square!LocationChosen(w)
      PROVE  KeepsTokens
  <2>1. tokens' = tokens /\ \A b \in Businesses : connection'[b].status = connection[b].status
    BY <1>1, <1>9 DEF Square!LocationChosen
  <2> QED
    BY <1>2, <2>1
<1>10. ASSUME NEW b \in Businesses, Square!Disconnect(b) \/ Square!Age(b) \/ Square!EndEarly(b)
       PROVE  KeepsTokens
  <2>1. DOMAIN tokens' = DOMAIN tokens
    BY <1>10 DEF Square!Disconnect, Square!Withdraw, Square!Age, Square!EndEarly
  <2>2. \A a \in Businesses : connection'[a].status \in {connection[a].status, "NOT_CONNECTED"}
    <3>1. CASE Square!Disconnect(b)
      <4>1. connection' = [connection EXCEPT ![b] = Square!Cleared] /\ Square!Cleared.status = "NOT_CONNECTED"
        BY <3>1 DEF Square!Disconnect, Square!Cleared
      <4> QED
        BY <1>1, <4>1
    <3>2. CASE Square!Age(b) \/ Square!EndEarly(b)
      <4>1. \A a \in Businesses : connection[a] \in Square!Row
        BY <1>1
      <4>2. \/ connection' = connection
            \/ \E age : connection' = [connection EXCEPT ![b] = [connection[b] EXCEPT !.age = age]]
        BY <1>1, <3>2 DEF Square!Age, Square!EndEarly
      <4>3. \A age : [connection[b] EXCEPT !.age = age].status = connection[b].status
        BY <4>1 DEF Square!Row
      <4> QED
        BY <1>1, <4>2, <4>3
    <3> QED
      BY <1>10, <3>1, <3>2
  <2> QED
    BY <1>2, <2>1, <2>2
<1>11. ASSUME NEW m \in Merchants, Square!Revoke(m)
       PROVE  KeepsTokens
  <2>1. DOMAIN tokens' = DOMAIN tokens /\ connection' = connection
    BY <1>11 DEF Square!Revoke, Square!Withdraw
  <2> QED
    BY <1>2, <2>1
<1>12. ASSUME NEW e \in news, Square!Revoked(e)
       PROVE  KeepsTokens
  <2>1. /\ tokens' = tokens /\ e \in news \ news'
        /\ \A b \in Businesses : connection[b].merchant = e.merchant \/ connection'[b] = connection[b]
    BY <1>1, <1>12 DEF Square!Revoked, Square!OwnersOf
  <2> QED
    BY <1>2, <2>1
<1> QED
  BY <1>3, <1>4, <1>5, <1>6, <1>7, <1>8, <1>9, <1>10, <1>11, <1>12 DEF Square!Next

\* For any number of businesses, merchants, workers and tokens: no merchant belongs to two
\* businesses, one shown as ready works unless a request wrote over what it had not seen, no good
\* token is renewed, and no connection given up without a reason.
THEOREM ConnectionsStayWorking == Spec => ConnectionsKeepWorking
<1> DEFINE Inv == focus = "square" => SquareInv
<1>1. Init => Inv
  BY SquareInitOK DEF Init
<1>2. [Next]_vars /\ (UNCHANGED Square!squareVars \/ focus = "square") =>
          focus' = focus /\ [Square!Next]_(Square!squareVars)
  BY DEF Next, vars, ownerVars, squareVars, Square!squareVars, LoyaltyStep, RemindersStep, ImportsStep,
         NumbersStep, ChannelsStep, CarrierStep, TenantsStep, StripeStep, SquareStep, AccessStep, ImagesStep
<1>3. [Next]_vars => UNCHANGED Square!squareVars \/ focus = "square"
  BY DEF Next, vars, ownerVars, squareVars, Square!squareVars, LoyaltyStep, RemindersStep, ImportsStep,
         NumbersStep, ChannelsStep, CarrierStep, TenantsStep, StripeStep, SquareStep, AccessStep, ImagesStep
<1>4. Inv /\ [Next]_vars => Inv'
  BY <1>2, <1>3, SquareStepOK
<1>5. Inv /\ [Next]_vars => [KeepsTokens]_(Square!squareVars)
  BY <1>2, <1>3, SquareKeepsTokens
<1>6. Inv => (focus = "square" => Square!TypeOK /\ Square!ReadyConnectionsWork)
  BY SquareHolds
<1>7. [][KeepsTokens]_(Square!squareVars) => Square!TokensAreKept
  BY PTL DEF KeepsTokens, Square!TokensAreKept
<1> QED
  BY <1>1, <1>4, <1>5, <1>6, <1>7, PTL DEF Spec, ConnectionsKeepWorking

-----------------------------------------------------------------------------
(* Reminders. The rounds that run and the sends they hold are counted against the accidents. *)
LEMMA RoundFields ==
    /\ Reminders!Idle \in Reminders!Round /\ Reminders!Idle.phase = "idle"
    /\ Reminders!Idle.todo = {} /\ Reminders!Idle.sent = {}
  BY DEF Reminders!Idle, Reminders!Round

\* The rounds that run, and those that hold a send of d that is not recorded.
RunningOf(R) == {r \in Rounds : R[r].phase = "sending"}
SendersOf(R, d) == {r \in Rounds : d \in R[r].sent}

RoundsSound(R) == \A r \in Rounds : /\ R[r].phase = "idle" => R[r].todo = {} /\ R[r].sent = {}
                                    /\ R[r].todo \cap R[r].sent = {}

\* A reminder that no record answers for was sent at most once more than there were accidents;
\* rounds that run without having sent it may each send it, and accidents count them.
Answered(N, L, R, A) ==
    \A d \in Reminders!Due \ L :
        /\ N[d] + Cardinality(RunningOf(R)) <= A + Cardinality(SendersOf(R, d)) + 1
        /\ RunningOf(R) = {} => N[d] <= A

RemindersInv == /\ Reminders!TypeOK /\ RoundsSound(round)
                /\ \A d \in Reminders!Due : sends[d] <= 1 + accidents
                /\ Answered(sends, records, round, accidents)

\* The rounds are counted with the library's Cardinality.
LEMMA RemindersCardinality == ASSUME NEW S PROVE Reminders!Cardinality(S) = Cardinality(S)
  BY DEF Reminders!Cardinality, Cardinality

\* A set of rounds is counted, and counts one more or one less with a round or without it.
LEMMA RoundsCount ==
    ASSUME NEW S \in SUBSET Rounds, NEW r \in Rounds
    PROVE  /\ Cardinality(S) \in Nat
           /\ Cardinality(S \union {r}) = IF r \in S THEN Cardinality(S) ELSE Cardinality(S) + 1
           /\ Cardinality(S \ {r}) = IF r \in S THEN Cardinality(S) - 1 ELSE Cardinality(S)
           /\ (S = {}) <=> (Cardinality(S) = 0)
<1>1. IsFiniteSet(S)
  BY RoundsAssumption, FS_Subset
<1>2. Cardinality(S) \in Nat
  BY <1>1, FS_CardinalityType
<1>3. Cardinality(S \union {r}) = IF r \in S THEN Cardinality(S) ELSE Cardinality(S) + 1
  BY <1>1, FS_AddElement
<1>4. Cardinality(S \ {r}) = IF r \in S THEN Cardinality(S) - 1 ELSE Cardinality(S)
  BY <1>1, FS_RemoveElement
<1>5. (S = {}) <=> (Cardinality(S) = 0)
  BY <1>1, FS_EmptySet
<1> QED
  BY <1>2, <1>3, <1>4, <1>5

\* What the change of one round does to the sets that are counted.
LEMMA RoundChanges ==
    ASSUME round \in [Rounds -> Reminders!Round], RoundsSound(round),
           NEW r \in Rounds, NEW X \in Reminders!Round, round' = [round EXCEPT ![r] = X],
           X.phase = "idle" => X.todo = {} /\ X.sent = {}, X.todo \cap X.sent = {}
    PROVE  /\ round' \in [Rounds -> Reminders!Round] /\ RoundsSound(round')
           /\ RunningOf(round') = IF X.phase = "sending" THEN RunningOf(round) \union {r}
                                  ELSE RunningOf(round) \ {r}
           /\ \A d : SendersOf(round', d) = IF d \in X.sent THEN SendersOf(round, d) \union {r}
                                            ELSE SendersOf(round, d) \ {r}
<1>1. round' \in [Rounds -> Reminders!Round]
  OBVIOUS
<1>2. round'[r] = X /\ \A q \in Rounds \ {r} : round'[q] = round[q]
  OBVIOUS
<1>3. RoundsSound(round')
  BY <1>2 DEF RoundsSound
<1>4. RunningOf(round') = IF X.phase = "sending" THEN RunningOf(round) \union {r} ELSE RunningOf(round) \ {r}
  BY <1>2 DEF RunningOf
<1>5. ASSUME NEW d
      PROVE  SendersOf(round', d) = IF d \in X.sent THEN SendersOf(round, d) \union {r}
                                    ELSE SendersOf(round, d) \ {r}
  BY <1>2 DEF SendersOf
<1> QED
  BY <1>1, <1>3, <1>4, <1>5

\* A round that holds an unrecorded send of d is running.
LEMMA SendersRun ==
    ASSUME RemindersInv, NEW d
    PROVE  /\ SendersOf(round, d) \subseteq RunningOf(round) /\ RunningOf(round) \in SUBSET Rounds
           /\ SendersOf(round, d) \in SUBSET Rounds
           /\ \A r \in Rounds : r \in RunningOf(round) \ SendersOf(round, d) =>
                 Cardinality(SendersOf(round, d)) + 1 <= Cardinality(RunningOf(round))
<1>1. /\ SendersOf(round, d) \subseteq RunningOf(round) /\ RunningOf(round) \in SUBSET Rounds
      /\ SendersOf(round, d) \in SUBSET Rounds
  BY DEF RemindersInv, RoundsSound, SendersOf, RunningOf, Reminders!TypeOK, Reminders!Round
<1>2. ASSUME NEW r \in Rounds, r \in RunningOf(round) \ SendersOf(round, d)
      PROVE  Cardinality(SendersOf(round, d)) + 1 <= Cardinality(RunningOf(round))
  <2>1. /\ IsFiniteSet(RunningOf(round) \ {r}) /\ SendersOf(round, d) \subseteq RunningOf(round) \ {r}
    BY <1>1, <1>2, RoundsAssumption, FS_Subset
  <2>2. Cardinality(SendersOf(round, d)) <= Cardinality(RunningOf(round) \ {r})
    BY <2>1, FS_Subset
  <2>3. /\ Cardinality(RunningOf(round)) \in Nat
        /\ Cardinality(RunningOf(round) \ {r}) = Cardinality(RunningOf(round)) - 1
    BY <1>1, <1>2, RoundsCount
  <2>4. Cardinality(SendersOf(round, d)) \in Nat
    BY <1>1, RoundsCount
  <2> QED
    BY <2>2, <2>3, <2>4
<1> QED
  BY <1>1, <1>2

LEMMA RemindersInitOK == Reminders!Init => RemindersInv
<1> SUFFICES ASSUME Reminders!Init PROVE RemindersInv
  OBVIOUS
<1>1. Reminders!TypeOK
  <2>1. subject \in Reminders!Subject /\ records \subseteq Reminders!Due
    BY DEF Reminders!Init, Reminders!Subject
  <2>2. now \in 0..Horizon /\ accidents \in Nat /\ sends \in [Reminders!Due -> Nat]
    BY RoundsAssumption DEF Reminders!Init
  <2>3. round \in [Rounds -> Reminders!Round]
    BY RoundFields DEF Reminders!Init
  <2> QED
    BY <2>1, <2>2, <2>3 DEF Reminders!TypeOK
<1>2. RoundsSound(round) /\ RunningOf(round) = {}
  BY RoundFields DEF Reminders!Init, RoundsSound, RunningOf
<1>3. \A d \in Reminders!Due : Cardinality(SendersOf(round, d)) = 0 /\ Cardinality(RunningOf(round)) = 0
  BY <1>2, RoundFields, FS_EmptySet DEF Reminders!Init, SendersOf
<1> QED
  BY <1>1, <1>2, <1>3 DEF Reminders!Init, RemindersInv, Answered

LEMMA StartRoundOK == ASSUME RemindersInv, NEW r \in Rounds, Reminders!StartRound(r) PROVE RemindersInv'
<1> DEFINE X == [phase |-> "sending", todo |-> Reminders!DueNow, sent |-> {}]
<1>1. /\ round[r].phase = "idle" /\ round' = [round EXCEPT ![r] = X]
      /\ accidents' = accidents + Cardinality(RunningOf(round))
      /\ UNCHANGED <<subject, now, records, sends>>
  BY RemindersCardinality DEF Reminders!StartRound, Reminders!Running, RunningOf
<1>2. round \in [Rounds -> Reminders!Round] /\ RoundsSound(round) /\ accidents \in Nat
      /\ sends \in [Reminders!Due -> Nat]
  BY DEF RemindersInv, Reminders!TypeOK
<1>3. X \in Reminders!Round
  BY DEF RemindersInv, Reminders!TypeOK, Reminders!Round, Reminders!DueNow, Reminders!Due, Reminders!Subject
<1>4. X.phase = "sending" /\ X.sent = {} /\ X.todo \cap X.sent = {}
  OBVIOUS
<1> HIDE DEF X
<1>5. /\ round' \in [Rounds -> Reminders!Round] /\ RoundsSound(round')
      /\ RunningOf(round') = RunningOf(round) \union {r}
      /\ \A d : SendersOf(round', d) = SendersOf(round, d) \ {r}
  BY <1>1, <1>2, <1>3, <1>4, RoundChanges
<1>6. r \notin RunningOf(round) /\ \A d : r \notin SendersOf(round, d)
  BY <1>1, <1>2 DEF RunningOf, SendersOf, RoundsSound
<1>7. /\ Cardinality(RunningOf(round)) \in Nat
      /\ Cardinality(RunningOf(round')) = Cardinality(RunningOf(round)) + 1
      /\ (RunningOf(round) = {}) <=> (Cardinality(RunningOf(round)) = 0)
  <2>1. RunningOf(round) \in SUBSET Rounds
    BY DEF RunningOf
  <2>2. /\ Cardinality(RunningOf(round)) \in Nat
        /\ Cardinality(RunningOf(round) \union {r}) = Cardinality(RunningOf(round)) + 1
        /\ (RunningOf(round) = {}) <=> (Cardinality(RunningOf(round)) = 0)
    BY <2>1, <1>6, RoundsCount
  <2> QED
    BY <2>2, <1>5
<1>8. \A d : /\ SendersOf(round', d) = SendersOf(round, d)
             /\ Cardinality(SendersOf(round, d)) \in Nat
  <2> TAKE d
  <2>1. SendersOf(round, d) \in SUBSET Rounds
    BY DEF SendersOf
  <2>2. Cardinality(SendersOf(round, d)) \in Nat
    BY <2>1, RoundsCount
  <2> QED
    BY <2>2, <1>5, <1>6
<1>9. Reminders!TypeOK'
  BY <1>1, <1>5, <1>7 DEF RemindersInv, Reminders!TypeOK, Reminders!Subject, Reminders!Due
<1>10. \A d \in Reminders!Due : sends[d] \in Nat /\ sends[d] <= 1 + accidents
  BY DEF RemindersInv, Reminders!TypeOK
<1>11. Answered(sends', records', round', accidents')
  <2>1. SUFFICES ASSUME NEW d \in Reminders!Due \ records
                 PROVE  /\ sends[d] + Cardinality(RunningOf(round')) <= accidents' + Cardinality(SendersOf(round', d)) + 1
                        /\ RunningOf(round') # {}
    BY <1>1 DEF Answered
  <2>2. /\ sends[d] + Cardinality(RunningOf(round)) <= accidents + Cardinality(SendersOf(round, d)) + 1
        /\ RunningOf(round) = {} => sends[d] <= accidents
    BY DEF RemindersInv, Answered
  <2> QED
    <3>1. RunningOf(round') # {}
      BY <1>5
    <3>2. /\ sends[d] \in Nat /\ Cardinality(RunningOf(round)) \in Nat
          /\ Cardinality(SendersOf(round, d)) \in Nat /\ accidents \in Nat
          /\ SendersOf(round', d) = SendersOf(round, d)
      BY <1>2, <1>7, <1>8
    <3>3. sends[d] <= accidents + Cardinality(SendersOf(round, d)) \/ Cardinality(RunningOf(round)) >= 1
      BY <2>2, <3>2, <1>7
    <3>4. /\ accidents' = accidents + Cardinality(RunningOf(round))
          /\ Cardinality(RunningOf(round')) = Cardinality(RunningOf(round)) + 1
          /\ Cardinality(SendersOf(round', d)) = Cardinality(SendersOf(round, d))
      BY <1>1, <1>7, <3>2
    <3>5. sends[d] + Cardinality(RunningOf(round')) <= accidents' + Cardinality(SendersOf(round', d)) + 1
      BY <3>2, <3>3, <3>4, <2>2
    <3> QED
      BY <3>1, <3>5
<1> QED
  <2>1. Reminders!Due' = Reminders!Due
    BY DEF Reminders!Due
  <2>2. \A d \in Reminders!Due : sends'[d] <= 1 + accidents'
    BY <1>1, <1>2, <1>7, <1>10
  <2> QED
    BY <1>5, <1>9, <1>11, <2>1, <2>2 DEF RemindersInv

LEMMA SkipOK ==
    ASSUME RemindersInv, NEW r \in Rounds, NEW d \in Reminders!Due, Reminders!Skip(r, d)
    PROVE  RemindersInv'
<1> DEFINE X == [round[r] EXCEPT !.todo = @ \ {d}]
<1>1. /\ d \in round[r].todo /\ round' = [round EXCEPT ![r] = X]
      /\ UNCHANGED <<subject, now, records, sends, accidents>>
  BY DEF Reminders!Skip, RemindersInv, Reminders!TypeOK
<1>2. round \in [Rounds -> Reminders!Round] /\ RoundsSound(round)
  BY DEF RemindersInv, Reminders!TypeOK
<1>3. /\ X \in Reminders!Round /\ X.phase = round[r].phase /\ X.sent = round[r].sent
      /\ X.todo \cap X.sent = {} /\ X.phase = "sending"
  BY <1>1, <1>2 DEF Reminders!Round, RoundsSound
<1> HIDE DEF X
<1>4. /\ round' \in [Rounds -> Reminders!Round] /\ RoundsSound(round')
      /\ RunningOf(round') = RunningOf(round) \union {r}
      /\ \A e : SendersOf(round', e) = IF e \in X.sent THEN SendersOf(round, e) \union {r}
                                       ELSE SendersOf(round, e) \ {r}
  BY <1>1, <1>2, <1>3, RoundChanges
<1>5. RunningOf(round') = RunningOf(round) /\ \A e : SendersOf(round', e) = SendersOf(round, e)
  <2>1. r \in RunningOf(round)
    BY <1>3 DEF RunningOf
  <2>2. \A e : r \in SendersOf(round, e) <=> e \in X.sent
    BY <1>3 DEF SendersOf
  <2>3. RunningOf(round') = RunningOf(round)
    BY <2>1, <1>4
  <2>4. ASSUME NEW e PROVE SendersOf(round', e) = SendersOf(round, e)
    <3>1. CASE e \in X.sent
      BY <2>2, <1>4, <3>1
    <3>2. CASE e \notin X.sent
      BY <2>2, <1>4, <3>2
    <3> QED
      BY <3>1, <3>2
  <2> QED
    BY <2>3, <2>4
<1> QED
  BY <1>1, <1>4, <1>5 DEF RemindersInv, Answered, Reminders!TypeOK, Reminders!Due, Reminders!Subject

\* What is known of the counts of a reminder that no record answers for.
LEMMA Counts ==
    ASSUME RemindersInv, NEW d \in Reminders!Due \ records
    PROVE  /\ sends[d] \in Nat /\ accidents \in Nat
           /\ Cardinality(RunningOf(round)) \in Nat /\ Cardinality(SendersOf(round, d)) \in Nat
           /\ sends[d] + Cardinality(RunningOf(round)) <= accidents + Cardinality(SendersOf(round, d)) + 1
           /\ RunningOf(round) = {} => sends[d] <= accidents
<1>1. sends[d] \in Nat /\ accidents \in Nat
  BY DEF RemindersInv, Reminders!TypeOK
<1>2. Cardinality(RunningOf(round)) \in Nat /\ Cardinality(SendersOf(round, d)) \in Nat
  <2>1. RunningOf(round) \in SUBSET Rounds /\ SendersOf(round, d) \in SUBSET Rounds
    BY DEF RunningOf, SendersOf
  <2>2. IsFiniteSet(RunningOf(round)) /\ IsFiniteSet(SendersOf(round, d))
    BY <2>1, RoundsAssumption, FS_Subset
  <2> QED
    BY <2>2, FS_CardinalityType
<1>3. /\ sends[d] + Cardinality(RunningOf(round)) <= accidents + Cardinality(SendersOf(round, d)) + 1
      /\ RunningOf(round) = {} => sends[d] <= accidents
  BY DEF RemindersInv, Answered
<1> QED
  BY <1>1, <1>2, <1>3

LEMMA SendOK ==
    ASSUME RemindersInv, NEW r \in Rounds, NEW d \in Reminders!Due, NEW ok \in BOOLEAN, Reminders!Send(r, d, ok)
    PROVE  RemindersInv'
<1> DEFINE X == [phase |-> round[r].phase, todo |-> round[r].todo \ {d},
                 sent |-> (IF subject.text THEN {} ELSE round[r].sent) \union (IF ok THEN {d} ELSE {})]
<1>1. round \in [Rounds -> Reminders!Round] /\ RoundsSound(round) /\ sends \in [Reminders!Due -> Nat]
      /\ records \subseteq Reminders!Due
  BY DEF RemindersInv, Reminders!TypeOK
<1>2. /\ d \in round[r].todo \ records /\ round' = [round EXCEPT ![r] = X]
      /\ records' = IF subject.text THEN records \union round[r].sent ELSE records
      /\ sends' = [sends EXCEPT ![d] = @ + (IF ok THEN 1 ELSE 0)]
      /\ UNCHANGED <<subject, now, accidents>>
  <2>1. round' = [round EXCEPT ![r] = X]
    <3>1. PICK p, t, q : round[r] = [phase |-> p, todo |-> t, sent |-> q]
      BY <1>1 DEF Reminders!Round
    <3>2. X = [phase |-> p, todo |-> t \ {d},
               sent |-> (IF subject.text THEN {} ELSE q) \union (IF ok THEN {d} ELSE {})]
      BY <3>1
    <3>3. round'[r] = X /\ \A z \in Rounds \ {r} : round'[z] = round[z]
      BY <1>1, <3>1, <3>2 DEF Reminders!Send
    <3>4. round' = [z \in Rounds |-> round'[z]]
      BY <1>1 DEF Reminders!Send
    <3> QED
      BY <1>1, <3>3, <3>4
  <2> QED
    BY <2>1 DEF Reminders!Send
<1>3. /\ X \in Reminders!Round /\ X.phase = "sending" /\ X.todo \cap X.sent = {}
  BY <1>1, <1>2 DEF Reminders!Round, RoundsSound
<1>4. /\ X.sent = (IF subject.text THEN {} ELSE round[r].sent) \union (IF ok THEN {d} ELSE {})
      /\ d \notin round[r].sent /\ round[r].sent \subseteq Reminders!Due
  BY <1>1, <1>2 DEF Reminders!Round, RoundsSound
<1> HIDE DEF X
<1>5. /\ round' \in [Rounds -> Reminders!Round] /\ RoundsSound(round')
      /\ RunningOf(round') = RunningOf(round) \union {r}
      /\ \A e : SendersOf(round', e) = IF e \in X.sent THEN SendersOf(round, e) \union {r}
                                       ELSE SendersOf(round, e) \ {r}
  BY <1>1, <1>2, <1>3, RoundChanges
<1>6. r \in RunningOf(round) /\ RunningOf(round') = RunningOf(round)
  <2>1. round[r].phase = "sending"
    BY <1>1, <1>2 DEF RoundsSound, Reminders!Round
  <2> QED
    BY <1>5, <2>1 DEF RunningOf
<1>7. \A e : r \in SendersOf(round, e) <=> e \in round[r].sent
  BY DEF SendersOf
<1>8. d \in Reminders!Due \ records
  BY <1>2
<1>9. /\ r \notin SendersOf(round, d)
      /\ SendersOf(round', d) = IF ok THEN SendersOf(round, d) \union {r} ELSE SendersOf(round, d)
  <2>1. r \notin SendersOf(round, d) /\ (d \in X.sent <=> ok)
    BY <1>4, <1>7
  <2> QED
    BY <1>5, <2>1
<1>10. \A e \in Reminders!Due \ records' : e # d => SendersOf(round', e) = SendersOf(round, e)
  <2> SUFFICES ASSUME NEW e \in Reminders!Due \ records', e # d
               PROVE  SendersOf(round', e) = SendersOf(round, e)
    OBVIOUS
  <2>1. e \in X.sent <=> e \in round[r].sent
    BY <1>2, <1>4
  <2>2. r \in SendersOf(round, e) <=> e \in X.sent
    BY <1>7, <2>1
  <2>3. SendersOf(round', e) = IF e \in X.sent THEN SendersOf(round, e) \union {r}
                               ELSE SendersOf(round, e) \ {r}
    BY <1>5
  <2> QED
    BY <2>2, <2>3
<1>11. /\ \A e \in Reminders!Due : e # d => sends'[e] = sends[e]
       /\ sends'[d] = sends[d] + (IF ok THEN 1 ELSE 0)
       /\ sends' \in [Reminders!Due -> Nat] /\ records \subseteq records' /\ records' \subseteq Reminders!Due
  <2>1. sends' \in [Reminders!Due -> Nat]
    BY <1>1, <1>2
  <2> QED
    BY <2>1, <1>1, <1>2, <1>4
<1>12. Cardinality(SendersOf(round, d)) + 1 <= Cardinality(RunningOf(round))
  BY <1>6, <1>9, SendersRun
<1>13. sends[d] <= accidents
  BY <1>8, <1>12, Counts
<1>14. \A e \in Reminders!Due : sends'[e] <= 1 + accidents'
  <2> SUFFICES ASSUME NEW e \in Reminders!Due PROVE sends'[e] <= 1 + accidents
    BY <1>2
  <2>1. CASE e = d
    BY <2>1, <1>8, <1>11, <1>13, Counts
  <2>2. CASE e # d
    BY <2>2, <1>11 DEF RemindersInv
  <2> QED
    BY <2>1, <2>2
<1>15. Answered(sends', records', round', accidents')
  <2>1. SUFFICES ASSUME NEW e \in Reminders!Due \ records'
                 PROVE  /\ sends'[e] + Cardinality(RunningOf(round')) <= accidents' + Cardinality(SendersOf(round', e)) + 1
                        /\ RunningOf(round') # {}
    BY DEF Answered
  <2>2. e \in Reminders!Due \ records /\ RunningOf(round') # {} /\ accidents' = accidents
    BY <1>2, <1>6, <1>11
  <2>3. CASE e = d
    <3>1. Cardinality(SendersOf(round', d)) = Cardinality(SendersOf(round, d)) + (IF ok THEN 1 ELSE 0)
      <4>1. /\ Cardinality(SendersOf(round, d)) \in Nat
            /\ Cardinality(SendersOf(round, d) \union {r}) = Cardinality(SendersOf(round, d)) + 1
        BY <1>9, SendersRun, RoundsCount
      <4> QED
        BY <4>1, <1>9
    <3>2. sends[d] + Cardinality(RunningOf(round)) <= accidents + Cardinality(SendersOf(round, d)) + 1
      BY <1>8, Counts
    <3>3. sends'[d] + Cardinality(RunningOf(round)) <= accidents + Cardinality(SendersOf(round', d)) + 1
      BY <1>8, <1>11, <3>1, <3>2, Counts
    <3> QED
      BY <2>2, <2>3, <3>3, <1>6
  <2>4. CASE e # d
    <3>1. sends[e] + Cardinality(RunningOf(round)) <= accidents + Cardinality(SendersOf(round, e)) + 1
      BY <2>2, Counts
    <3> QED
      BY <2>2, <2>4, <3>1, <1>6, <1>10, <1>11
  <2> QED
    BY <2>3, <2>4
<1>16. Reminders!TypeOK'
  <2>1. Reminders!Due' = Reminders!Due /\ Reminders!Subject' = Reminders!Subject
    BY DEF Reminders!Due, Reminders!Subject
  <2>2. Reminders!Round' = Reminders!Round
    BY <2>1 DEF Reminders!Round
  <2> QED
    BY <1>2, <1>5, <1>11, <2>1, <2>2 DEF RemindersInv, Reminders!TypeOK
<1> QED
  <2>1. Reminders!Due' = Reminders!Due
    BY DEF Reminders!Due
  <2> QED
    BY <1>5, <1>14, <1>15, <1>16, <2>1 DEF RemindersInv

\* A round that ends leaves the rounds that run, and those that hold a send.
LEMMA RoundEnds ==
    ASSUME RemindersInv, NEW r \in Rounds, round[r].phase = "sending",
           round' = [round EXCEPT ![r] = Reminders!Idle]
    PROVE  /\ round' \in [Rounds -> Reminders!Round] /\ RoundsSound(round')
           /\ Cardinality(RunningOf(round')) = Cardinality(RunningOf(round)) - 1
           /\ RunningOf(round') = {} => Cardinality(RunningOf(round)) = 1
           /\ \A d : /\ Cardinality(SendersOf(round', d)) = IF d \in round[r].sent
                                                             THEN Cardinality(SendersOf(round, d)) - 1
                                                             ELSE Cardinality(SendersOf(round, d))
                     /\ d \notin round[r].sent =>
                           Cardinality(SendersOf(round, d)) + 1 <= Cardinality(RunningOf(round))
<1>1. round \in [Rounds -> Reminders!Round] /\ RoundsSound(round)
  BY DEF RemindersInv, Reminders!TypeOK
<1>2. /\ round' \in [Rounds -> Reminders!Round] /\ RoundsSound(round')
      /\ RunningOf(round') = RunningOf(round) \ {r}
      /\ \A d : SendersOf(round', d) = SendersOf(round, d) \ {r}
  <2>1. PICK X : X = Reminders!Idle
    OBVIOUS
  <2>2. /\ X \in Reminders!Round /\ X.phase # "sending" /\ X.sent = {}
        /\ X.phase = "idle" /\ X.todo = {} /\ X.todo \cap X.sent = {}
    BY <2>1, RoundFields
  <2>3. round' = [round EXCEPT ![r] = X]
    BY <2>1
  <2> QED
    BY <1>1, <2>2, <2>3, RoundChanges
<1>3. r \in RunningOf(round) /\ RunningOf(round) \in SUBSET Rounds
  BY DEF RunningOf
<1>4. /\ Cardinality(RunningOf(round)) \in Nat
      /\ Cardinality(RunningOf(round) \ {r}) = Cardinality(RunningOf(round)) - 1
  BY <1>3, RoundsCount
<1>5. RunningOf(round') = {} => Cardinality(RunningOf(round)) = 1
  <2> SUFFICES ASSUME RunningOf(round') = {} PROVE Cardinality(RunningOf(round)) = 1
    OBVIOUS
  <2>1. Cardinality(RunningOf(round) \ {r}) = 0
    BY <1>2, FS_EmptySet
  <2> QED
    BY <1>4, <2>1
<1>6. ASSUME NEW d
      PROVE  /\ Cardinality(SendersOf(round', d)) = IF d \in round[r].sent
                                                     THEN Cardinality(SendersOf(round, d)) - 1
                                                     ELSE Cardinality(SendersOf(round, d))
             /\ d \notin round[r].sent =>
                   Cardinality(SendersOf(round, d)) + 1 <= Cardinality(RunningOf(round))
  <2>1. SendersOf(round, d) \in SUBSET Rounds /\ (r \in SendersOf(round, d) <=> d \in round[r].sent)
    BY DEF SendersOf
  <2>2. Cardinality(SendersOf(round, d) \ {r}) = IF r \in SendersOf(round, d)
                                                  THEN Cardinality(SendersOf(round, d)) - 1
                                                  ELSE Cardinality(SendersOf(round, d))
    BY <2>1, RoundsCount
  <2>3. d \notin round[r].sent => Cardinality(SendersOf(round, d)) + 1 <= Cardinality(RunningOf(round))
    BY <1>3, <2>1, SendersRun
  <2> QED
    BY <1>2, <2>1, <2>2, <2>3
<1> QED
  BY <1>2, <1>4, <1>5, <1>6

LEMMA CommitRoundOK == ASSUME RemindersInv, NEW r \in Rounds, Reminders!CommitRound(r) PROVE RemindersInv'
<1>1. /\ round[r].phase = "sending" /\ records' = records \union round[r].sent
      /\ round' = [round EXCEPT ![r] = Reminders!Idle]
      /\ UNCHANGED <<subject, now, sends, accidents>>
  BY DEF Reminders!CommitRound
<1>2. round' \in [Rounds -> Reminders!Round] /\ RoundsSound(round')
  BY <1>1, RoundEnds
<1>3. Answered(sends', records', round', accidents')
  <2>1. SUFFICES ASSUME NEW d \in Reminders!Due \ records'
                 PROVE  /\ sends[d] + Cardinality(RunningOf(round')) <= accidents + Cardinality(SendersOf(round', d)) + 1
                        /\ RunningOf(round') = {} => sends[d] <= accidents
    BY <1>1 DEF Answered
  <2>2. d \in Reminders!Due \ records /\ d \notin round[r].sent
    BY <1>1
  <2>3. /\ Cardinality(RunningOf(round')) = Cardinality(RunningOf(round)) - 1
        /\ RunningOf(round') = {} => Cardinality(RunningOf(round)) = 1
    BY <1>1, RoundEnds
  <2>4. /\ Cardinality(SendersOf(round', d)) = Cardinality(SendersOf(round, d))
        /\ Cardinality(SendersOf(round, d)) + 1 <= Cardinality(RunningOf(round))
    BY <1>1, <2>2, RoundEnds
  <2> QED
    BY <2>2, <2>3, <2>4, Counts
<1>4. Reminders!TypeOK'
  <2>1. Reminders!Due' = Reminders!Due /\ Reminders!Subject' = Reminders!Subject
    BY DEF Reminders!Due, Reminders!Subject
  <2>2. Reminders!Round' = Reminders!Round
    BY <2>1 DEF Reminders!Round
  <2>3. round[r].sent \subseteq Reminders!Due
    BY DEF RemindersInv, Reminders!TypeOK, Reminders!Round
  <2> QED
    BY <1>1, <1>2, <2>1, <2>2, <2>3 DEF RemindersInv, Reminders!TypeOK
<1> QED
  BY <1>1, <1>2, <1>3, <1>4 DEF RemindersInv, Reminders!Due

LEMMA AbortRoundOK == ASSUME RemindersInv, NEW r \in Rounds, Reminders!AbortRound(r) PROVE RemindersInv'
<1>1. /\ round[r].phase = "sending" /\ round' = [round EXCEPT ![r] = Reminders!Idle]
      /\ accidents' = accidents + (IF round[r].sent = {} THEN 0 ELSE 1)
      /\ UNCHANGED <<subject, now, records, sends>>
  BY DEF Reminders!AbortRound
<1>2. round' \in [Rounds -> Reminders!Round] /\ RoundsSound(round')
  BY <1>1, RoundEnds
<1>3. accidents \in Nat /\ accidents' \in Nat /\ accidents' >= accidents
  BY <1>1 DEF RemindersInv, Reminders!TypeOK
<1>4. Answered(sends', records', round', accidents')
  <2>1. SUFFICES ASSUME NEW d \in Reminders!Due \ records
                 PROVE  /\ sends[d] + Cardinality(RunningOf(round')) <= accidents' + Cardinality(SendersOf(round', d)) + 1
                        /\ RunningOf(round') = {} => sends[d] <= accidents'
    BY <1>1 DEF Answered
  <2>2. d \in round[r].sent => accidents' = accidents + 1
    BY <1>1
  <2>3. /\ Cardinality(RunningOf(round')) = Cardinality(RunningOf(round)) - 1
        /\ RunningOf(round') = {} => Cardinality(RunningOf(round)) = 1
    BY <1>1, RoundEnds
  <2>4. Cardinality(SendersOf(round', d)) = IF d \in round[r].sent
                                             THEN Cardinality(SendersOf(round, d)) - 1
                                             ELSE Cardinality(SendersOf(round, d))
    BY <1>1, RoundEnds
  <2>5. d \notin round[r].sent => Cardinality(SendersOf(round, d)) + 1 <= Cardinality(RunningOf(round))
    BY <1>1, RoundEnds
  <2>6. Cardinality(SendersOf(round, d)) <= Cardinality(RunningOf(round))
    BY RoundsAssumption, SendersRun, FS_Subset
  <2> QED
    BY <1>3, <2>2, <2>3, <2>4, <2>5, <2>6, Counts
<1>5. Reminders!TypeOK'
  <2>1. Reminders!Due' = Reminders!Due /\ Reminders!Subject' = Reminders!Subject
    BY DEF Reminders!Due, Reminders!Subject
  <2>2. Reminders!Round' = Reminders!Round
    BY <2>1 DEF Reminders!Round
  <2> QED
    BY <1>1, <1>2, <1>3, <2>1, <2>2 DEF RemindersInv, Reminders!TypeOK
<1>6. \A d \in Reminders!Due : sends'[d] <= 1 + accidents'
  BY <1>1, <1>3 DEF RemindersInv, Reminders!TypeOK
<1> QED
  BY <1>2, <1>4, <1>5, <1>6 DEF RemindersInv, Reminders!Due

LEMMA RemindersStepOK == RemindersInv /\ [Reminders!Next]_(Reminders!reminderVars) => RemindersInv'
<1> SUFFICES ASSUME RemindersInv, [Reminders!Next]_(Reminders!reminderVars) PROVE RemindersInv'
  OBVIOUS
<1>1. CASE /\ now' \in 0..Horizon /\ subject' \in Reminders!Subject
           /\ UNCHANGED <<round, records, sends, accidents>>
  <2>1. Reminders!Due' = Reminders!Due /\ Reminders!Subject' = Reminders!Subject
    BY DEF Reminders!Due, Reminders!Subject
  <2>2. Reminders!Round' = Reminders!Round
    BY <2>1 DEF Reminders!Round
  <2>3. Reminders!TypeOK'
    BY <1>1, <2>1, <2>2 DEF RemindersInv, Reminders!TypeOK
  <2>4. RoundsSound(round')
    BY <1>1 DEF RemindersInv
  <2>5. Answered(sends', records', round', accidents')
    BY <1>1 DEF RemindersInv
  <2> QED
    BY <1>1, <2>1, <2>3, <2>4, <2>5 DEF RemindersInv
<1>2. CASE Reminders!Tick
  <2>1. now' \in 0..Horizon
    BY <1>2, RoundsAssumption DEF Reminders!Tick, RemindersInv, Reminders!TypeOK
  <2> QED
    BY <1>1, <1>2, <2>1 DEF Reminders!Tick, RemindersInv, Reminders!TypeOK
<1>3. ASSUME NEW date \in Dates, NEW live \in BOOLEAN, Reminders!Change(date, live) PROVE RemindersInv'
  <2>1. subject' \in Reminders!Subject
    BY <1>3 DEF Reminders!Change, RemindersInv, Reminders!TypeOK, Reminders!Subject
  <2> QED
    BY <1>1, <1>3, <2>1 DEF Reminders!Change, RemindersInv, Reminders!TypeOK
<1>4. CASE UNCHANGED Reminders!reminderVars
  BY <1>1, <1>4 DEF Reminders!reminderVars, RemindersInv, Reminders!TypeOK
<1>5. ASSUME NEW r \in Rounds, Reminders!StartRound(r) \/ Reminders!AbortRound(r) PROVE RemindersInv'
  BY <1>5, StartRoundOK, AbortRoundOK
<1>6. ASSUME NEW r \in Rounds, Reminders!CommitRound(r) PROVE RemindersInv'
  BY <1>6, CommitRoundOK
<1>7. ASSUME NEW r \in Rounds, NEW d \in Reminders!Due,
             Reminders!Skip(r, d) \/ \E ok \in BOOLEAN : Reminders!Send(r, d, ok)
      PROVE  RemindersInv'
  BY <1>7, SkipOK, SendOK
<1> QED
  BY <1>2, <1>3, <1>4, <1>5, <1>6, <1>7 DEF Reminders!Next

-----------------------------------------------------------------------------
(* Imports. Whatever was imported would be found again: by the duplicate check, or as a
   customer with both contacts. *)
\* What an import works on.
Book == [customers : Seq(Imports!Customer), diary : Seq(Imports!Appointment), errors : BOOLEAN, clash : BOOLEAN]
Whole(db) == db \in Book /\ \A i \in DOMAIN db.diary : db.diary[i].who \in DOMAIN db.customers

\* Whom find_customer finds: a customer of the list with the phone or the e-mail, who is the
\* same person for the duplicate check unless the row gives both.
LEMMA KnownIs ==
    ASSUME NEW row \in Imports!Customer, NEW cs \in Seq(Imports!Customer)
    PROVE  /\ Imports!Known(row, cs) = 0 \/ Imports!Known(row, cs) \in DOMAIN cs
           /\ Imports!Known(row, cs) # 0 <=>
                 \E i \in DOMAIN cs : \/ row.phone # None /\ cs[i].phone = row.phone
                                      \/ row.email # None /\ cs[i].email = row.email
           /\ Imports!Known(row, cs) # 0 =>
                 \/ Imports!SamePerson(row, cs[Imports!Known(row, cs)])
                 \/ None \notin {row.phone, row.email}
<1> DEFINE P == {i \in DOMAIN cs : row.phone # None /\ cs[i].phone = row.phone}
           E == {i \in DOMAIN cs : row.email # None /\ cs[i].email = row.email}
           Oldest(S) == CHOOSE i \in S : \A j \in S : i <= j
<1>1. DOMAIN cs \in SUBSET Nat /\ 0 \notin DOMAIN cs
  BY LenProperties
<1>2. ASSUME NEW S \in SUBSET (DOMAIN cs), S # {} PROVE Oldest(S) \in S
  <2>1. PICK m \in S : \A j \in S : m <= j
    BY <1>1, <1>2, LeastExists
  <2> QED
    BY <2>1
<1>3. Imports!Known(row, cs) = IF P # {} THEN Oldest(P) ELSE IF E # {} THEN Oldest(E) ELSE 0
  BY DEF Imports!Known
<1> HIDE DEF Oldest
<1>4. CASE P # {}
  <2>1. Imports!Known(row, cs) \in P
    BY <1>2, <1>3, <1>4
  <2> QED
    BY <1>1, <2>1 DEF Imports!SamePerson
<1>5. CASE P = {} /\ E # {}
  <2>1. Imports!Known(row, cs) \in E
    BY <1>2, <1>3, <1>5
  <2> QED
    BY <1>1, <2>1 DEF Imports!SamePerson
<1>6. CASE P = {} /\ E = {}
  BY <1>3, <1>6
<1> QED
  BY <1>4, <1>5, <1>6

\* The three ways of a row: an error, a row that is there already, or a new appointment.
Added(db, row, new) ==
    LET known == Imports!Known(row.customer, db.customers)
    IN /\ new.errors = db.errors /\ ~Imports!Duplicate(row, db)
       /\ new.customers = IF known # 0 THEN db.customers ELSE Append(db.customers, row.customer)
       /\ new.diary = Append(db.diary, [service |-> row.service, slot |-> row.slot,
                                        who |-> IF known # 0 THEN known ELSE Len(db.customers) + 1])

LEMMA RowGoes ==
    ASSUME NEW db \in Book, NEW row \in Imports!DiaryRow
    PROVE  LET new == Imports!ImportRow(db, row)
           IN /\ new \in Book
              /\ \/ new.errors /\ new.customers = db.customers /\ new.diary = db.diary
                 \/ new = db /\ Imports!Duplicate(row, db)
                 \/ Added(db, row, new)
<1> DEFINE new == Imports!ImportRow(db, row)
           known == Imports!Known(row.customer, db.customers)
           who == IF known # 0 THEN known ELSE Len(db.customers) + 1
           item == [service |-> row.service, slot |-> row.slot, who |-> who]
           clash == db.clash \/ \E i \in DOMAIN db.diary : db.diary[i].slot = row.slot
           guests == IF known # 0 THEN db.customers ELSE Append(db.customers, row.customer)
<1>1. PICK c \in Seq(Imports!Customer), d \in Seq(Imports!Appointment), e \in BOOLEAN, x \in BOOLEAN :
        db = [customers |-> c, diary |-> d, errors |-> e, clash |-> x]
  BY DEF Book
<1>2. CASE row.service \notin services
  <2>1. new = [customers |-> c, diary |-> d, errors |-> TRUE, clash |-> x]
    BY <1>1, <1>2 DEF Imports!ImportRow
  <2>2. new \in Book
    BY <2>1 DEF Book
  <2>3. new.errors = TRUE /\ new.customers = db.customers /\ new.diary = db.diary
    BY <1>1, <2>1
  <2> QED
    BY <2>2, <2>3
<1>3. CASE row.service \in services /\ Imports!Duplicate(row, db)
  <2>1. new = db
    BY <1>3 DEF Imports!ImportRow
  <2> QED
    BY <1>3, <2>1
<1>4. CASE row.service \in services /\ ~Imports!Duplicate(row, db)
  <2>1. row.customer \in Imports!Customer /\ row.service \in Services /\ row.slot \in Slots
    BY DEF Imports!DiaryRow
  <2>2. guests \in Seq(Imports!Customer) /\ who \in Nat
    <3>1. db.customers \in Seq(Imports!Customer) /\ Len(db.customers) \in Nat
      BY <1>1
    <3>2. known = 0 \/ known \in DOMAIN db.customers
      BY <2>1, <3>1, KnownIs
    <3>3. known \in Nat
      BY <3>1, <3>2
    <3> QED
      BY <2>1, <3>1, <3>3, AppendProperties
  <2>3. item \in Imports!Appointment
    BY <2>1, <2>2 DEF Imports!Appointment
  <2>4. Append(db.diary, item) \in Seq(Imports!Appointment)
    BY <1>1, <2>3, AppendProperties
  <2>5. new = [db EXCEPT !.customers = IF known # 0 THEN @ ELSE Append(@, row.customer),
                         !.diary = Append(@, item),
                         !.clash = @ \/ \E i \in DOMAIN db.diary : db.diary[i].slot = row.slot]
    BY <1>4 DEF Imports!ImportRow
  <2> HIDE DEF item, known, who
  <2>6. new = [customers |-> guests, diary |-> Append(db.diary, item), errors |-> e, clash |-> clash]
    BY <1>1, <2>5
  <2>7. clash \in BOOLEAN
    OBVIOUS
  <2>8. new \in Book
    BY <2>2, <2>4, <2>6, <2>7 DEF Book
  <2>9. Added(db, row, new)
    <3>1. /\ new.errors = db.errors /\ new.customers = guests /\ new.diary = Append(db.diary, item)
          /\ ~Imports!Duplicate(row, db)
      <4>1. PICK y \in BOOLEAN : y = clash
        BY <2>7
      <4>2. new = [customers |-> guests, diary |-> Append(db.diary, item), errors |-> e, clash |-> y]
        BY <2>6, <4>1
      <4> HIDE DEF new, guests, clash
      <4>3. new.errors = e /\ new.customers = guests /\ new.diary = Append(db.diary, item)
        BY <4>2
      <4> QED
        BY <1>1, <1>4, <4>3
    <3> QED
      BY <3>1 DEF Added, item, who, known
  <2> QED
    BY <2>8, <2>9
<1> QED
  BY <1>2, <1>3, <1>4

\* new holds what db holds, and perhaps more behind it.
Extends(db, new) ==
    /\ DOMAIN db.customers \subseteq DOMAIN new.customers /\ DOMAIN db.diary \subseteq DOMAIN new.diary
    /\ \A i \in DOMAIN db.customers : new.customers[i] = db.customers[i]
    /\ \A i \in DOMAIN db.diary : new.diary[i] = db.diary[i]

\* The row would not make a customer, and an appointment only if it gives both contacts.
Settled(row, db) ==
    \/ Imports!Duplicate(row, db)
    \/ /\ Imports!Known(row.customer, db.customers) # 0
       /\ None \notin {row.customer.phone, row.customer.email}

LEMMA SettledStays ==
    ASSUME NEW db, NEW new, Whole(db), Whole(new), Extends(db, new), NEW row \in Imports!DiaryRow,
           Settled(row, db)
    PROVE  Settled(row, new)
<1>1. CASE Imports!Duplicate(row, db)
  <2>1. PICK i \in DOMAIN db.diary : /\ db.diary[i].service = row.service
                                     /\ db.diary[i].slot = row.slot
                                     /\ Imports!SamePerson(row.customer, db.customers[db.diary[i].who])
    BY <1>1 DEF Imports!Duplicate
  <2>2. /\ i \in DOMAIN new.diary /\ new.diary[i] = db.diary[i]
        /\ new.customers[db.diary[i].who] = db.customers[db.diary[i].who]
    BY DEF Extends, Whole
  <2>3. Imports!Duplicate(row, new)
    BY <2>1, <2>2 DEF Imports!Duplicate
  <2> QED
    BY <2>3 DEF Settled
<1>2. CASE ~Imports!Duplicate(row, db)
  <2>1. /\ Imports!Known(row.customer, db.customers) # 0
        /\ None \notin {row.customer.phone, row.customer.email}
    BY <1>2 DEF Settled
  <2>2. /\ row.customer \in Imports!Customer /\ db.customers \in Seq(Imports!Customer)
        /\ new.customers \in Seq(Imports!Customer)
    BY DEF Whole, Book, Imports!DiaryRow
  <2>3. PICK i \in DOMAIN db.customers :
          \/ row.customer.phone # None /\ db.customers[i].phone = row.customer.phone
          \/ row.customer.email # None /\ db.customers[i].email = row.customer.email
    BY <2>1, <2>2, KnownIs
  <2>4. i \in DOMAIN new.customers /\ new.customers[i] = db.customers[i]
    BY DEF Extends
  <2>5. Imports!Known(row.customer, new.customers) # 0
    BY <2>2, <2>3, <2>4, KnownIs
  <2> QED
    BY <2>1, <2>5 DEF Settled
<1> QED
  BY <1>1, <1>2

LEMMA RowSettles ==
    ASSUME NEW db, Whole(db), NEW row \in Imports!DiaryRow, NEW new, new = Imports!ImportRow(db, row)
    PROVE  /\ Whole(new) /\ Extends(db, new) /\ (db.errors => new.errors)
           /\ new.errors \/ Settled(row, new)
<1> DEFINE known == Imports!Known(row.customer, db.customers)
           who == IF known # 0 THEN known ELSE Len(db.customers) + 1
           item == [service |-> row.service, slot |-> row.slot, who |-> who]
<1>1. /\ db \in Book /\ db.customers \in Seq(Imports!Customer) /\ db.diary \in Seq(Imports!Appointment)
      /\ row.customer \in Imports!Customer
      /\ \A i \in DOMAIN db.diary : db.diary[i].who \in DOMAIN db.customers
  BY DEF Whole, Book, Imports!DiaryRow
<1>2. /\ new \in Book
      /\ \/ new.errors /\ new.customers = db.customers /\ new.diary = db.diary
         \/ new = db /\ Imports!Duplicate(row, db)
         \/ Added(db, row, new)
  BY <1>1, RowGoes
<1>3. CASE new.errors /\ new.customers = db.customers /\ new.diary = db.diary
  BY <1>1, <1>2, <1>3 DEF Whole, Extends
<1>4. CASE new = db /\ Imports!Duplicate(row, db)
  BY <1>4 DEF Extends, Settled
<1>5. CASE Added(db, row, new)
  <2>1. /\ new.errors = db.errors
        /\ new.customers = IF known # 0 THEN db.customers ELSE Append(db.customers, row.customer)
        /\ new.diary = Append(db.diary, item)
    BY <1>5 DEF Added
  <2>2. /\ known = 0 \/ known \in DOMAIN db.customers
        /\ known # 0 => \/ Imports!SamePerson(row.customer, db.customers[known])
                        \/ None \notin {row.customer.phone, row.customer.email}
    BY <1>1, KnownIs
  <2>3. item.service = row.service /\ item.slot = row.slot /\ item.who = who
    OBVIOUS
  <2> HIDE DEF known, item
  <2>4. /\ Len(db.customers) \in Nat /\ DOMAIN db.customers = 1..Len(db.customers)
        /\ Len(db.diary) \in Nat /\ DOMAIN db.diary = 1..Len(db.diary)
    BY <1>1
  <2>5. /\ DOMAIN new.diary = 1..(Len(db.diary) + 1) /\ new.diary[Len(db.diary) + 1] = item
        /\ \A i \in DOMAIN db.diary : new.diary[i] = db.diary[i]
    BY <1>1, <2>1, <2>4
  <2>6. /\ DOMAIN db.customers \subseteq DOMAIN new.customers
        /\ \A i \in DOMAIN db.customers : new.customers[i] = db.customers[i]
    BY <1>1, <2>1, <2>4
  <2>7. Extends(db, new)
    BY <2>4, <2>5, <2>6 DEF Extends
  <2>8. who \in DOMAIN new.customers /\ (known = 0 => new.customers[who] = row.customer)
    BY <1>1, <2>1, <2>2, <2>4
  <2>9. Whole(new)
    <3>1. ASSUME NEW i \in DOMAIN new.diary PROVE new.diary[i].who \in DOMAIN new.customers
      <4>1. CASE i \in DOMAIN db.diary
        BY <1>1, <2>5, <2>6, <4>1
      <4>2. CASE i = Len(db.diary) + 1
        BY <2>3, <2>5, <2>8, <4>2
      <4> QED
        BY <2>4, <2>5, <4>1, <4>2
    <3> QED
      BY <1>2, <3>1 DEF Whole
  <2>10. Settled(row, new)
    <3>1. CASE Imports!SamePerson(row.customer, new.customers[who])
      <4>1. Imports!Duplicate(row, new)
        <5>1. Len(db.diary) + 1 \in DOMAIN new.diary
          BY <2>4, <2>5
        <5> QED
          BY <2>3, <2>5, <3>1, <5>1 DEF Imports!Duplicate
      <4> QED
        BY <4>1 DEF Settled
    <3>2. CASE ~Imports!SamePerson(row.customer, new.customers[who])
      <4>1. known # 0
        BY <2>8, <3>2 DEF Imports!SamePerson
      <4>2. None \notin {row.customer.phone, row.customer.email}
        BY <2>2, <2>6, <3>2, <4>1
      <4>3. new.customers = db.customers
        BY <2>1, <4>1
      <4> QED
        BY <4>1, <4>2, <4>3 DEF Settled, known
    <3> QED
      BY <3>1, <3>2
  <2> QED
    BY <2>1, <2>7, <2>9, <2>10
<1> QED
  BY <1>2, <1>3, <1>4, <1>5

\* A settled row that is imported again.
LEMMA RowAgain ==
    ASSUME NEW db, Whole(db), NEW row \in Imports!DiaryRow, Settled(row, db), NEW new,
           new = Imports!ImportRow(db, row)
    PROVE  \/ new.errors
           \/ new.customers = db.customers /\ new.diary = db.diary
           \/ /\ new.customers = db.customers /\ DOMAIN new.diary = DOMAIN db.diary \union {Len(db.diary) + 1}
              /\ new.diary[Len(db.diary) + 1].slot = row.slot
              /\ None \notin {row.customer.phone, row.customer.email}
<1>1. db \in Book /\ db.diary \in Seq(Imports!Appointment)
  BY DEF Whole, Book
<1>2. \/ new.errors /\ new.customers = db.customers /\ new.diary = db.diary
      \/ new = db /\ Imports!Duplicate(row, db)
      \/ Added(db, row, new)
  BY <1>1, RowGoes
<1>3. CASE Added(db, row, new)
  <2>1. PICK item : item.slot = row.slot /\ new.diary = Append(db.diary, item)
    BY <1>3 DEF Added
  <2>2. Imports!Known(row.customer, db.customers) # 0 /\ None \notin {row.customer.phone, row.customer.email}
    BY <1>3 DEF Added, Settled
  <2>3. new.customers = db.customers
    BY <1>3, <2>2 DEF Added
  <2>4. /\ DOMAIN new.diary = DOMAIN db.diary \union {Len(db.diary) + 1}
        /\ new.diary[Len(db.diary) + 1] = item
    BY <1>1, <2>1
  <2> QED
    BY <2>1, <2>2, <2>3, <2>4
<1> QED
  BY <1>2, <1>3

\* An import applies its rows in order, each to what the rows before it made.
LEMMA ImportRowsIs ==
    ASSUME NEW rows \in Seq(Imports!DiaryRow), NEW base \in Book,
           base = [customers |-> customers, diary |-> diary, errors |-> FALSE, clash |-> FALSE]
    PROVE  \E h : /\ h[0] = base /\ h[Len(rows)] = Imports!ImportRows(rows)
                  /\ \A k \in 1..Len(rows) : h[k] = Imports!ImportRow(h[k - 1], rows[k])
<1> DEFINE S == DOMAIN rows
           Top(s) == CHOOSE x \in s : \A y \in s : x >= y
           Iter(i) == i = [s \in SUBSET S |-> IF s = {} THEN base
                             ELSE Imports!ImportRow(i[s \ {Top(s)}], rows[Top(s)])]
<1>1. /\ S = 1..Len(rows) /\ Len(rows) \in Nat /\ IsFiniteSet(S)
      /\ \A k \in S : rows[k] \in Imports!DiaryRow
  BY FS_Interval
<1>2. \A s \in SUBSET S : s # {} => Top(s) \in s /\ \A y \in s : Top(s) >= y
  <2> SUFFICES ASSUME NEW s \in SUBSET S, s # {} PROVE Top(s) \in s /\ \A y \in s : Top(s) >= y
    OBVIOUS
  <2>1. \E x \in s : \A y \in s : x >= y
    <3>1. s \in SUBSET Nat /\ IsFiniteSet(s)
      BY <1>1, FS_Subset
    <3>2. PICK m \in s : \A u \in s : u <= m
      BY <3>1, GreatestOfFinite
    <3> QED
      BY <3>1, <3>2
  <2> QED
    BY <2>1
<1>3. PICK pick : pick = [s \in SUBSET S |-> Top(s)]
  OBVIOUS
<1>4. Picks(pick, S)
  BY <1>2, <1>3 DEF Picks
<1>5. PICK step : step = [p \in S \X Book |-> Imports!ImportRow(p[2], rows[p[1]])]
  OBVIOUS
<1>6. step \in [S \X Book -> Book] /\ \A k \in S, db \in Book : step[<<k, db>>] = Imports!ImportRow(db, rows[k])
  <2>1. \A k \in S, db \in Book : Imports!ImportRow(db, rows[k]) \in Book
    BY <1>1, RowGoes
  <2> QED
    BY <1>5, <2>1
<1>7. PICK g \in [SUBSET S -> Book] : Solves(g, S, base, step, pick)
  BY <1>1, <1>4, <1>6, RecursionExists
<1>8. \A s \in SUBSET S : g[s] = IF s = {} THEN base ELSE Imports!ImportRow(g[s \ {pick[s]}], rows[pick[s]])
  BY <1>4, <1>6, <1>7 DEF Picks, Solves
<1>9. Iter(g)
  <2>1. \A s \in SUBSET S : pick[s] = Top(s)
    BY <1>3
  <2>2. g = [s \in SUBSET S |-> g[s]]
    OBVIOUS
  <2> HIDE DEF Top
  <2> QED
    BY <1>8, <2>1, <2>2
<1>10. PICK i : Iter(i) /\ i = CHOOSE j : Iter(j)
  BY <1>9
<1>11. \A s \in SUBSET S : i[s] = IF s = {} THEN base ELSE Imports!ImportRow(i[s \ {Top(s)}], rows[Top(s)])
  <2> DEFINE F == [s \in SUBSET S |-> IF s = {} THEN base
                     ELSE Imports!ImportRow(i[s \ {Top(s)}], rows[Top(s)])]
  <2>1. i = F
    BY <1>10
  <2>2. \A s \in SUBSET S : F[s] = IF s = {} THEN base
                     ELSE Imports!ImportRow(i[s \ {Top(s)}], rows[Top(s)])
    OBVIOUS
  <2> HIDE DEF F
  <2> QED
    BY <2>1, <2>2
<1>12. Imports!ImportRows(rows) = i[S]
  <2>1. Imports!ImportRows(rows) = (CHOOSE j : Iter(j))[S]
    BY DEF Imports!ImportRows, Imports!FoldLeft, Imports!MapThenFoldSet, Imports!Max
  <2> HIDE DEF Iter
  <2> QED
    BY <1>10, <2>1
<1> DEFINE h == [k \in 0..Len(rows) |-> i[1..k]]
<1>13. h[0] = base /\ h[Len(rows)] = Imports!ImportRows(rows)
  <2>1. 1..0 = {} /\ S = 1..Len(rows) /\ 0 \in 0..Len(rows) /\ Len(rows) \in 0..Len(rows)
    BY <1>1
  <2>2. i[{}] = base
    BY <1>11
  <2>3. h[0] = i[1..0] /\ h[Len(rows)] = i[1..Len(rows)]
    BY <2>1
  <2> QED
    BY <1>12, <2>1, <2>2, <2>3
<1>14. ASSUME NEW k \in 1..Len(rows) PROVE h[k] = Imports!ImportRow(h[k - 1], rows[k])
  <2>1. 1..k \in SUBSET S /\ 1..k # {} /\ k - 1 \in 0..Len(rows) /\ k \in 0..Len(rows)
    <3>1. k \in Nat /\ 1 <= k /\ k <= Len(rows) /\ Len(rows) \in Nat
      BY <1>1
    <3>2. 1 \in 1..k /\ \A y \in 1..k : y \in 1..Len(rows)
      BY <3>1
    <3> QED
      BY <1>1, <3>1, <3>2
  <2>2. Top(1..k) = k
    <3>1. Top(1..k) \in 1..k /\ \A y \in 1..k : Top(1..k) >= y
      BY <1>2, <2>1
    <3> HIDE DEF Top
    <3> QED
      BY <3>1
  <2>3. (1..k) \ {k} = 1..(k - 1)
    OBVIOUS
  <2> QED
    BY <1>11, <2>1, <2>2, <2>3
<1> QED
  BY <1>13, <1>14

Db == [customers |-> customers, diary |-> diary, errors |-> FALSE, clash |-> FALSE]

\* Every row that was imported would be found again.
ImportsInv == /\ Imports!TypeOK /\ Whole(Db)
              /\ \A i \in DOMAIN imported : \A k \in DOMAIN imported[i] : Settled(imported[i][k], Db)

\* What RerunMakesNoCopies says of a step.
NoCopies == Imports!Again =>
    /\ customers' = customers
    /\ \A i \in DOMAIN diary' \ DOMAIN diary :
          \E row \in Imports!Range(Imports!Last(imported')) :
              row.slot = diary'[i].slot /\ None \notin {row.customer.phone, row.customer.email}

LEMMA DbIs == /\ Db.customers = customers /\ Db.diary = diary /\ Db.errors = FALSE
              /\ (Imports!TypeOK => Db \in Book)
<1>1. Db.customers = customers /\ Db.diary = diary /\ Db.errors = FALSE
  BY DEF Db
<1>2. Imports!TypeOK => Db \in Book
  BY DEF Db, Book, Imports!TypeOK
<1> QED
  BY <1>1, <1>2

\* Whether a row is settled is a matter of the customers and the diary.
LEMMA SettledBy ==
    ASSUME NEW db, NEW new, new.customers = db.customers, new.diary = db.diary, NEW row, Settled(row, db)
    PROVE  Settled(row, new)
  BY DEF Settled, Imports!Duplicate

LEMMA ExtendsOn ==
    ASSUME NEW a, NEW b, NEW c, Extends(a, b), Extends(b, c)
    PROVE  Extends(a, c)
  BY DEF Extends

LEMMA ImportsInitOK == Imports!Init => ImportsInv
<1> SUFFICES ASSUME Imports!Init PROVE ImportsInv
  OBVIOUS
<1>1. imported = <<>> /\ diary = <<>> /\ services \in SUBSET Services
  BY DEF Imports!Init
<1>2. customers \in Seq(Imports!Customer)
  <2>1. CASE customers = <<>>
    BY <2>1
  <2>2. ASSUME NEW c \in Imports!Customer, customers = <<c>> PROVE customers \in Seq(Imports!Customer)
    BY <2>2
  <2> QED
    BY <2>1, <2>2 DEF Imports!Init
<1>3. Imports!TypeOK
  BY <1>1, <1>2 DEF Imports!TypeOK
<1>4. Whole(Db)
  BY <1>1, <1>3, DbIs DEF Whole
<1>5. DOMAIN imported = {}
  BY <1>1
<1> QED
  BY <1>3, <1>4, <1>5 DEF ImportsInv

\* A run over the rows that meets no error keeps the books whole and settles every row.
LEMMA RunSettles ==
    ASSUME Whole(Db), NEW rows \in Seq(Imports!DiaryRow), ~Imports!ImportRows(rows).errors
    PROVE  /\ Whole(Imports!ImportRows(rows)) /\ Extends(Db, Imports!ImportRows(rows))
           /\ \A k \in DOMAIN rows : Settled(rows[k], Imports!ImportRows(rows))
<1>1. Db \in Book
  BY DEF Whole
<1>2. PICK h : /\ h[0] = Db /\ h[Len(rows)] = Imports!ImportRows(rows)
               /\ \A k \in 1..Len(rows) : h[k] = Imports!ImportRow(h[k - 1], rows[k])
  BY <1>1, ImportRowsIs DEF Db
<1>3. Len(rows) \in Nat /\ DOMAIN rows = 1..Len(rows) /\ \A k \in 1..Len(rows) : rows[k] \in Imports!DiaryRow
  OBVIOUS
<1> DEFINE Fine(k) == /\ Whole(h[k]) /\ Extends(Db, h[k])
                      /\ h[k].errors \/ \A j \in 1..k : Settled(rows[j], h[k])
           Bad == {k \in 0..Len(rows) : ~Fine(k)}
<1>4. Fine(0)
  <2>1. 1..0 = {}
    OBVIOUS
  <2>2. Whole(h[0]) /\ Extends(Db, h[0])
    BY <1>2 DEF Extends
  <2> QED
    BY <2>1, <2>2
<1>5. ASSUME NEW k \in 1..Len(rows), Fine(k - 1) PROVE Fine(k)
  <2> DEFINE old == h[k - 1]
             new == h[k]
  <2>1. Whole(old) /\ Extends(Db, old) /\ rows[k] \in Imports!DiaryRow /\ new = Imports!ImportRow(old, rows[k])
    BY <1>2, <1>3, <1>5
  <2>2. \A j \in 1..k : j = k \/ j \in 1..(k - 1)
    OBVIOUS
  <2>3. old.errors \/ \A j \in 1..(k - 1) : Settled(rows[j], old)
    BY <1>5
  <2> HIDE DEF old, new
  <2>4. /\ Whole(new) /\ Extends(old, new) /\ (old.errors => new.errors)
        /\ new.errors \/ Settled(rows[k], new)
    BY <2>1, RowSettles
  <2>5. Extends(Db, new)
    BY <2>1, <2>4, ExtendsOn
  <2>6. ASSUME ~new.errors, NEW j \in 1..k PROVE Settled(rows[j], new)
    <3>1. CASE j = k
      BY <2>4, <2>6, <3>1
    <3>2. CASE j \in 1..(k - 1)
      <4>1. Settled(rows[j], old) /\ rows[j] \in Imports!DiaryRow
        BY <1>3, <2>3, <2>4, <2>6, <3>2
      <4> QED
        BY <2>1, <2>4, <4>1, SettledStays
    <3> QED
      BY <2>2, <3>1, <3>2
  <2> QED
    BY <2>4, <2>5, <2>6 DEF old, new
<1>6. 0 \notin Bad /\ \A k \in 1..Len(rows) : k - 1 \notin Bad => k \notin Bad
  BY <1>3, <1>4, <1>5
<1> HIDE DEF Fine
<1>7. Fine(Len(rows))
  <2>1. PICK B : B = Bad
    OBVIOUS
  <2>2. 0 \notin B /\ \A k \in 1..Len(rows) : k - 1 \notin B => k \notin B
    BY <1>6, <2>1
  <2>3. PICK n \in Nat : n = Len(rows)
    BY <1>3
  <2>4. \A k \in 1..n : k - 1 \notin B => k \notin B
    BY <2>2, <2>3
  <2>5. \A k \in 0..n : k \notin B
    BY <2>2, <2>4, NoneTurnsBad
  <2>6. n \in 0..n
    BY <2>3
  <2>7. n \notin B
    BY <2>5, <2>6
  <2> QED
    BY <1>3, <2>1, <2>3, <2>7
<1> QED
  BY <1>2, <1>3, <1>7 DEF Fine

\* A run over settled rows makes no customer, and appointments only of rows with both contacts.
LEMMA RunAgain ==
    ASSUME Whole(Db), NEW rows \in Seq(Imports!DiaryRow), ~Imports!ImportRows(rows).errors,
           \A k \in DOMAIN rows : Settled(rows[k], Db)
    PROVE  LET new == Imports!ImportRows(rows)
           IN /\ new.customers = customers
              /\ \A i \in DOMAIN new.diary \ DOMAIN diary :
                    \E k \in DOMAIN rows : /\ rows[k].slot = new.diary[i].slot
                                           /\ None \notin {rows[k].customer.phone, rows[k].customer.email}
<1>1. Db \in Book
  BY DEF Whole
<1>2. PICK h : /\ h[0] = Db /\ h[Len(rows)] = Imports!ImportRows(rows)
               /\ \A k \in 1..Len(rows) : h[k] = Imports!ImportRow(h[k - 1], rows[k])
  BY <1>1, ImportRowsIs DEF Db
<1>3. Len(rows) \in Nat /\ DOMAIN rows = 1..Len(rows) /\ \A k \in 1..Len(rows) : rows[k] \in Imports!DiaryRow
  OBVIOUS
<1> DEFINE From(db, i) == \E k \in DOMAIN rows : /\ rows[k].slot = db.diary[i].slot
                                                 /\ None \notin {rows[k].customer.phone, rows[k].customer.email}
           Same(db) == db.customers = customers /\ \A i \in DOMAIN db.diary \ DOMAIN diary : From(db, i)
           Fine(k) == Whole(h[k]) /\ Extends(Db, h[k]) /\ (h[k].errors \/ Same(h[k]))
           Bad == {k \in 0..Len(rows) : ~Fine(k)}
<1>4. Fine(0)
  BY <1>2, DbIs DEF Extends
<1>5. ASSUME NEW k \in 1..Len(rows), Fine(k - 1) PROVE Fine(k)
  <2> DEFINE old == h[k - 1]
             new == h[k]
  <2>1. /\ Whole(old) /\ Extends(Db, old) /\ (old.errors \/ Same(old))
        /\ rows[k] \in Imports!DiaryRow /\ new = Imports!ImportRow(old, rows[k])
    BY <1>2, <1>3, <1>5
  <2> HIDE DEF old, new
  <2>2. /\ Whole(new) /\ Extends(old, new) /\ (old.errors => new.errors)
    BY <2>1, RowSettles
  <2>3. Extends(Db, new)
    BY <2>1, <2>2, ExtendsOn
  <2>4. Settled(rows[k], old)
    BY <1>3, <2>1, SettledStays
  <2>5. \/ new.errors
        \/ new.customers = old.customers /\ new.diary = old.diary
        \/ /\ new.customers = old.customers /\ DOMAIN new.diary = DOMAIN old.diary \union {Len(old.diary) + 1}
           /\ new.diary[Len(old.diary) + 1].slot = rows[k].slot
           /\ None \notin {rows[k].customer.phone, rows[k].customer.email}
    BY <2>1, <2>4, RowAgain
  <2>6. ASSUME ~new.errors PROVE Same(new)
    <3>1. Same(old) /\ new.customers = old.customers
      BY <2>1, <2>2, <2>5, <2>6
    <3>2. ASSUME NEW i \in DOMAIN new.diary \ DOMAIN diary PROVE From(new, i)
      <4>1. CASE i \in DOMAIN old.diary
        <5>1. From(old, i) /\ new.diary[i] = old.diary[i]
          BY <2>2, <3>1, <3>2, <4>1 DEF Extends
        <5> QED
          BY <5>1
      <4>2. CASE i \notin DOMAIN old.diary
        BY <1>3, <2>5, <2>6, <3>2, <4>2
      <4> QED
        BY <4>1, <4>2
    <3> QED
      BY <3>1, <3>2
  <2> QED
    BY <2>2, <2>3, <2>6 DEF new
<1>6. 0 \notin Bad /\ \A k \in 1..Len(rows) : k - 1 \notin Bad => k \notin Bad
  BY <1>3, <1>4, <1>5
<1> HIDE DEF Fine
<1>7. Fine(Len(rows))
  <2>1. PICK B : B = Bad
    OBVIOUS
  <2>2. 0 \notin B /\ \A k \in 1..Len(rows) : k - 1 \notin B => k \notin B
    BY <1>6, <2>1
  <2>3. PICK n \in Nat : n = Len(rows)
    BY <1>3
  <2>4. \A k \in 1..n : k - 1 \notin B => k \notin B
    BY <2>2, <2>3
  <2>5. \A k \in 0..n : k \notin B
    BY <2>2, <2>4, NoneTurnsBad
  <2>6. n \in 0..n
    BY <2>3
  <2>7. n \notin B
    BY <2>5, <2>6
  <2> QED
    BY <1>3, <2>1, <2>3, <2>7
<1> QED
  BY <1>2, <1>7 DEF Fine

LEMMA ImportDiaryOK ==
    ASSUME ImportsInv, NEW rows \in Rows, NEW ack \in BOOLEAN, Imports!ImportDiary(rows, ack)
    PROVE  ImportsInv' /\ NoCopies
<1> DEFINE new == Imports!ImportRows(rows)
<1>1. /\ ~new.errors /\ customers' = new.customers /\ diary' = new.diary
      /\ imported' = Append(imported, rows) /\ services' = services
  BY DEF Imports!ImportDiary
<1>2. rows \in Seq(Imports!DiaryRow)
  BY RowsAssumption
<1>3. Imports!TypeOK /\ Whole(Db) /\ imported \in Seq(Rows) /\ services \subseteq Services
  BY DEF ImportsInv, Imports!TypeOK
<1>4. Whole(new) /\ Extends(Db, new) /\ \A k \in DOMAIN rows : Settled(rows[k], new)
  BY <1>1, <1>2, <1>3, RunSettles
<1>5. /\ Len(imported) \in Nat /\ DOMAIN imported = 1..Len(imported)
      /\ imported' \in Seq(Rows) /\ Len(imported') = Len(imported) + 1
      /\ DOMAIN imported' = 1..(Len(imported) + 1) /\ imported'[Len(imported) + 1] = rows
      /\ \A i \in DOMAIN imported : imported'[i] = imported[i] /\ imported[i] \in Rows
  BY <1>1, <1>3
<1> HIDE DEF new
<1>6. Imports!TypeOK'
  <2>1. new.customers \in Seq(Imports!Customer) /\ new.diary \in Seq(Imports!Appointment)
    BY <1>4 DEF Whole, Book
  <2> QED
    BY <1>1, <1>3, <1>5, <2>1 DEF Imports!TypeOK, Imports!Customer, Imports!Appointment
<1>7. Db'.customers = new.customers /\ Db'.diary = new.diary
  BY <1>1 DEF Db
<1>8. Whole(Db)'
  <2>1. Db' \in Book
    BY <1>6, DbIs DEF Db, Book, Imports!TypeOK
  <2> QED
    BY <1>4, <1>7, <2>1 DEF Whole, Book, Imports!Customer, Imports!Appointment
<1>9. ASSUME NEW i \in DOMAIN imported', NEW k \in DOMAIN imported'[i] PROVE Settled(imported'[i][k], new)
  <2>1. CASE i = Len(imported) + 1
    BY <1>4, <1>5, <1>9, <2>1
  <2>2. CASE i \in DOMAIN imported
    <3>1. imported'[i] = imported[i] /\ imported[i] \in Seq(Imports!DiaryRow) /\ k \in DOMAIN imported[i]
      BY <1>5, <1>9, <2>2, RowsAssumption
    <3>2. imported[i][k] \in Imports!DiaryRow /\ Settled(imported[i][k], Db)
      BY <2>2, <3>1 DEF ImportsInv
    <3> QED
      BY <1>3, <1>4, <3>1, <3>2, SettledStays
  <2> QED
    BY <1>5, <2>1, <2>2
<1>10. \A i \in DOMAIN imported' : \A k \in DOMAIN imported'[i] : Settled(imported'[i][k], Db')
  BY <1>7, <1>9, SettledBy
<1>11. NoCopies
  <2> SUFFICES ASSUME Imports!Again PROVE NoCopies
    BY DEF NoCopies
  <2>1. Imports!Last(imported') = rows
    BY <1>5 DEF Imports!Last
  <2>2. PICK i \in DOMAIN imported : imported[i] = rows
    BY <2>1 DEF Imports!Again, Imports!Range
  <2>3. \A k \in DOMAIN rows : Settled(rows[k], Db)
    BY <2>2 DEF ImportsInv
  <2>4. /\ new.customers = customers
        /\ \A j \in DOMAIN new.diary \ DOMAIN diary :
              \E k \in DOMAIN rows : /\ rows[k].slot = new.diary[j].slot
                                     /\ None \notin {rows[k].customer.phone, rows[k].customer.email}
    BY <1>1, <1>2, <1>3, <2>3, RunAgain DEF new
  <2> QED
    BY <1>1, <2>1, <2>4 DEF NoCopies, Imports!Range
<1> QED
  BY <1>6, <1>8, <1>10, <1>11 DEF ImportsInv

LEMMA ImportServicesOK ==
    ASSUME ImportsInv, NEW n \in 1..2, NEW names \in [1..n -> Services], Imports!ImportServices(names)
    PROVE  ImportsInv' /\ NoCopies
<1>1. UNCHANGED <<customers, diary, imported>> /\ services' \subseteq Services
  BY DEF Imports!ImportServices, ImportsInv, Imports!TypeOK
<1>2. Imports!TypeOK'
  BY <1>1 DEF ImportsInv, Imports!TypeOK, Imports!Customer, Imports!Appointment
<1>3. Db' = Db
  BY <1>1 DEF Db
<1>4. Book' = Book
  BY DEF Book, Imports!Customer, Imports!Appointment
<1>5. Whole(Db)'
  BY <1>3, <1>4 DEF ImportsInv, Whole
<1>6. \A i \in DOMAIN imported' : \A k \in DOMAIN imported'[i] : Settled(imported'[i][k], Db')
  BY <1>1, <1>3 DEF ImportsInv
<1>7. ~Imports!Again
  BY <1>1 DEF Imports!Again, ImportsInv, Imports!TypeOK
<1> QED
  BY <1>2, <1>5, <1>6, <1>7 DEF ImportsInv, NoCopies

LEMMA ImportsStepOK ==
    ASSUME ImportsInv, [Imports!Next]_(Imports!importVars)
    PROVE  ImportsInv' /\ [NoCopies]_(Imports!importVars)
<1>1. ASSUME NEW rows \in Rows, NEW ack \in BOOLEAN, Imports!ImportDiary(rows, ack)
      PROVE  ImportsInv' /\ NoCopies
  BY <1>1, ImportDiaryOK
<1>2. ASSUME NEW n \in 1..2, NEW names \in [1..n -> Services], Imports!ImportServices(names)
      PROVE  ImportsInv' /\ NoCopies
  BY <1>2, ImportServicesOK
<1>3. CASE UNCHANGED Imports!importVars
  <2>1. UNCHANGED <<services, customers, diary, imported>>
    BY <1>3 DEF Imports!importVars
  <2>2. Imports!TypeOK'
    BY <2>1 DEF ImportsInv, Imports!TypeOK, Imports!Customer, Imports!Appointment
  <2>3. Db' = Db
    BY <2>1 DEF Db
  <2>4. Book' = Book
    BY DEF Book, Imports!Customer, Imports!Appointment
  <2>5. Whole(Db)'
    BY <2>3, <2>4 DEF ImportsInv, Whole
  <2>6. \A i \in DOMAIN imported' : \A k \in DOMAIN imported'[i] : Settled(imported'[i][k], Db')
    BY <2>1, <2>3 DEF ImportsInv
  <2> QED
    BY <1>3, <2>2, <2>5, <2>6 DEF ImportsInv
<1> QED
  BY <1>1, <1>2, <1>3 DEF Imports!Next

\* NothingIsRepeated: a customer is reminded of the same instant once more than there were
\* crashes and overlaps of rounds, at most (ReminderRounds), and importing a diary again, whatever
\* was imported in between, makes no second customer, and an appointment only of a row with
\* both contacts (BulkImport). For any rounds, dates, spreadsheets and number of imports.
THEOREM NothingGetsRepeated == Spec => NothingIsRepeated
<1> DEFINE Inv == /\ focus = "reminders" => RemindersInv
                  /\ focus = "imports" => ImportsInv
<1>1. Init => Inv
  BY RemindersInitOK, ImportsInitOK DEF Init
<1>2. Inv /\ [Next]_vars => Inv' /\ [NoCopies]_(Imports!importVars)
  <2> SUFFICES ASSUME Inv, [Next]_vars PROVE Inv' /\ [NoCopies]_(Imports!importVars)
    OBVIOUS
  <2>1. CASE RemindersStep
    <3>1. /\ focus = "reminders" /\ focus' = focus /\ [Reminders!Next]_(Reminders!reminderVars)
          /\ UNCHANGED Imports!importVars
      BY <2>1 DEF RemindersStep, importVars, Imports!importVars
    <3> QED
      BY <3>1, RemindersStepOK
  <2>2. CASE ImportsStep
    <3>1. focus = "imports" /\ focus' = focus /\ [Imports!Next]_(Imports!importVars)
      BY <2>2 DEF ImportsStep
    <3> QED
      BY <3>1, ImportsStepOK
  <2>3. CASE ~RemindersStep /\ ~ImportsStep
    <3>1. focus' = focus /\ UNCHANGED reminderVars /\ UNCHANGED importVars
      BY <2>3 DEF Next, vars, shopVars, LoyaltyStep, NumbersStep, ChannelsStep, CarrierStep, TenantsStep,
                  StripeStep, SquareStep, AccessStep, ImagesStep
    <3>2. UNCHANGED Reminders!reminderVars /\ UNCHANGED Imports!importVars
      BY <3>1 DEF reminderVars, importVars, Reminders!reminderVars, Imports!importVars
    <3>3. focus = "reminders" => RemindersInv'
      BY <3>2, RemindersStepOK
    <3>4. focus = "imports" => ImportsInv'
      BY <3>2, ImportsStepOK
    <3> QED
      BY <3>1, <3>2, <3>3, <3>4
  <2> QED
    BY <2>1, <2>2, <2>3
<1>3. Inv => /\ focus = "reminders" => Reminders!TypeOK /\ Reminders!RepeatsNeedAccidents
             /\ focus = "imports" => Imports!TypeOK
  BY DEF RemindersInv, ImportsInv, Reminders!RepeatsNeedAccidents
<1>4. [NoCopies]_(Imports!importVars) =>
          [Imports!Again => /\ customers' = customers
                            /\ \A i \in DOMAIN diary' \ DOMAIN diary :
                                  \E row \in Imports!Range(Imports!Last(imported')) :
                                      /\ row.slot = diary'[i].slot
                                      /\ None \notin {row.customer.phone, row.customer.email}]_(Imports!importVars)
  BY DEF NoCopies
<1> QED
  BY <1>1, <1>2, <1>3, <1>4, PTL DEF Spec, NothingIsRepeated, Imports!RerunMakesNoCopies
=============================================================================
