----------------------------- MODULE RelayProofs -----------------------------
(***************************************************************************)
(* What TLAPS proves of the relay, for any number of troubles, credentials  *)
(* and reads: the four invariants of Relay.                                 *)
(***************************************************************************)
EXTENDS Relay, TLAPS

Registrations ==
    [pc : Rotating \cup {"idle", "looking", "found", "ending", "extending"},
     open : BOOLEAN, new : Nat, id : Nat, ok : BOOLEAN, seen : SUBSET Roles]
Claims ==
    [pc : Rotating \cup {"idle", "read"}, got : Rows, new : Nat, id : Nat,
     valid : BOOLEAN, ok : BOOLEAN, seen : SUBSET Roles]
Lookups == [pc : {"none", "read", "void"}, got : Rows]
Revocations ==
    [pc : {"none", "sent", "applied"}, device : Roles \cup {"none"}, gone : BOOLEAN]

(* A pending lookup has counted its read, and nobody can be rotating a       *)
(* credential of the session it would make: that one has a number of its own. *)
Numbered ==
    /\ session.id <= loads
    /\ lookup.pc # "none" => ~Live /\ loads > 0
    /\ \A r \in Roles : reg[r].pc \in Rotating =>
         /\ reg[r].id \in 1..loads
         /\ lookup.pc # "none" => reg[r].id < loads

LEMMA NullsTyped ==
    /\ NoRow \in Rows /\ NoCreds \in Creds
    /\ NoReg \in Registrations /\ NoClaim \in Claims /\ NoLookup \in Lookups
    /\ Created \in Creds /\ NoRevocation \in Revocations
  BY DEF NoRow, Rows, NoCreds, Creds, NoReg, Registrations, NoClaim, Claims, NoLookup, Lookups,
         Created, Roles, Rotating, NoRevocation, Revocations

(* TypeOK in terms of the sets above. *)
Types ==
    /\ row \in Rows
    /\ session \in Sessions \cup {NoSession}
    /\ lookup \in Lookups
    /\ reg \in [Roles -> Registrations]
    /\ claim \in Claims
    /\ deletion \in {"none", "sent", "applied"}
    /\ revoking \in Revocations
    /\ revoked \in SUBSET Roles
    /\ token \in Creds
    /\ ended \in BOOLEAN
    /\ late \in BOOLEAN
    /\ minted \in Creds
    /\ troubles \in 0..MaxTroubles
    /\ loads \in 0..MaxLoads

LEMMA TypesOK == TypeOK <=> Types
  BY DEF TypeOK, Types, Lookups, Registrations, Claims, Revocations

LEMMA RotatedTyped ==
  ASSUME row \in Rows, NEW r \in Roles, NEW new \in Nat
  PROVE  Rotated(r, new) \in Rows
  BY DEF Rotated, Rows, Creds

LEMMA InvalidatedTyped == lookup \in Lookups => Invalidated \in Lookups
  BY NullsTyped DEF Invalidated, Lookups, NoLookup

LEMMA MintTyped ==
  ASSUME minted \in Creds, NEW r \in Roles
  PROVE  Fresh(r) \in Nat /\ (Mint(r) => minted' \in Creds)
  BY DEF Fresh, Mint, Creds

LEMMA SessionTyped ==
  ASSUME session \in Sessions \cup {NoSession}
  PROVE  session.id \in Nat /\ (session.id # 0 => session \in Sessions)
  BY DEF Sessions, NoSession

LEMMA SeatedTyped ==
  ASSUME session \in Sessions, NEW r \in Roles, reg[r].new \in Nat, NEW paired \in BOOLEAN
  PROVE  Seated(r, paired) \in Sessions
  BY DEF Seated, Sessions, Creds

LEMMA ChecksTyped ==
  ASSUME Types, NEW r \in Roles, Checks(r)
  PROVE  /\ session' \in Sessions \cup {NoSession}
         /\ lookup' \in Lookups
         /\ reg' \in [Roles -> Registrations]
         /\ claim' \in Claims
         /\ deletion' \in {"none", "sent", "applied"}
         /\ minted' \in Creds
<1> USE NullsTyped, InvalidatedTyped DEF Types
<1>1. CASE Lapses(r) \/ TurnsAway(r)
  BY <1>1 DEF Lapses, TurnsAway, Leave
<1>2. CASE EndsRefused(r)
  <2>1. [NoReg EXCEPT !.pc = "ending"] \in Registrations
    BY DEF Registrations
  <2>2. [claim EXCEPT !.valid = FALSE] \in Claims
    BY DEF Claims
  <2> QED
    BY <1>2, <2>1, <2>2 DEF EndsRefused, DeleteStored, EndPairing
<1>3. CASE BeginsRotation(r)
  <2>1. session.id \in Nat /\ Fresh(r) \in Nat
    BY SessionTyped, MintTyped
  <2>2. [NoReg EXCEPT !.pc = "rotating", !.open = TRUE, !.new = Fresh(r), !.id = session.id]
          \in Registrations
    BY <2>1 DEF Registrations, Rotating, NoReg
  <2>3. minted' \in Creds
    BY <1>3, MintTyped DEF BeginsRotation
  <2> QED
    BY <1>3, <2>2, <2>3 DEF BeginsRotation
<1> QED BY <1>1, <1>2, <1>3 DEF Checks

LEMMA Typed == Types /\ Numbered /\ [Next]_vars => Types'
<1> SUFFICES ASSUME Types, Numbered, [Next]_vars PROVE Types'
  OBVIOUS
<1> USE NullsTyped, InvalidatedTyped DEF Types, endings
<1>0. CASE UNCHANGED vars
  BY <1>0 DEF vars
<1>1. ASSUME NEW r \in Roles, Register(r) PROVE Types'
  <2>1. CASE Live
    BY <1>1, <2>1, ChecksTyped DEF Register
  <2>2. CASE ~Live
    <3>1. [NoReg EXCEPT !.pc = "looking", !.open = TRUE] \in Registrations
      BY DEF Registrations
    <3>2. [pc |-> "read", got |-> row] \in Lookups
      BY DEF Lookups
    <3>3. loads' \in 0..MaxLoads
      BY <1>1, <2>2, RelayAssumption DEF Register
    <3> QED BY <1>1, <2>2, <3>1, <3>2, <3>3 DEF Register
  <2> QED BY <2>1, <2>2
<1>2. ASSUME NEW r \in Roles, Resume(r) PROVE Types'
  BY <1>2, ChecksTyped DEF Resume
<1>3. ASSUME NEW r \in Roles, RegisterApply(r) PROVE Types'
  <2>1. row' \in Rows
    BY <1>3, RotatedTyped DEF RegisterApply, Registrations
  <2>2. reg' \in [Roles -> Registrations]
    <3>1. row'.named \in SUBSET Roles /\ Rotates(r, token[r]) \in BOOLEAN
      BY <2>1 DEF Rows, Rotates
    <3>2. [reg[r] EXCEPT !.pc = "rotated", !.ok = Rotates(r, token[r]), !.seen = row'.named]
            \in Registrations
      BY <3>1 DEF Registrations, Rotating
    <3> QED BY <1>3, <3>2 DEF RegisterApply
  <2> QED BY <1>3, <2>1, <2>2 DEF RegisterApply
<1>4. ASSUME NEW r \in Roles, RegisterAnswer(r) PROVE Types'
  <2>1. reg[r].new \in Nat
    BY DEF Registrations
  <2>2. session' \in Sessions \cup {NoSession}
    <3>1. CASE reg[r].pc = "rotated" /\ Accepts(r)
      <4>1. session \in Sessions
        BY <3>1, SessionTyped DEF Accepts, Numbered, Rotating
      <4>2. Seated(r, Peer(r) \in session.seats) \in Sessions
        <5>1. (Peer(r) \in session.seats) \in BOOLEAN
          OBVIOUS
        <5> QED BY <2>1, <4>1, <5>1, SeatedTyped
      <4> QED BY <1>4, <3>1, <4>2 DEF RegisterAnswer
    <3> QED BY <1>4, <3>1 DEF RegisterAnswer
  <2>3. reg' \in [Roles -> Registrations]
    <3>1. [NoReg EXCEPT !.pc = "extending"] \in Registrations
      BY DEF Registrations
    <3> QED BY <1>4, <3>1 DEF RegisterAnswer, Leave
  <2>4. token' \in Creds /\ troubles' \in 0..MaxTroubles
    BY <1>4, <2>1, RelayAssumption DEF RegisterAnswer, Creds, Trouble
  <2> QED BY <1>4, <2>2, <2>3, <2>4 DEF RegisterAnswer
<1>5. ASSUME NEW r \in Roles, Extend(r) PROVE Types'
  <2>1. row' \in Rows /\ troubles' \in 0..MaxTroubles
    BY <1>5, RelayAssumption DEF Extend, Trouble, Rows
  <2> QED BY <1>5, <2>1 DEF Extend, Leave
<1>6. ASSUME NEW r \in Roles, SocketDrops(r) PROVE Types'
  <2>1. reg' \in [Roles -> Registrations]
    BY <1>6 DEF SocketDrops, Registrations
  <2> QED BY <1>6, <2>1, RelayAssumption DEF SocketDrops, Trouble
<1>7. ASSUME NEW r \in Roles, SocketCloses(r) PROVE Types'
  <2>1. session' \in Sessions \cup {NoSession}
    BY <1>7 DEF SocketCloses, Sessions, NoSession
  <2> QED BY <1>7, <2>1 DEF SocketCloses
<1>8. CASE LookupAnswer
  <2>1. session' \in Sessions \cup {NoSession}
    <3>1. lookup.got \in Rows /\ (lookup.pc # "none" => loads \in Nat \ {0})
      BY DEF Lookups, Numbered
    <3> QED BY <1>8, <3>1 DEF LookupAnswer, Rows, Sessions
  <2>2. reg' \in [Roles -> Registrations]
    <3>1. \A r \in Roles : [reg[r] EXCEPT !.pc = "found"] \in Registrations
      BY DEF Registrations
    <3> QED BY <1>8, <3>1 DEF LookupAnswer
  <2>3. troubles' \in 0..MaxTroubles
    BY <1>8, RelayAssumption DEF LookupAnswer, Trouble
  <2> QED BY <1>8, <2>1, <2>2, <2>3 DEF LookupAnswer
<1>9. CASE Claim
  <2>1. claim' \in Claims
    BY <1>9 DEF Claim, NoClaim, Claims
  <2> QED BY <1>9, <2>1 DEF Claim
<1>10. CASE ClaimBegin
  <2>1. claim' \in Claims
    BY <1>10, SessionTyped, MintTyped DEF ClaimBegin, Claims, Rotating, Roles
  <2>2. minted' \in Creds
    BY <1>10, MintTyped DEF ClaimBegin, Roles
  <2>3. troubles' \in 0..MaxTroubles
    BY <1>10, RelayAssumption DEF ClaimBegin, Trouble
  <2> QED BY <1>10, <2>1, <2>2, <2>3 DEF ClaimBegin
<1>11. CASE ClaimApply
  <2>1. claim.new \in Nat /\ "mobile" \in Roles
    BY DEF Claims, Roles
  <2>2. row' \in Rows
    BY <1>11, <2>1, RotatedTyped DEF ClaimApply
  <2>3. claim' \in Claims
    BY <1>11, <2>2 DEF ClaimApply, Rotates, Rows, Claims, Rotating
  <2> QED BY <1>11, <2>2, <2>3 DEF ClaimApply
<1>12. CASE ClaimAnswer
  <2>1. claim.new \in Nat /\ "mobile" \in Roles
    BY DEF Claims, Roles
  <2>2. session' \in Sessions \cup {NoSession}
    <3>1. CASE Live
      <4>1. session \in Sessions
        BY <3>1, SessionTyped DEF Live
      <4>2. Recovered \in Sessions
        BY <2>1, <4>1 DEF Recovered, Sessions, Creds
      <4> QED BY <1>12, <3>1, <4>2 DEF ClaimAnswer
    <3> QED BY <1>12, <3>1 DEF ClaimAnswer
  <2>3. token' \in Creds /\ troubles' \in 0..MaxTroubles
    BY <1>12, <2>1, RelayAssumption DEF ClaimAnswer, Creds, Trouble
  <2> QED BY <1>12, <2>2, <2>3 DEF ClaimAnswer
<1>13. CASE Delete \/ DeleteApply \/ DeleteAnswer \/ DeletedElsewhere
  <2>1. [claim EXCEPT !.valid = FALSE] \in Claims
    BY DEF Claims
  <2>2. troubles' \in 0..MaxTroubles
    BY <1>13, RelayAssumption
    DEF Delete, DeleteApply, DeleteAnswer, DeletedElsewhere, Trouble
  <2> QED
    BY <1>13, <2>1, <2>2
    DEF Delete, DeleteApply, DeleteAnswer, DeletedElsewhere, DeleteStored, EndPairing
<1>14. ASSUME NEW d \in Roles, Revoke(d) \/ Reinstate(d) PROVE Types'
  <2>1. reg' \in [Roles -> Registrations]
    <3>1. \A o \in BOOLEAN : [reg[d] EXCEPT !.open = o] \in Registrations
      BY DEF Registrations
    <3>2. (reg[d].open /\ reg[d].pc \notin Rotating) \in BOOLEAN
      OBVIOUS
    <3> QED BY <1>14, <3>1, <3>2 DEF Revoke, Reinstate
  <2>2. claim' \in Claims
    BY <1>14 DEF Revoke, Reinstate, Claims
  <2>3. troubles' \in 0..MaxTroubles
    BY <1>14, RelayAssumption DEF Revoke, Reinstate, Trouble
  <2> QED
    BY <1>14, <2>1, <2>2, <2>3
    DEF Revoke, Reinstate, EndNaming, EndPairing, NoRevocation, Revocations
<1>15. CASE RevokeApply \/ RevokeAnswer
  <2>1. [claim EXCEPT !.valid = FALSE] \in Claims
    BY DEF Claims
  <2>2. troubles' \in 0..MaxTroubles
    BY <1>15, RelayAssumption DEF RevokeApply, RevokeAnswer, Trouble
  <2>3. row' \in Rows
    BY <1>15 DEF RevokeApply, RevokeAnswer
  <2>4. revoking' \in Revocations
    <3>1. CASE RevokeApply
      <4>1. (revoking.device \in row.named) \in BOOLEAN
        OBVIOUS
      <4> QED BY <3>1, <4>1 DEF RevokeApply, Revocations
    <3>2. CASE RevokeAnswer
      BY <3>2 DEF RevokeAnswer
    <3> QED BY <1>15, <3>1, <3>2
  <2>5. CASE RevokeApply
    BY <2>2, <2>3, <2>4, <2>5 DEF RevokeApply
  <2>6. CASE RevokeAnswer
    BY <2>1, <2>2, <2>4, <2>6 DEF RevokeAnswer, EndPairing
  <2> QED BY <1>15, <2>5, <2>6
<1>16. CASE Timers \/ Restart
  <2>1. troubles' \in 0..MaxTroubles
    BY <1>16, RelayAssumption DEF Timers, Sweep, Cleanup, ExpiryPasses, Restart, Trouble
  <2>2. CASE Timers
    BY <2>1, <2>2 DEF Timers, Sweep, Cleanup, ExpiryPasses, EndPairing
  <2>3. CASE Restart
    BY <2>1, <2>3 DEF Restart, EndPairing
  <2> QED BY <1>16, <2>2, <2>3
<1> QED
  BY <1>0, <1>1, <1>2, <1>3, <1>4, <1>5, <1>6, <1>7, <1>8, <1>9, <1>10, <1>11, <1>12, <1>13,
     <1>14, <1>15, <1>16 DEF Next, Registration, Recovery, Deletions, Revocation

----------------------------------------------------------------------------
LEMMA Invalidates ==
  /\ Invalidated.pc = "none" <=> lookup.pc = "none"
  /\ Invalidated.pc # "read"
  BY DEF Invalidated, NoLookup

(* What the checks of a registration do to the state the invariants are about. *)
LEMMA ChecksShape ==
  ASSUME Types, NEW r \in Roles, Checks(r)
  PROVE  /\ session' \in {session, NoSession}
         /\ lookup'.pc = "none" <=> lookup.pc = "none"
         /\ lookup' = lookup \/ lookup'.pc # "read"
         /\ \A p \in Roles \ {r} : reg'[p] = reg[p]
         /\ reg'[r].pc \in Rotating =>
              /\ Live /\ session' = session /\ reg'[r].pc = "rotating"
              /\ reg'[r].id = session.id
              /\ session.named \cap revoked = {}
              /\ r \notin session.seats
         /\ \/ deletion' = deletion
            \/ deletion' = "sent" /\ session' = NoSession /\ lookup'.pc # "read"
         /\ claim'.pc = claim.pc /\ claim'.ok = claim.ok /\ claim'.seen = claim.seen
<1> USE Invalidates DEF Types
<1>1. CASE Lapses(r)
  BY <1>1 DEF Lapses, Leave, NoReg, Rotating
<1>2. CASE TurnsAway(r)
  BY <1>2 DEF TurnsAway, Leave, NoReg, Rotating
<1>3. CASE EndsRefused(r)
  BY <1>3 DEF EndsRefused, DeleteStored, EndPairing, NoReg, Rotating, Claims
<1>4. CASE BeginsRotation(r)
  BY <1>4 DEF BeginsRotation, Refused, NoReg, Rotating
<1> QED BY <1>1, <1>2, <1>3, <1>4 DEF Checks

LEMMA SeatedShape ==
  ASSUME session \in Sessions, NEW r \in Roles, NEW paired
  PROVE  /\ Seated(r, paired).id = session.id
         /\ Seated(r, paired).named = session.named
         /\ Seated(r, paired).seats = session.seats \cup {r}
         /\ Seated(r, paired).cred[r] = reg[r].new
         /\ \A q \in Roles \ {r} : Seated(r, paired).cred[q] = session.cred[q]
  BY DEF Sessions, Creds, Seated

(* What each step of a registration and of a recovery leaves of the session  *)
(* and of the other registrations.                                           *)
LEMMA AnswerShape ==
  ASSUME Types, Numbered, NEW r \in Roles, RegisterAnswer(r)
  PROVE  /\ session'.id = session.id
         /\ session'.named = session.named
         /\ \/ session' = session
            \/ /\ reg[r].pc = "rotated" /\ Accepts(r)
               /\ session'.seats = session.seats \cup {r}
               /\ session'.cred[r] = reg[r].new
               /\ \A q \in Roles \ {r} : session'.cred[q] = session.cred[q]
         /\ \A p \in Roles : reg'[p].pc \in Rotating => p # r /\ reg'[p] = reg[p]
         /\ reg'[r].pc # "looking"
<1>1. CASE reg[r].pc = "rotated" /\ Accepts(r) /\ session' = Seated(r, Peer(r) \in session.seats)
  <2>1. session \in Sessions
    BY <1>1, SessionTyped DEF Accepts, Numbered, Rotating, Types
  <2> QED BY <1>1, <2>1, SeatedShape DEF RegisterAnswer, Leave, NoReg, Rotating, Types
<1>2. CASE session' = session
  BY <1>2 DEF RegisterAnswer, Leave, NoReg, Rotating, Types
<1> QED BY <1>1, <1>2 DEF RegisterAnswer

LEMMA SocketShape ==
  ASSUME Types, NEW r \in Roles, Extend(r) \/ SocketDrops(r) \/ SocketCloses(r)
  PROVE  /\ \/ session' \in {session, NoSession}
            \/ /\ session'.id = session.id /\ session'.named = session.named
               /\ session'.seats \subseteq session.seats /\ session'.cred = session.cred
         /\ \A p \in Roles : reg'[p].pc \in Rotating =>
              /\ reg'[p].pc = reg[p].pc /\ reg'[p].id = reg[p].id
              /\ reg'[p].ok = reg[p].ok /\ reg'[p].new = reg[p].new
         /\ reg'["mobile"].pc # "idle" => reg["mobile"].pc # "idle"
<1>1. CASE Extend(r)
  <2>1. NoReg.pc = "idle" /\ "idle" \notin Rotating
    BY DEF NoReg, Rotating
  <2>2. reg' = [reg EXCEPT ![r] = NoReg] /\ session' = session
    BY <1>1 DEF Extend, Leave
  <2>3. \A p \in Roles : reg'[p] = IF p = r THEN NoReg ELSE reg[p]
    BY <2>2 DEF Types
  <2>4. "mobile" \in Roles
    BY DEF Roles
  <2> QED BY <2>1, <2>2, <2>3, <2>4
<1>2. CASE SocketDrops(r)
  BY <1>2 DEF SocketDrops, Types, Registrations, Roles
<1>3. CASE SocketCloses(r)
  BY <1>3 DEF SocketCloses, Types, Sessions, NoSession
<1> QED BY <1>1, <1>2, <1>3

LEMMA RecoveredShape ==
  ASSUME Types, ClaimAnswer
  PROVE  /\ session'.id = session.id
         /\ \/ session' = session
            \/ /\ claim.pc = "rotated" /\ Recovers /\ Live
               /\ session'.named = session.named \cup {"mobile"}
               /\ session'.seats = session.seats
               /\ \A q \in Roles \ {"mobile"} : session'.cred[q] = session.cred[q]
<1>1. CASE Live
  <2>1. session \in Sessions
    BY <1>1, SessionTyped DEF Live, Types
  <2>2. /\ Recovered.id = session.id
        /\ Recovered.named = session.named \cup {"mobile"}
        /\ Recovered.seats = session.seats
        /\ \A q \in Roles \ {"mobile"} : Recovered.cred[q] = session.cred[q]
    BY <2>1 DEF Recovered, Sessions, Creds, Roles
  <2> QED BY <1>1, <2>2 DEF ClaimAnswer
<1>2. CASE ~Live
  BY <1>2 DEF ClaimAnswer
<1> QED BY <1>1, <1>2

LEMMA LookupShape ==
  ASSUME Types, LookupAnswer
  PROVE  /\ lookup.pc # "none" /\ lookup'.pc = "none" /\ loads' = loads
         /\ \/ session' = session
            \/ Loads /\ session'.id = loads /\ session'.seats = {}
         /\ \A p \in Roles : reg'[p].pc \in Rotating => reg'[p] = reg[p]
         /\ reg'["mobile"].pc # "idle" => reg["mobile"].pc # "idle"
<1>1. \A p \in Roles : [reg[p] EXCEPT !.pc = "found"].pc = "found"
  BY DEF Types, Registrations
<1>2. \A p \in Roles : reg'[p].pc \in Rotating => reg'[p] = reg[p]
  <2>1. NoReg.pc \notin Rotating /\ "found" \notin Rotating
    BY DEF NoReg, Rotating
  <2>2. \A p \in Roles : reg'[p] \in {reg[p], NoReg, [reg[p] EXCEPT !.pc = "found"]}
    BY DEF LookupAnswer
  <2> QED BY <1>1, <2>1, <2>2
<1>3. reg'["mobile"].pc # "idle" => reg["mobile"].pc # "idle"
  BY <1>1 DEF LookupAnswer, NoReg, Roles
<1> QED BY <1>2, <1>3 DEF LookupAnswer, NoLookup

LEMMA AsksShape ==
  ASSUME Types, NEW r \in Roles, Register(r), ~Live
  PROVE  /\ session' = session
         /\ \A p \in Roles : reg'[p].pc \in Rotating => reg'[p] = reg[p]
         /\ \A p \in Roles \ {r} : reg'[p] = reg[p]
<1>1. reg' = [reg EXCEPT ![r] = [NoReg EXCEPT !.pc = "looking", !.open = TRUE]]
  BY DEF Register
<1>2. [NoReg EXCEPT !.pc = "looking", !.open = TRUE].pc = "looking"
  BY DEF NoReg
<1> QED BY <1>1, <1>2 DEF Register, Types, Rotating

LEMMA NumberedKept == Types /\ Numbered /\ [Next]_vars => Numbered'
<1> SUFFICES ASSUME Types, Numbered, [Next]_vars PROVE Numbered'
  OBVIOUS
<1>a. NoSession.id = 0 /\ session.id \in Nat /\ loads \in Nat
  BY SessionTyped DEF Types, NoSession
<1>b. NoReg.pc \notin Rotating /\ NoLookup.pc = "none"
  BY DEF NoReg, Rotating, NoLookup
<1> USE <1>a, <1>b, Invalidates DEF Numbered, Live, endings
<1>0. CASE UNCHANGED vars
  BY <1>0 DEF vars
<1>1. ASSUME NEW r \in Roles, Register(r) PROVE Numbered'
  <2>1. CASE Live
    BY <1>1, <2>1, ChecksShape DEF Register
  <2>2. CASE ~Live
    <3>1. loads' >= loads /\ loads' \in Nat
      BY <1>1, <2>2 DEF Register
    <3>2. lookup'.pc # "none" /\ (lookup.pc = "none" => loads' = loads + 1)
          /\ (lookup.pc # "none" => loads' = loads)
      BY <1>1, <2>2 DEF Register
    <3> QED BY <1>1, <2>2, <3>1, <3>2, AsksShape
  <2> QED BY <2>1, <2>2
<1>2. ASSUME NEW r \in Roles, Resume(r) PROVE Numbered'
  BY <1>2, ChecksShape DEF Resume
<1>3. ASSUME NEW r \in Roles, RegisterApply(r) PROVE Numbered'
  BY <1>3 DEF RegisterApply, Rotating, Types, Registrations
<1>4. ASSUME NEW r \in Roles, RegisterAnswer(r) PROVE Numbered'
  BY <1>4, AnswerShape DEF RegisterAnswer
<1>5. ASSUME NEW r \in Roles, Extend(r) \/ SocketDrops(r) \/ SocketCloses(r) PROVE Numbered'
  BY <1>5, SocketShape DEF Extend, SocketDrops, SocketCloses
<1>6. CASE LookupAnswer
  BY <1>6, LookupShape
<1>7. CASE Claim \/ ClaimBegin \/ ClaimApply \/ ClaimAnswer
  <2>1. session'.id = session.id
    BY <1>7, RecoveredShape DEF Claim, ClaimBegin, ClaimApply
  <2>2. reg' = reg /\ loads' = loads /\ (lookup'.pc = "none" <=> lookup.pc = "none")
    BY <1>7 DEF Claim, ClaimBegin, ClaimApply, ClaimAnswer
  <2> QED BY <2>1, <2>2
<1>8. CASE Delete \/ DeleteApply \/ DeleteAnswer \/ DeletedElsewhere
  BY <1>8 DEF Delete, DeleteApply, DeleteAnswer, DeletedElsewhere, DeleteStored, EndPairing
<1>9. ASSUME NEW d \in Roles, Revoke(d) \/ Reinstate(d) PROVE Numbered'
  BY <1>9 DEF Revoke, Reinstate, EndNaming, EndPairing, Types, Registrations
<1>10. CASE RevokeApply \/ RevokeAnswer
  BY <1>10 DEF RevokeApply, RevokeAnswer, EndPairing
<1>11. CASE Timers \/ Restart
  BY <1>11 DEF Timers, Sweep, Cleanup, ExpiryPasses, Restart, EndPairing
<1> QED
  BY <1>0, <1>1, <1>2, <1>3, <1>4, <1>5, <1>6, <1>7, <1>8, <1>9, <1>10, <1>11
  DEF Next, Registration, Recovery, Deletions, Revocation

----------------------------------------------------------------------------
(* While a deletion is under way there is no session and no lookup that could *)
(* make one; once it has taken effect there is no row; and what was answered  *)
(* leaves nothing behind that still believes in the row.                      *)
Ending ==
    /\ deletion # "none" => ~Live /\ lookup.pc # "read"
    /\ deletion = "applied" => ~row.stored
    /\ revoking.gone => ~row.stored
    /\ ended => /\ ~row.stored /\ ~Live
                /\ lookup.pc = "read" => ~lookup.got.stored

LEMMA EndingKept == Types /\ Numbered /\ Ending /\ [Next]_vars => Ending'
<1> SUFFICES ASSUME Types, Numbered, Ending, [Next]_vars PROVE Ending'
  OBVIOUS
<1>a. NoSession.id = 0 /\ ~NoRow.stored /\ NoLookup.pc = "none" /\ ~NoRevocation.gone
  BY DEF NoSession, NoRow, NoLookup, NoRevocation
<1>b. \A n : \A r \in Roles : Rotated(r, n).stored = row.stored
  BY DEF Rotated, Types, Rows
<1> USE <1>a, <1>b, Invalidates DEF Ending, Live, endings
<1>0. CASE UNCHANGED vars
  BY <1>0 DEF vars
<1>1. ASSUME NEW r \in Roles, Register(r) PROVE Ending'
  <2>1. CASE Live
    BY <1>1, <2>1, ChecksShape DEF Register
  <2>2. CASE ~Live
    BY <1>1, <2>2 DEF Register
  <2> QED BY <2>1, <2>2
<1>2. ASSUME NEW r \in Roles, Resume(r) PROVE Ending'
  BY <1>2, ChecksShape DEF Resume
<1>3. ASSUME NEW r \in Roles, RegisterApply(r) PROVE Ending'
  BY <1>3 DEF RegisterApply
<1>4. ASSUME NEW r \in Roles, RegisterAnswer(r) PROVE Ending'
  BY <1>4, AnswerShape DEF RegisterAnswer
<1>5. ASSUME NEW r \in Roles, Extend(r) \/ SocketDrops(r) \/ SocketCloses(r) PROVE Ending'
  <2>1. session'.id \in {0, session.id}
    BY <1>5, SocketShape
  <2>2. row'.stored = row.stored
    BY <1>5 DEF Extend, SocketDrops, SocketCloses, Types, Rows
  <2> QED BY <1>5, <2>1, <2>2 DEF Extend, SocketDrops, SocketCloses
<1>6. CASE LookupAnswer
  BY <1>6 DEF LookupAnswer, Loads
<1>7. CASE Claim \/ ClaimBegin \/ ClaimApply \/ ClaimAnswer
  <2>1. session'.id = session.id
    BY <1>7, RecoveredShape DEF Claim, ClaimBegin, ClaimApply
  <2>2. row'.stored = row.stored
    BY <1>7 DEF Claim, ClaimBegin, ClaimApply, ClaimAnswer, Roles
  <2> QED BY <1>7, <2>1, <2>2 DEF Claim, ClaimBegin, ClaimApply, ClaimAnswer
<1>8. CASE Delete \/ DeleteApply \/ DeleteAnswer \/ DeletedElsewhere
  BY <1>8 DEF Delete, DeleteApply, DeleteAnswer, DeletedElsewhere, DeleteStored, EndPairing
<1>9. ASSUME NEW d \in Roles, Revoke(d) \/ Reinstate(d) PROVE Ending'
  <2>1. revoking'.gone => revoking.gone
    BY <1>9 DEF Revoke, Reinstate, NoRevocation
  <2> QED BY <1>9, <2>1 DEF Revoke, Reinstate, EndNaming, EndPairing
<1>10. CASE RevokeApply
  <2>1. revoking'.gone = (revoking.device \in row.named)
    BY <1>10 DEF RevokeApply, Types, Revocations
  <2>2. row'.stored => row' = row /\ ~revoking'.gone
    BY <1>10, <2>1 DEF RevokeApply
  <2>3. revoking'.gone => ~row'.stored
    BY <1>10, <2>1 DEF RevokeApply
  <2> QED BY <1>10, <2>2, <2>3 DEF RevokeApply, Types, Rows
<1>12. CASE RevokeAnswer
  BY <1>12 DEF RevokeAnswer, EndPairing
<1>11. CASE Timers \/ Restart
  BY <1>11 DEF Timers, Sweep, Cleanup, ExpiryPasses, Restart, EndPairing
<1> QED
  BY <1>0, <1>1, <1>2, <1>3, <1>4, <1>5, <1>6, <1>7, <1>8, <1>9, <1>10, <1>11, <1>12
  DEF Next, Registration, Recovery, Deletions, Revocation

----------------------------------------------------------------------------
(* A session whose rotation is under way names no refused device: had one     *)
(* been refused, the session would have ended.  What a recovery adds to the   *)
(* devices a session names is among those its answer is checked for.          *)
Refusal ==
    /\ RevokedStaysOut
    /\ claim.ok => "mobile" \in claim.seen
    /\ \A r \in Roles :
         reg[r].pc \in Rotating /\ session.id = reg[r].id => session.named \cap revoked = {}

LEMMA RotatedShape ==
  ASSUME row \in Rows, NEW r \in Roles, NEW new \in Nat
  PROVE  /\ Rotated(r, new).stored = row.stored
         /\ Rotated(r, new).named = row.named \cup {r}
         /\ Rotated(r, new).cred[r] = new
         /\ \A q \in Roles \ {r} : Rotated(r, new).cred[q] = row.cred[q]
  BY DEF Rotated, Rows, Creds

LEMMA ApplyShape ==
  ASSUME Types, NEW r \in Roles, RegisterApply(r)
  PROVE  /\ reg[r].pc = "rotating" /\ reg'[r].pc = "rotated" /\ reg'[r].id = reg[r].id
         /\ reg'[r].new = reg[r].new /\ reg'[r].ok = Rotates(r, token[r])
         /\ \A p \in Roles \ {r} : reg'[p] = reg[p]
  BY DEF RegisterApply, Types, Registrations

LEMMA RevokeShape ==
  ASSUME Types, NEW d \in Roles, Revoke(d)
  PROVE  /\ revoked' = revoked \cup {d}
         /\ IF d \in session.named THEN session' = NoSession ELSE session' = session
         /\ \A p \in Roles : /\ reg'[p].pc = reg[p].pc /\ reg'[p].id = reg[p].id
                             /\ reg'[p].ok = reg[p].ok /\ reg'[p].new = reg[p].new
         /\ claim'.pc = claim.pc /\ claim'.ok = claim.ok /\ claim'.seen = claim.seen
  BY DEF Revoke, EndNaming, EndPairing, Types, Registrations, Claims

LEMMA ClaimShape ==
  ASSUME Types, Claim \/ ClaimBegin \/ ClaimApply
  PROVE  /\ session' = session /\ reg' = reg /\ revoked' = revoked
         /\ claim'.ok => claim.ok \/ "mobile" \in claim'.seen
         /\ claim.ok /\ claim'.ok => claim'.seen = claim.seen \/ "mobile" \in claim'.seen
         /\ claim'.pc \in Rotating /\ claim.pc \notin Rotating => MayClaim
<1>1. CASE Claim
  BY <1>1 DEF Claim, NoClaim, Rotating, endings
<1>2. CASE ClaimBegin
  <2>1. NoClaim.pc \notin Rotating /\ ~NoClaim.ok
    BY DEF NoClaim, Rotating
  <2>2. claim' = NoClaim \/ (MayClaim /\ claim'.ok = claim.ok /\ claim'.seen = claim.seen)
    BY <1>2 DEF ClaimBegin, Types, Claims
  <2>3. session' = session /\ reg' = reg /\ revoked' = revoked
    BY <1>2 DEF ClaimBegin, endings
  <2> QED BY <2>1, <2>2, <2>3
<1>3. CASE ClaimApply
  <2>1. claim.new \in Nat /\ "mobile" \in Roles
    BY DEF Types, Claims, Roles
  <2>2. claim'.ok = Rotates("mobile", claim.got.cred["mobile"]) /\ claim'.seen = row'.named
    BY <1>3 DEF ClaimApply, Types, Claims
  <2>3. claim'.ok => "mobile" \in claim'.seen
    BY <1>3, <2>1, <2>2, RotatedShape DEF ClaimApply, Types
  <2> QED BY <1>3, <2>3 DEF ClaimApply, endings, Rotating
<1> QED BY <1>1, <1>2, <1>3

LEMMA EndsShape ==
  ASSUME Types, Delete \/ DeleteApply \/ DeleteAnswer \/ DeletedElsewhere \/ RevokeApply
                \/ RevokeAnswer \/ Timers
  PROVE  /\ session' \in {session, NoSession} /\ revoked' = revoked
         /\ claim'.pc = claim.pc /\ claim'.ok = claim.ok /\ claim'.seen = claim.seen
         /\ \A p \in Roles : reg'[p].pc \in Rotating => reg'[p] = reg[p]
         /\ reg'["mobile"].pc # "idle" => reg["mobile"].pc # "idle"
         /\ row' \in {row, NoRow}
<1>1. CASE Delete
  BY <1>1 DEF Delete, DeleteStored, EndPairing, Types, Claims
<1>2. CASE DeleteAnswer
  BY <1>2 DEF DeleteAnswer, NoReg, Rotating, Roles
<1>3. CASE DeleteApply \/ DeletedElsewhere \/ RevokeApply
  BY <1>3 DEF DeleteApply, DeletedElsewhere, RevokeApply, endings
<1>4. CASE RevokeAnswer
  BY <1>4 DEF RevokeAnswer, EndPairing, Types, Claims
<1>5. CASE Timers
  BY <1>5 DEF Timers, Sweep, Cleanup, ExpiryPasses, EndPairing, endings
<1> QED BY <1>1, <1>2, <1>3, <1>4, <1>5

LEMMA RefusalKept == Types /\ Numbered /\ Refusal /\ [Next]_vars => Refusal'
<1> SUFFICES ASSUME Types, Numbered, Refusal, [Next]_vars PROVE Refusal'
  OBVIOUS
<1>a. NoSession.id = 0 /\ NoSession.seats = {} /\ NoSession.named = {}
  BY DEF NoSession
<1>b. NoReg.pc \notin Rotating /\ ~NoClaim.ok /\ "rotated" \in Rotating /\ "rotating" \in Rotating
  BY DEF NoReg, NoClaim, Rotating
<1>c. session.id \in Nat /\ loads \in Nat
  BY SessionTyped DEF Types
<1> USE <1>a, <1>b, <1>c DEF Refusal, RevokedStaysOut, endings
<1>0. CASE UNCHANGED vars
  BY <1>0 DEF vars
<1>1. ASSUME NEW r \in Roles, Register(r) PROVE Refusal'
  <2>1. CASE Live
    BY <1>1, <2>1, ChecksShape DEF Register
  <2>2. CASE ~Live
    BY <1>1, <2>2, AsksShape DEF Register
  <2> QED BY <2>1, <2>2
<1>2. ASSUME NEW r \in Roles, Resume(r) PROVE Refusal'
  BY <1>2, ChecksShape DEF Resume
<1>3. ASSUME NEW r \in Roles, RegisterApply(r) PROVE Refusal'
  <2>1. session' = session /\ claim' = claim /\ revoked' = revoked
    BY <1>3 DEF RegisterApply
  <2> QED BY <1>3, <2>1, ApplyShape
<1>4. ASSUME NEW r \in Roles, RegisterAnswer(r) PROVE Refusal'
  BY <1>4, AnswerShape DEF RegisterAnswer, Accepts
<1>5. ASSUME NEW r \in Roles, Extend(r) \/ SocketDrops(r) \/ SocketCloses(r) PROVE Refusal'
  <2>1. revoked' = revoked /\ claim' = claim
    BY <1>5 DEF Extend, SocketDrops, SocketCloses
  <2> QED BY <1>5, <2>1, SocketShape DEF Numbered
<1>6. CASE LookupAnswer
  <2>1. revoked' = revoked /\ claim' = claim
    BY <1>6 DEF LookupAnswer
  <2> QED BY <1>6, <2>1, LookupShape DEF Numbered
<1>7. CASE Claim \/ ClaimBegin \/ ClaimApply
  BY <1>7, ClaimShape
<1>8. CASE ClaimAnswer
  <2>1. revoked' = revoked /\ reg' = reg /\ ~claim'.ok
    BY <1>8 DEF ClaimAnswer
  <2> QED BY <1>8, <2>1, RecoveredShape DEF Recovers
<1>9. CASE Delete \/ DeleteApply \/ DeleteAnswer \/ DeletedElsewhere \/ RevokeApply
           \/ RevokeAnswer \/ Timers
  BY <1>9, EndsShape DEF Numbered
<1>10. ASSUME NEW d \in Roles, Revoke(d) PROVE Refusal'
  BY <1>10, RevokeShape DEF Numbered
<1>11. ASSUME NEW d \in Roles, Reinstate(d) PROVE Refusal'
  BY <1>11 DEF Reinstate
<1>12. CASE Restart
  BY <1>12 DEF Restart, EndPairing
<1> QED
  BY <1>0, <1>1, <1>2, <1>3, <1>4, <1>5, <1>6, <1>7, <1>8, <1>9, <1>10, <1>11, <1>12
  DEF Next, Registration, Recovery, Deletions, Revocation

----------------------------------------------------------------------------
(* One rotation of a role at a time, and none of a role that is connected:    *)
(* what the row holds for a connected role is what its client was let in with. *)
Turns ==
    /\ SeatMatchesRow
    /\ claim.pc \in Rotating => reg["mobile"].pc = "idle" /\ "mobile" \notin session.seats
    /\ \A r \in Roles : reg[r].pc \in Rotating => r \notin session.seats
    /\ \A r \in Roles :
         reg[r].pc = "rotated" /\ reg[r].ok /\ row.stored => row.cred[r] = reg[r].new

LEMMA TurnsKept == Types /\ Numbered /\ Turns /\ [Next]_vars => Turns'
<1> SUFFICES ASSUME Types, Numbered, Turns, [Next]_vars PROVE Turns'
  OBVIOUS
<1>a. NoSession.seats = {} /\ ~NoRow.stored
  BY DEF NoSession, NoRow
<1>b. /\ NoReg.pc = "idle" /\ "idle" \notin Rotating /\ NoClaim.pc \notin Rotating
      /\ "rotated" \in Rotating /\ "rotating" \in Rotating /\ "found" \notin Rotating
  BY DEF NoReg, NoClaim, Rotating
<1>c. "mobile" \in Roles /\ session.seats \in SUBSET Roles
  BY DEF Roles, Types, Sessions, NoSession
<1> USE <1>a, <1>b, <1>c DEF Turns, SeatMatchesRow, endings
<1>0. CASE UNCHANGED vars
  BY <1>0 DEF vars
<1>1. ASSUME NEW r \in Roles, Register(r) PROVE Turns'
  <2>1. row' = row /\ (r = "mobile" => claim.pc \notin Rotating)
    BY <1>1 DEF Register, Admitted
  <2>2. CASE Live
    BY <1>1, <2>1, <2>2, ChecksShape DEF Register
  <2>3. CASE ~Live
    BY <1>1, <2>1, <2>3, AsksShape DEF Register
  <2> QED BY <2>2, <2>3
<1>2. ASSUME NEW r \in Roles, Resume(r) PROVE Turns'
  <2>1. row' = row /\ (r = "mobile" => claim.pc \notin Rotating)
    BY <1>2 DEF Resume
  <2> QED BY <1>2, <2>1, ChecksShape DEF Resume
<1>3. ASSUME NEW r \in Roles, RegisterApply(r) PROVE Turns'
  <2>1. reg[r].new \in Nat /\ row \in Rows
    BY DEF Types, Registrations
  <2>2. row' = IF Rotates(r, token[r]) THEN Rotated(r, reg[r].new) ELSE row
    BY <1>3 DEF RegisterApply
  <2>3. session' = session /\ claim' = claim
    BY <1>3 DEF RegisterApply
  <2> QED BY <1>3, <2>1, <2>2, <2>3, ApplyShape, RotatedShape
<1>4. ASSUME NEW r \in Roles, RegisterAnswer(r) PROVE Turns'
  <2>1. row' = row /\ claim' = claim
    BY <1>4 DEF RegisterAnswer
  <2>2. r = "mobile" => claim.pc \notin Rotating
    BY <1>4 DEF RegisterAnswer
  <2>3. reg'["mobile"].pc = "idle" \/ r = "mobile" \/ reg'["mobile"] = reg["mobile"]
    BY <1>4 DEF RegisterAnswer, Leave, Types
  <2> QED BY <1>4, <2>1, <2>2, <2>3, AnswerShape DEF Accepts
<1>5. ASSUME NEW r \in Roles, Extend(r) \/ SocketDrops(r) \/ SocketCloses(r) PROVE Turns'
  <2>1. claim' = claim /\ row'.stored = row.stored /\ row'.cred = row.cred
    BY <1>5 DEF Extend, SocketDrops, SocketCloses, Types, Rows
  <2> QED BY <1>5, <2>1, SocketShape
<1>6. CASE LookupAnswer
  <2>1. row' = row /\ claim' = claim
    BY <1>6 DEF LookupAnswer
  <2> QED BY <1>6, <2>1, LookupShape
<1>7. CASE Claim \/ ClaimBegin
  <2>1. row' = row
    BY <1>7 DEF Claim, ClaimBegin
  <2> QED BY <1>7, <2>1, ClaimShape DEF MayClaim, Admitted
<1>8. CASE ClaimApply
  <2>1. claim.new \in Nat /\ row \in Rows
    BY DEF Types, Claims
  <2>2. \/ row' = Rotated("mobile", claim.new)
        \/ row' = row
    BY <1>8 DEF ClaimApply
  <2>3. claim.pc \in Rotating
    BY <1>8 DEF ClaimApply
  <2> QED BY <1>8, <2>1, <2>2, <2>3, ClaimShape, RotatedShape
<1>9. CASE ClaimAnswer
  <2>1. row' = row /\ reg' = reg /\ claim'.pc \notin Rotating /\ claim.pc \in Rotating
    BY <1>9 DEF ClaimAnswer
  <2> QED BY <1>9, <2>1, RecoveredShape
<1>10. CASE Delete \/ DeleteApply \/ DeleteAnswer \/ DeletedElsewhere \/ RevokeApply
            \/ RevokeAnswer \/ Timers
  BY <1>10, EndsShape
<1>11. ASSUME NEW d \in Roles, Revoke(d) PROVE Turns'
  <2>1. row' = row
    BY <1>11 DEF Revoke
  <2> QED BY <1>11, <2>1, RevokeShape
<1>12. ASSUME NEW d \in Roles, Reinstate(d) PROVE Turns'
  BY <1>12 DEF Reinstate
<1>13. CASE Restart
  BY <1>13 DEF Restart, EndPairing
<1> QED
  BY <1>0, <1>1, <1>2, <1>3, <1>4, <1>5, <1>6, <1>7, <1>8, <1>9, <1>10, <1>11, <1>12, <1>13
  DEF Next, Registration, Recovery, Deletions, Revocation

----------------------------------------------------------------------------
IInv == Types /\ Numbered /\ Ending /\ Refusal /\ Turns

LEMMA Initially == Init => IInv
<1> SUFFICES ASSUME Init PROVE IInv
  OBVIOUS
<1>1. Types
  <2>1. row \in Rows
    BY NullsTyped DEF Init, Rows, Roles
  <2>2. troubles \in 0..MaxTroubles /\ loads \in 0..MaxLoads
    BY RelayAssumption DEF Init
  <2> QED BY <2>1, <2>2, NullsTyped DEF Init, Types
<1>2. Numbered /\ Ending
  BY DEF Init, Numbered, Ending, Live, NoSession, NoLookup, NoReg, NoRevocation, Rotating
<1>3. Refusal /\ Turns
  BY DEF Init, Refusal, RevokedStaysOut, Turns, SeatMatchesRow, NoSession, NoClaim, NoReg,
         Rotating
<1> QED BY <1>1, <1>2, <1>3 DEF IInv

LEMMA Inductive == Spec => []IInv
<1>1. IInv /\ [Next]_vars => IInv'
  BY Typed, NumberedKept, EndingKept, RefusalKept, TurnsKept DEF IInv
<1> QED BY <1>1, Initially, PTL DEF Spec

(* Rows, sessions, lookups, registrations and recoveries keep their types.    *)
THEOREM TypeCorrect == Spec => []TypeOK
<1>1. IInv => TypeOK
  BY TypesOK DEF IInv
<1> QED BY <1>1, Inductive, PTL

(* A connected client holds the one credential the store accepts for its role. *)
THEOREM SeatCorrect == Spec => []SeatMatchesRow
<1>1. IInv => SeatMatchesRow
  BY DEF IInv, Turns
<1> QED BY <1>1, Inductive, PTL

(* Once a deletion was answered with success nothing brings a session back.   *)
THEOREM EndedCorrect == Spec => []EndedStaysEnded
<1>1. IInv => EndedStaysEnded
  BY DEF IInv, Ending, EndedStaysEnded
<1> QED BY <1>1, Inductive, PTL

(* Nobody stays connected to a pairing that names a refused device.           *)
THEOREM RevokedCorrect == Spec => []RevokedStaysOut
<1>1. IInv => RevokedStaysOut
  BY DEF IInv, Refusal
<1> QED BY <1>1, Inductive, PTL
=============================================================================
