------------------------------- MODULE Relay -------------------------------
(***************************************************************************)
(* The signalling relay (src/services/signaling-server) as far as one      *)
(* pairing goes: the row of signaling_sessions, the entry of activeSessions *)
(* the relay process keeps for it, and every handler that waits for the    *)
(* database while other handlers run.  A statement that writes is sent,    *)
(* takes effect and is answered in three steps; one that reads has no      *)
(* effect before it does, so it is answered in a second step.  Whatever is *)
(* between two awaits of a handler is one step.                            *)
(*                                                                         *)
(* A role stands for its device as well: the pairing was created by a      *)
(* desktop that named its device, and one phone, which names its own,      *)
(* claims it.  Credentials of a role are numbered; 0 is none.  Frames that  *)
(* are forwarded, and approvals queued for an absent phone, are left out:   *)
(* nothing here depends on them.                                           *)
(***************************************************************************)
EXTENDS Integers

CONSTANTS
    MaxTroubles,   \* failed statements, lost messages and connections, deletions, revocations,
                   \* restarts and the expiry, together
    MaxMinted,     \* role -> credentials made for it
    MaxLoads       \* times the process reads the row into memory

ASSUME RelayAssumption ==
    /\ {MaxTroubles, MaxLoads} \subseteq Nat
    /\ MaxMinted \in [{"desktop", "mobile"} -> Nat]

VARIABLES
    row,       \* the stored pairing
    session,   \* its entry in activeSessions, with the roles connected to it
    lookup,    \* the entry of pendingRehydrations
    reg,       \* role -> the registration in progress, its admission included
    claim,     \* the recovery in progress
    deletion,  \* the entry of pendingDeletions
    revoking,  \* the revocation request in progress
    revoked,   \* devices the connection manager refuses
    token,     \* role -> the last credential its client was given
    ended,     \* a deletion of the pairing has been answered with success
    late,      \* the expiry a pairing is created with has passed
    minted,    \* role -> the credentials made so far
    troubles,  \* the troubles so far
    loads      \* the reads into memory so far

endings == <<deletion, revoking, revoked, ended>>
vars == <<row, session, lookup, reg, claim, endings, token, late, minted, troubles, loads>>

Roles == {"desktop", "mobile"}
Creds == [Roles -> Nat]
Rows == [stored : BOOLEAN, cred : Creds, named : SUBSET Roles, long : BOOLEAN]
Sessions == [id : Nat \ {0}, cred : Creds, named : SUBSET Roles, long : BOOLEAN,
             seats : SUBSET Roles]

NoCreds == [r \in Roles |-> 0]
NoRow == [stored |-> FALSE, cred |-> NoCreds, named |-> {}, long |-> FALSE]
NoSession == [id |-> 0, cred |-> NoCreds, named |-> {}, long |-> FALSE, seats |-> {}]
NoLookup == [pc |-> "none", got |-> NoRow]
NoReg == [pc |-> "idle", open |-> FALSE, new |-> 0, id |-> 0, ok |-> FALSE, seen |-> {}]
NoClaim == [pc |-> "idle", got |-> NoRow, new |-> 0, id |-> 0, valid |-> FALSE,
            ok |-> FALSE, seen |-> {}]
NoRevocation == [pc |-> "none", device |-> "none", gone |-> FALSE]
Created == [NoCreds EXCEPT !["desktop"] = 1]

Init ==
    /\ row = [stored |-> TRUE, cred |-> Created, named |-> {"desktop"}, long |-> FALSE]
    /\ session = NoSession
    /\ lookup = NoLookup
    /\ reg = [r \in Roles |-> NoReg]
    /\ claim = NoClaim
    /\ deletion = "none"
    /\ revoking = NoRevocation
    /\ revoked = {}
    /\ token = Created
    /\ ended = FALSE
    /\ late = FALSE
    /\ minted = Created
    /\ troubles = 0
    /\ loads = 0

----------------------------------------------------------------------------
Live == session.id # 0
Peer(r) == CHOOSE p \in Roles : p # r

\* A pairing lives for minutes, or for a day once both peers have met; a day is not over.
Expired(long) == late /\ ~long

\* freshPairCredential: a credential unlike any other of the role.
Fresh(r) == minted[r] + 1
Mint(r) == minted[r] < MaxMinted[r] /\ minted' = [minted EXCEPT ![r] = @ + 1]

\* credentialAdmissions: one registration or recovery of a role at a time.
Rotating == {"rotating", "rotated"}
Admitted(r) == reg[r].pc # "idle" \/ (r = "mobile" /\ claim.pc \in Rotating)

Trouble == troubles < MaxTroubles /\ troubles' = troubles + 1

\* Mutant: a lookup under way is left alone.
InvalidatedNever == lookup

\* A lookup under way will not be believed.
Invalidated == IF lookup.pc = "none" THEN lookup ELSE [NoLookup EXCEPT !.pc = "void"]

\* endPairing: the entry is dropped and its sockets are closed.
EndPairing == session' = NoSession

\* deleteStoredPairing; every caller ends the pairing in memory as well.
DeleteStored ==
    /\ EndPairing
    /\ claim' = [claim EXCEPT !.valid = FALSE]
    /\ deletion' = IF deletion = "none" THEN "sent" ELSE deletion
    /\ lookup' = IF deletion = "none" THEN Invalidated ELSE lookup

----------------------------------------------------------------------------
(* Registration of a role over a socket.                                   *)

Leave(r) == reg' = [reg EXCEPT ![r] = NoReg]

Refused(r) ==
    \/ ~Live
    \/ token[r] # session.cred[r]
    \/ session.named \cap revoked = {} /\ r \in session.seats

\* What registerWithCredential does with the session it has, up to the rotation: an
\* expired one is dropped,
Lapses(r) ==
    /\ Live
    /\ Expired(session.long)
    /\ session' = NoSession
    /\ Leave(r)
    /\ UNCHANGED <<lookup, claim, deletion, minted>>

\* a client it does not know, or whose role is taken, is refused,
TurnsAway(r) ==
    /\ Live => ~Expired(session.long)
    /\ Refused(r)
    /\ Leave(r)
    /\ UNCHANGED <<session, lookup, claim, deletion, minted>>

\* a pairing that names a refused device is ended,
EndsRefused(r) ==
    /\ ~Expired(session.long)
    /\ ~Refused(r)
    /\ session.named \cap revoked # {}
    /\ DeleteStored
    /\ reg' = [reg EXCEPT ![r] = [NoReg EXCEPT !.pc = "ending"]]
    /\ UNCHANGED minted

\* and otherwise the rotation of the credential begins.
BeginsRotation(r) ==
    /\ ~Expired(session.long)
    /\ ~Refused(r)
    /\ session.named \cap revoked = {}
    /\ Mint(r)
    /\ reg' = [reg EXCEPT ![r] = [NoReg EXCEPT !.pc = "rotating", !.open = TRUE,
                                               !.new = Fresh(r), !.id = session.id]]
    /\ lookup' = Invalidated
    /\ UNCHANGED <<session, claim, deletion>>

Checks(r) == Lapses(r) \/ TurnsAway(r) \/ EndsRefused(r) \/ BeginsRotation(r)

\* With no session the row is read, once for all who wait, and not while it is deleted.
Register(r) ==
    /\ ~Admitted(r)
    /\ token[r] # 0
    /\ \/ /\ Live
          /\ Checks(r)
          /\ UNCHANGED loads
       \/ /\ ~Live
          /\ deletion = "none"
          /\ \/ lookup.pc # "none" /\ UNCHANGED <<lookup, loads>>
             \/ /\ lookup.pc = "none"
                /\ loads < MaxLoads
                /\ loads' = loads + 1
                /\ lookup' = [pc |-> "read", got |-> row]
          /\ reg' = [reg EXCEPT ![r] = [NoReg EXCEPT !.pc = "looking", !.open = TRUE]]
          /\ UNCHANGED <<session, claim, deletion, minted>>
    /\ UNCHANGED <<row, revoking, revoked, ended, token, late, troubles>>

\* loadSession has its answer: the waiting registrations go on, or are all refused.
Loads == /\ lookup.pc = "read"
         /\ deletion = "none"
         /\ lookup.got.stored
         /\ ~Expired(lookup.got.long)

LookupAnswer ==
    /\ lookup.pc # "none"
    /\ \/ /\ Loads
          /\ session' = [id |-> loads, cred |-> lookup.got.cred, seats |-> {},
                         named |-> lookup.got.named, long |-> lookup.got.long]
          /\ reg' = [r \in Roles |-> IF reg[r].pc # "looking" THEN reg[r]
                                     ELSE IF reg[r].open THEN [reg[r] EXCEPT !.pc = "found"]
                                     ELSE NoReg]
          /\ UNCHANGED troubles
       \/ /\ \/ ~Loads /\ UNCHANGED troubles
             \/ Trouble
          /\ reg' = [r \in Roles |-> IF reg[r].pc = "looking" THEN NoReg ELSE reg[r]]
          /\ UNCHANGED session
    /\ lookup' = NoLookup
    /\ UNCHANGED <<row, claim, endings, token, late, minted, loads>>

\* A registration that waited for the lookup goes on with what it found.
Resume(r) ==
    /\ reg[r].pc = "found"
    /\ Checks(r)
    /\ UNCHANGED <<row, revoking, revoked, ended, token, late, troubles, loads>>

\* rotatePairCredential: the row is rewritten if it still has the credential presented.
Rotates(r, previous) == row.stored /\ ~Expired(row.long) /\ row.cred[r] = previous
Rotated(r, new) == [row EXCEPT !.cred[r] = new, !.named = @ \cup {r}]

RegisterApply(r) ==
    /\ reg[r].pc = "rotating"
    /\ row' = IF Rotates(r, token[r]) THEN Rotated(r, reg[r].new) ELSE row
    /\ reg' = [reg EXCEPT ![r].pc = "rotated", ![r].ok = Rotates(r, token[r]),
                          ![r].seen = row'.named]
    /\ UNCHANGED <<session, lookup, claim, endings, token, late, minted, troubles, loads>>

\* What has to hold still after the await for the client to be let in.
Accepts(r) ==
    /\ reg[r].open
    /\ reg[r].ok
    /\ session.id = reg[r].id
    /\ deletion = "none"
    /\ ~Expired(session.long)
    /\ reg[r].seen \cap revoked = {}
    /\ r \notin session.seats

\* setParticipant, and the longer expiry once the peer is there too.
Seated(r, paired) ==
    [session EXCEPT !.cred[r] = reg[r].new, !.seats = session.seats \cup {r},
                    !.long = session.long \/ paired]

\* The `registered` message carries the new credential and may be lost with the
\* connection; with the peer present the expiry is extended, and the handler waits for it.
RegisterAnswer(r) ==
    /\ reg[r].pc \in Rotating
    /\ \/ /\ reg[r].pc = "rotated"
          /\ Accepts(r)
          /\ LET paired == Peer(r) \in session.seats
             IN  /\ session' = Seated(r, paired)
                 /\ reg' = [reg EXCEPT ![r] = IF paired
                              THEN [NoReg EXCEPT !.pc = "extending"] ELSE NoReg]
          /\ \/ token' = [token EXCEPT ![r] = reg[r].new] /\ UNCHANGED troubles
             \/ Trouble /\ UNCHANGED token
       \/ /\ \/ reg[r].pc = "rotated" /\ ~Accepts(r) /\ UNCHANGED troubles
             \/ Trouble
          /\ Leave(r)
          /\ UNCHANGED <<session, token>>
    /\ UNCHANGED <<row, lookup, claim, endings, late, minted, loads>>

\* extendSessionExpiry is stored, or fails and is only logged.
Extend(r) ==
    /\ reg[r].pc = "extending"
    /\ \/ row' = [row EXCEPT !.long = row.stored] /\ UNCHANGED troubles
       \/ Trouble /\ UNCHANGED row
    /\ Leave(r)
    /\ UNCHANGED <<session, lookup, claim, endings, token, late, minted, loads>>

\* The socket of a registration in progress closes, which the handler sees after its await.
SocketDrops(r) ==
    /\ reg[r].open
    /\ reg[r].pc # "found"
    /\ Trouble
    /\ reg' = [reg EXCEPT ![r].open = FALSE]
    /\ UNCHANGED <<row, session, lookup, claim, endings, token, late, minted, loads>>

\* The socket of a connected client closes.
SocketCloses(r) ==
    /\ r \in session.seats
    /\ session' = IF session.seats = {r} /\ Expired(session.long) THEN NoSession
                  ELSE [session EXCEPT !.seats = session.seats \ {r}]
    /\ UNCHANGED <<row, lookup, reg, claim, endings, token, late, minted, troubles, loads>>

----------------------------------------------------------------------------
(* POST /pairings/:code/claim: the phone obtains or recovers its credential. *)

Claim ==
    /\ claim.pc = "idle"
    /\ claim' = [NoClaim EXCEPT !.pc = "read", !.got = row]
    /\ UNCHANGED <<row, session, lookup, reg, endings, token, late, minted, troubles, loads>>

\* Mutant: whether the role is connected is not looked at.
MayClaimOver ==
    /\ claim.got.stored
    /\ ~Expired(claim.got.long)
    /\ ~Admitted("mobile")
    /\ (claim.got.named \cup {"mobile"}) \cap revoked = {}

\* On what it read: the role is free, and no device of the pairing is refused.
MayClaim ==
    /\ claim.got.stored
    /\ ~Expired(claim.got.long)
    /\ ~Admitted("mobile")
    /\ "mobile" \notin session.seats
    /\ (claim.got.named \cup {"mobile"}) \cap revoked = {}

ClaimBegin ==
    /\ claim.pc = "read"
    /\ \/ /\ MayClaim
          /\ Mint("mobile")
          /\ claim' = [claim EXCEPT !.pc = "rotating", !.new = Fresh("mobile"),
                                    !.id = session.id, !.valid = TRUE]
          /\ lookup' = Invalidated
          /\ UNCHANGED troubles
       \/ /\ \/ ~MayClaim /\ UNCHANGED troubles
             \/ Trouble
          /\ claim' = NoClaim
          /\ UNCHANGED <<lookup, minted>>
    /\ UNCHANGED <<row, session, reg, endings, token, late, loads>>

ClaimApply ==
    /\ claim.pc = "rotating"
    /\ LET ok == Rotates("mobile", claim.got.cred["mobile"])
       IN  /\ row' = IF ok THEN Rotated("mobile", claim.new) ELSE row
           /\ claim' = [claim EXCEPT !.pc = "rotated", !.ok = ok, !.seen = row'.named]
    /\ UNCHANGED <<session, lookup, reg, endings, token, late, minted, troubles, loads>>

\* What has to hold still after the await for the credential to be answered.
Recovers ==
    /\ claim.ok
    /\ claim.valid
    /\ deletion = "none"
    /\ ~Expired(claim.got.long)
    /\ claim.id # 0 => session.id = claim.id
    /\ "mobile" \notin session.seats
    /\ claim.seen \cap revoked = {}

\* The session, if there is one, takes the new credential and the device over.
Recovered ==
    [session EXCEPT !.cred["mobile"] = claim.new, !.named = session.named \cup {"mobile"}]

ClaimAnswer ==
    /\ claim.pc \in Rotating
    /\ \/ /\ claim.pc = "rotated"
          /\ Recovers
          /\ session' = IF Live THEN Recovered ELSE session
          /\ \/ token' = [token EXCEPT !["mobile"] = claim.new] /\ UNCHANGED troubles
             \/ Trouble /\ UNCHANGED token
       \/ /\ \/ claim.pc = "rotated" /\ ~Recovers /\ UNCHANGED troubles
             \/ Trouble
          /\ UNCHANGED <<session, token>>
    /\ claim' = NoClaim
    /\ UNCHANGED <<row, lookup, reg, endings, late, minted, loads>>

----------------------------------------------------------------------------
(* The end of a pairing: by a participant or its owner, by the revocation  *)
(* of a device, by another instance, and by age.                           *)

Delete ==
    /\ Trouble
    /\ DeleteStored
    /\ UNCHANGED <<row, reg, revoking, revoked, ended, token, late, minted, loads>>

DeleteApply ==
    /\ deletion = "sent"
    /\ row' = NoRow
    /\ deletion' = "applied"
    /\ UNCHANGED <<session, lookup, reg, claim, revoking, revoked, ended, token,
                   late, minted, troubles, loads>>

DeleteAnswer ==
    /\ deletion # "none"
    /\ \/ deletion = "applied" /\ ended' = TRUE /\ UNCHANGED troubles
       \/ Trouble /\ UNCHANGED ended
    /\ deletion' = "none"
    /\ reg' = [r \in Roles |-> IF reg[r].pc = "ending" THEN NoReg ELSE reg[r]]
    /\ UNCHANGED <<row, session, lookup, claim, revoking, revoked, token, late,
                   minted, loads>>

\* Mutant: only a pairing the device is connected to is ended.
EndConnected(d) == IF d \in session.seats THEN EndPairing ELSE UNCHANGED session

\* endPairingsNamingDevice
EndNaming(d) == IF d \in session.named THEN EndPairing ELSE UNCHANGED session

\* POST /devices/:id/revoke, up to its statement.
Revoke(d) ==
    /\ revoking.pc = "none"
    /\ Trouble
    /\ revoking' = [NoRevocation EXCEPT !.pc = "sent", !.device = d]
    /\ revoked' = revoked \cup {d}
    /\ reg' = [reg EXCEPT ![d].open = @ /\ reg[d].pc \notin Rotating]
    /\ EndNaming(d)
    /\ lookup' = Invalidated
    /\ claim' = [claim EXCEPT !.valid = @ /\ d \notin claim.got.named \cup {"mobile"}]
    /\ UNCHANGED <<row, deletion, ended, token, late, minted, loads>>

RevokeApply ==
    /\ revoking.pc = "sent"
    /\ row' = IF revoking.device \in row.named THEN NoRow ELSE row
    /\ revoking' = [revoking EXCEPT !.pc = "applied", !.gone = revoking.device \in row.named]
    /\ UNCHANGED <<session, lookup, reg, claim, deletion, revoked, ended, token,
                   late, minted, troubles, loads>>

RevokeAnswer ==
    /\ revoking.pc # "none"
    /\ \/ /\ revoking.gone
          /\ EndPairing
          /\ claim' = [claim EXCEPT !.valid = FALSE]
          /\ lookup' = Invalidated
          /\ ended' = TRUE
          /\ UNCHANGED troubles
       \/ /\ \/ revoking.pc = "applied" /\ ~revoking.gone /\ UNCHANGED troubles
             \/ Trouble
          /\ UNCHANGED <<session, claim, lookup, ended>>
    /\ revoking' = NoRevocation
    /\ UNCHANGED <<row, reg, deletion, revoked, token, late, minted, loads>>

\* POST /pairings for another pairing of the device takes its revocation back.
Reinstate(d) ==
    /\ d \in revoked
    /\ revoked' = revoked \ {d}
    /\ UNCHANGED <<row, session, lookup, reg, claim, deletion, revoking, ended,
                   token, late, minted, troubles, loads>>

DeletedElsewhere ==
    /\ row.stored
    /\ Trouble
    /\ row' = NoRow
    /\ UNCHANGED <<session, lookup, reg, claim, endings, token, late, minted, loads>>

\* endPairingsDeletedElsewhere: live pairings are looked up and the absent ended.  A row
\* that is gone stays gone, so the lookup and what follows from it are one step.
Sweep ==
    /\ Live
    /\ ~row.stored
    /\ EndPairing
    /\ UNCHANGED <<row, lookup, reg, claim, endings, token, late, minted, troubles, loads>>

\* cleanupInterval: expired, or quiet for five minutes with nobody connected.
Cleanup ==
    /\ Live
    /\ Expired(session.long) \/ session.seats = {}
    /\ EndPairing
    /\ UNCHANGED <<row, lookup, reg, claim, endings, token, late, minted, troubles, loads>>

ExpiryPasses ==
    /\ ~late
    /\ Trouble
    /\ late' = TRUE
    /\ UNCHANGED <<row, session, lookup, reg, claim, endings, token, minted, loads>>

\* The process is replaced: only the row and what the clients hold survive.
Restart ==
    /\ Trouble
    /\ EndPairing
    /\ lookup' = NoLookup
    /\ reg' = [r \in Roles |-> NoReg]
    /\ claim' = NoClaim
    /\ deletion' = "none"
    /\ revoking' = NoRevocation
    /\ revoked' = {}
    /\ UNCHANGED <<row, ended, token, late, minted, loads>>

----------------------------------------------------------------------------
Registration(r) ==
    \/ Register(r) \/ Resume(r) \/ RegisterApply(r) \/ RegisterAnswer(r)
    \/ Extend(r) \/ SocketDrops(r) \/ SocketCloses(r)

Recovery == Claim \/ ClaimBegin \/ ClaimApply \/ ClaimAnswer

Deletions == Delete \/ DeleteApply \/ DeleteAnswer \/ DeletedElsewhere

Revocation ==
    \/ \E d \in Roles : Revoke(d) \/ Reinstate(d)
    \/ RevokeApply \/ RevokeAnswer

Timers == Sweep \/ Cleanup \/ ExpiryPasses

Next ==
    \/ \E r \in Roles : Registration(r)
    \/ LookupAnswer
    \/ Recovery
    \/ Deletions
    \/ Revocation
    \/ Timers
    \/ Restart

Spec == Init /\ [][Next]_vars

----------------------------------------------------------------------------
(* Properties                                                              *)

\* The types of the variables.
TypeOK ==
    /\ row \in Rows
    /\ session \in Sessions \cup {NoSession}
    /\ lookup \in [pc : {"none", "read", "void"}, got : Rows]
    /\ reg \in [Roles -> [pc : Rotating \cup {"idle", "looking", "found", "ending", "extending"},
                          open : BOOLEAN, new : Nat, id : Nat, ok : BOOLEAN,
                          seen : SUBSET Roles]]
    /\ claim \in [pc : Rotating \cup {"idle", "read"}, got : Rows, new : Nat, id : Nat,
                  valid : BOOLEAN, ok : BOOLEAN, seen : SUBSET Roles]
    /\ deletion \in {"none", "sent", "applied"}
    /\ revoking \in [pc : {"none", "sent", "applied"}, device : Roles \cup {"none"},
                     gone : BOOLEAN]
    /\ revoked \subseteq Roles
    /\ token \in Creds
    /\ ended \in BOOLEAN
    /\ late \in BOOLEAN
    /\ minted \in Creds
    /\ troubles \in 0..MaxTroubles
    /\ loads \in 0..MaxLoads

\* A client that is connected holds the one credential the store accepts for its role: no
\* recovery and no second registration has taken its place while it was connected, through
\* whatever awaits, lost answers and stale reads.
SeatMatchesRow ==
    \A r \in session.seats : row.stored => row.cred[r] = session.cred[r]

\* Once a deletion was answered with success the process has no session of the pairing,
\* and no lookup or registration that was under way brings one back.
EndedStaysEnded == ended => ~Live

\* Nobody is connected to a pairing that names a device the relay refuses, in whatever
\* order the revocation meets the awaits of a registration or a recovery.
RevokedStaysOut == session.named \cap revoked # {} => session.seats = {}

\* No client is given a credential of a pairing whose deletion has been answered.
\* Refuted: a recovery that begins while the deletion is under way is not invalidated.
NoCredentialAfterTheEnd == [][ended => token' = token]_vars

Settled(r) == reg[r].pc \notin Rotating /\ (r = "mobile" => claim.pc \notin Rotating)

\* What a client holds is what the store accepts, but for the time of a rotation.
\* Refuted: a rotation that was stored and not answered leaves the old one with the client.
ClientsCanReturn == \A r \in Roles : row.stored /\ Settled(r) => token[r] = row.cred[r]

\* What the process accepts is what the store accepts, but for the time of a rotation.
\* Refuted: a lookup that reads before a rotation and is answered after it is believed.
MemoryFollowsRow ==
    \A r \in Roles : row.stored /\ Live /\ Settled(r) => session.cred[r] = row.cred[r]
=============================================================================
