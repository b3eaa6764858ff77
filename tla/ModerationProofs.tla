--------------------------- MODULE ModerationProofs ---------------------------
(***************************************************************************)
(* No session survives a ban, no request acts twice, and strikes lead to   *)
(* what the policy asks for: for any staff, cases, sanctions, keys and     *)
(* policies.  Sessions and keys need an invariant each: no token and no    *)
(* login is ahead of session_version, and whatever was issued for a key    *)
(* has that key recorded.                                                  *)
(***************************************************************************)
EXTENDS Moderation, TLAPS

SanctionTypes ==
    /\ sanctions \in [SanctionIds -> Sanction \cup {None}]
    /\ keys \in [Requests -> BOOLEAN]

SessionTypes ==
    /\ version \in Nat
    /\ tokens \subseteq Nat
    /\ login \in [step : {"idle", "read", "allowed"}, version : Nat]

NoneAhead == login.version <= version /\ \A t \in tokens : t <= version

KeysRecorded == \A i \in Issued : sanctions[i].key # None => keys[sanctions[i].key]

AppealsIssued == appeals \subseteq Issued

IInv ==
    /\ SanctionTypes
    /\ SessionTypes
    /\ AppealsIssued
    /\ NoneAhead
    /\ NoSessionUnderBan
    /\ KeysRecorded
    /\ OncePerKey

-----------------------------------------------------------------------------
(* What the statements do to the table of sanctions *)

LEMMA RowIsSanction ==
    ASSUME NEW type \in SanctionType, NEW key \in Requests \cup {None}
    PROVE  /\ Row(type, key) \in Sanction /\ Row(type, key) # None
           /\ Row(type, key).type = type /\ Row(type, key).key = key
           /\ Row(type, key).state = "active"
           /\ ~Row(type, key).lapsed /\ ~Row(type, key).faded
<1>1. Row(type, key) \in Sanction
  BY DEF Row, Sanction
<1>2. ~Row(type, key).lapsed /\ ~Row(type, key).faded
  BY DEF Row
<1>3. /\ Row(type, key).type = type /\ Row(type, key).key = key
      /\ Row(type, key).state = "active"
  BY DEF Row
<1> QED BY <1>1, <1>2, <1>3, RowAssumption

(* An issued sanction is a new row, and a strike may bring the one that    *)
(* the policy calls for; every other row stays.                            *)
Issues(i, more, type, key) ==
    /\ sanctions' \in [SanctionIds -> Sanction \cup {None}]
    /\ sanctions'[i] = Row(type, key)
    /\ more \in {None, "temporary_ban", "posting_restriction"}
    /\ \A j \in SanctionIds \ {i} :
          \/ sanctions'[j] = sanctions[j]
          \/ j \in Free /\ more # None /\ sanctions'[j] = Row(more, None)
    /\ more # None => \E j \in Free \ {i} : sanctions'[j] = Row(more, None)
    /\ more = IF type = "strike" THEN CalledFor([sanctions EXCEPT ![i] = Row(type, key)])
                                 ELSE None
    /\ version' = IF type \in Bans \/ more = "temporary_ban" THEN version + 1 ELSE version

LEMMA Issuing ==
    ASSUME SanctionTypes, NEW m \in Staff, NEW k \in Keys, NEW c \in CaseIds,
           NEW type \in IssuedTypes, IssueSanction(m, k, c, type)
    PROVE  \E i \in Free : \E more : Issues(i, more, type, <<m, k>>)
<1> DEFINE key == <<m, k>>
<1>1. key \in Requests
  BY DEF Requests
<1>2. type \in SanctionType /\ "temporary_ban" \in SanctionType
      /\ "posting_restriction" \in SanctionType
  BY ModerationAssumption DEF SanctionType, Bans
<1>3. PICK i \in Lowest(Free) :
          LET given == [sanctions EXCEPT ![i] = Row(type, key)]
              more == IF type = "strike" THEN CalledFor(given) ELSE None
              bump == type \in Bans \/ more = "temporary_ban"
          IN /\ IF more = None THEN sanctions' = given
                ELSE \E j \in Lowest(Free \ {i}) :
                        sanctions' = [given EXCEPT ![j] = Row(more, None)]
             /\ version' = IF bump THEN version + 1 ELSE version
  BY DEF IssueSanction
<1> DEFINE given == [sanctions EXCEPT ![i] = Row(type, key)]
           more == IF type = "strike" THEN CalledFor(given) ELSE None
<1>4. i \in Free /\ i \in SanctionIds
  BY DEF Lowest, Free
<1>5. more \in {None, "temporary_ban", "posting_restriction"}
  BY DEF CalledFor
<1>6. /\ given \in [SanctionIds -> Sanction \cup {None}]
      /\ given[i] = Row(type, key)
      /\ \A j \in SanctionIds \ {i} : given[j] = sanctions[j]
  BY <1>1, <1>2, <1>4, RowIsSanction DEF SanctionTypes
<1>7. CASE more = None
  <2>1. sanctions' = given
    BY <1>3, <1>7
  <2> QED BY <2>1, <1>3, <1>4, <1>5, <1>6, <1>7 DEF Issues
<1>8. CASE more # None
  <2>1. PICK j \in Lowest(Free \ {i}) : sanctions' = [given EXCEPT ![j] = Row(more, None)]
    BY <1>3, <1>8
  <2>2. j \in Free \ {i} /\ j \in SanctionIds
    BY <2>1 DEF Lowest, Free
  <2>3. Row(more, None) \in Sanction
    BY <1>2, <1>5, <1>8, RowIsSanction
  <2>4. /\ sanctions' \in [SanctionIds -> Sanction \cup {None}]
        /\ sanctions'[i] = Row(type, key) /\ sanctions'[j] = Row(more, None)
        /\ \A h \in SanctionIds \ {i, j} : sanctions'[h] = sanctions[h]
    BY <2>1, <2>2, <2>3, <1>4, <1>6
  <2>5. \A h \in SanctionIds \ {i} :
           sanctions'[h] = sanctions[h] \/ (h \in Free /\ sanctions'[h] = Row(more, None))
    BY <2>2, <2>4
  <2>6. version' = IF type \in Bans \/ more = "temporary_ban" THEN version + 1 ELSE version
    BY <1>3
  <2> HIDE DEF more, given
  <2>7. more = IF type = "strike" THEN CalledFor(given) ELSE None
    BY DEF more
  <2> QED BY <2>2, <2>4, <2>5, <2>6, <2>7, <1>4, <1>5, <1>8 DEF Issues, given
<1> QED BY <1>7, <1>8

(* Revocation and the passing of time leave the rows, their types and      *)
(* their keys, and bring no sanction into force.                           *)
Fades ==
    /\ sanctions' \in [SanctionIds -> Sanction \cup {None}]
    /\ \A j \in SanctionIds : /\ sanctions'[j] # None <=> sanctions[j] # None
                              /\ sanctions[j] # None => /\ sanctions'[j].type = sanctions[j].type
                                                        /\ sanctions'[j].key = sanctions[j].key
    /\ \A type : InForceIn(sanctions', type) => InForceIn(sanctions, type)

LEMMA Revoking ==
    ASSUME SanctionTypes, NEW i \in Issued, sanctions' = Revoked(i)
    PROVE  Fades
<1>1. i \in SanctionIds /\ sanctions[i] \in Sanction
  BY DEF Issued, SanctionTypes
<1>2. sanctions'[i] \in Sanction
  BY <1>1 DEF Revoked, Sanction, SanctionTypes
<1>3. /\ sanctions'[i].type = sanctions[i].type /\ sanctions'[i].key = sanctions[i].key
      /\ sanctions'[i].state # "active" \/ sanctions'[i] = sanctions[i]
  BY <1>1 DEF Revoked, Sanction, SanctionTypes
<1>4. \A j \in SanctionIds \ {i} : sanctions'[j] = sanctions[j]
  BY <1>1 DEF Revoked, SanctionTypes
<1>5. sanctions' \in [SanctionIds -> Sanction \cup {None}]
  BY <1>1, <1>2, <1>4 DEF Revoked, SanctionTypes
<1> QED BY <1>1, <1>2, <1>3, <1>4, <1>5, RowAssumption DEF Fades, InForceIn

LEMMA Lapsing ==
    ASSUME SanctionTypes, NEW i \in SanctionIds, Lapse(i)
    PROVE  Fades
<1>1. sanctions[i] # None /\ sanctions[i] \in Sanction
  BY DEF Lapse, Issued, SanctionTypes
<1>2. /\ sanctions'[i] \in Sanction
      /\ sanctions'[i].type = sanctions[i].type /\ sanctions'[i].key = sanctions[i].key
      /\ sanctions'[i].state = sanctions[i].state
      /\ sanctions'[i].lapsed \/ sanctions'[i].lapsed = sanctions[i].lapsed
  <2>1. CASE sanctions' = [sanctions EXCEPT ![i].lapsed = TRUE]
    <3>1. sanctions'[i] = [sanctions[i] EXCEPT !.lapsed = TRUE]
      BY <2>1, <1>1 DEF SanctionTypes
    <3>2. sanctions'[i].lapsed
      BY <3>1, <1>1 DEF Sanction
    <3> QED BY <3>1, <3>2, <1>1 DEF Sanction
  <2>2. CASE sanctions' = [sanctions EXCEPT ![i].faded = TRUE]
    <3>1. sanctions'[i] = [sanctions[i] EXCEPT !.faded = TRUE]
      BY <2>2, <1>1 DEF SanctionTypes
    <3>2. sanctions'[i].lapsed = sanctions[i].lapsed
      BY <3>1, <1>1 DEF Sanction
    <3> QED BY <3>1, <3>2, <1>1 DEF Sanction
  <2> QED BY <2>1, <2>2 DEF Lapse
<1>3. \A j \in SanctionIds \ {i} : sanctions'[j] = sanctions[j]
  BY <1>1 DEF Lapse, SanctionTypes
<1>4. sanctions' \in [SanctionIds -> Sanction \cup {None}]
  BY <1>1, <1>2, <1>3 DEF Lapse, SanctionTypes
<1> QED BY <1>1, <1>2, <1>3, <1>4, RowAssumption DEF Fades, InForceIn

-----------------------------------------------------------------------------
(* Parts of the invariant, for the kinds of steps that disturb them *)

(* Steps that leave sanctions, keys and sessions alone keep everything. *)
LEMMA Quiet ==
    ASSUME IInv, UNCHANGED <<sanctions, keys, version, tokens, login>>, AppealsIssued'
    PROVE  IInv'
BY DEF IInv, SanctionTypes, SessionTypes, NoneAhead, NoSessionUnderBan, KeysRecorded, OncePerKey,
       Banned, InForceIn, Issued

LEMMA SameAppeals ==
    ASSUME AppealsIssued, UNCHANGED <<sanctions, appeals>>
    PROVE  AppealsIssued'
BY DEF AppealsIssued, Issued

(* A greater version is one that nobody has a token of. *)
LEMMA Bumped ==
    ASSUME SessionTypes, NoneAhead, version' = version + 1, UNCHANGED <<tokens, login>>
    PROVE  SessionTypes' /\ NoneAhead' /\ NoSessionUnderBan'
<1>1. SessionTypes'
  BY DEF SessionTypes
<1>2. NoneAhead'
  BY DEF NoneAhead, SessionTypes
<1>3. login'.version # version' /\ version' \notin tokens'
  BY DEF NoneAhead, SessionTypes
<1> QED BY <1>1, <1>2, <1>3 DEF NoSessionUnderBan

LEMMA SameSessions ==
    ASSUME SessionTypes, NoneAhead, NoSessionUnderBan, Banned' => Banned,
           UNCHANGED <<version, tokens, login>>
    PROVE  SessionTypes' /\ NoneAhead' /\ NoSessionUnderBan'
BY DEF SessionTypes, NoneAhead, NoSessionUnderBan

(* What fades keeps the keys it was issued for. *)
LEMMA FadingKeepsKeys ==
    ASSUME Fades, KeysRecorded, OncePerKey,
           \A k \in Requests : keys[k] => keys'[k], SanctionTypes
    PROVE  KeysRecorded' /\ OncePerKey'
<1>1. Issued' = Issued /\ \A i \in Issued : sanctions'[i].key = sanctions[i].key
  BY DEF Fades, Issued
<1>2. \A i \in Issued : sanctions[i].key \in Requests \cup {None}
  BY DEF Issued, SanctionTypes, Sanction
<1>3. KeysRecorded'
  BY <1>1, <1>2 DEF KeysRecorded
<1>4. OncePerKey'
  BY <1>1 DEF OncePerKey
<1> QED BY <1>3, <1>4

LEMMA FadingBansNobody ==
    ASSUME Fades PROVE Banned' => Banned
BY DEF Fades, Banned

(* The request's key is taken. *)
LEMMA KeyTaken ==
    ASSUME SanctionTypes, NEW m \in Staff, NEW k \in Keys, keys' = [keys EXCEPT ![<<m, k>>] = TRUE]
    PROVE  /\ <<m, k>> \in Requests /\ keys'[<<m, k>>]
           /\ keys' \in [Requests -> BOOLEAN] /\ \A r \in Requests : keys[r] => keys'[r]
<1>1. <<m, k>> \in Requests
  BY DEF Requests
<1> QED BY <1>1 DEF SanctionTypes

LEMMA IssueKeeps ==
    ASSUME IInv, NEW m \in Staff, NEW k \in Keys, NEW c \in CaseIds, NEW type \in IssuedTypes,
           IssueSanction(m, k, c, type)
    PROVE  IInv'
<1> DEFINE key == <<m, k>>
<1>1. SanctionTypes /\ SessionTypes /\ NoneAhead /\ NoSessionUnderBan /\ KeysRecorded /\ OncePerKey
  BY DEF IInv
<1>2. PICK i \in Free : \E more : Issues(i, more, type, key)
  BY <1>1, Issuing
<1>3. PICK more : Issues(i, more, type, key)
  BY <1>2
<1>4. /\ key \in Requests /\ keys'[key] /\ keys' \in [Requests -> BOOLEAN]
      /\ \A r \in Requests : keys[r] => keys'[r]
  BY <1>1, KeyTaken DEF IssueSanction
<1>5. /\ ~keys[key] /\ UNCHANGED <<tokens, login>>
  BY DEF IssueSanction, Unanswered
<1>6. type \in SanctionType /\ {"temporary_ban", "posting_restriction"} \subseteq SanctionType
  BY ModerationAssumption DEF SanctionType, Bans
<1>7. /\ i \in SanctionIds /\ sanctions'[i] # None
      /\ sanctions'[i].key = key /\ sanctions'[i].type = type
  BY <1>3, <1>4, <1>6, RowIsSanction DEF Issues, Free
<1>8. \A j \in SanctionIds \ {i} :
         \/ sanctions'[j] = sanctions[j]
         \/ /\ more # None /\ sanctions'[j].key = None /\ sanctions'[j].type = more
  <2>1. more # None => more \in SanctionType
    BY <1>3, <1>6 DEF Issues
  <2>2. more # None => Row(more, None).key = None /\ Row(more, None).type = more
    BY <2>1, RowIsSanction
  <2> QED BY <2>2, <1>3 DEF Issues
<1>9. SanctionTypes'
  BY <1>3, <1>4 DEF SanctionTypes, Issues
<1>10. KeysRecorded' /\ OncePerKey'
  <2>1. \A j \in Issued :
           sanctions[j].key # None => sanctions[j].key \in Requests /\ keys[sanctions[j].key]
    BY <1>1 DEF KeysRecorded, Issued, SanctionTypes, Sanction
  <2>2. \A j \in Issued' : j # i /\ sanctions'[j].key # None =>
           j \in Issued /\ sanctions'[j].key = sanctions[j].key
    BY <1>8 DEF Issued
  <2>3. KeysRecorded'
    BY <2>1, <2>2, <1>4, <1>7 DEF KeysRecorded
  <2>4. \A j \in Issued' : j # i => sanctions'[j].key # key
    BY <2>1, <2>2, <1>4, <1>5, ModerationAssumption DEF Requests
  <2>5. OncePerKey'
    BY <2>2, <2>4, <1>1, <1>7 DEF OncePerKey
  <2> QED BY <2>3, <2>5
<1>11. SessionTypes' /\ NoneAhead' /\ NoSessionUnderBan'
  <2>1. CASE type \in Bans \/ more = "temporary_ban"
    <3>1. version' = version + 1
      BY <2>1, <1>3 DEF Issues
    <3> QED BY <3>1, <1>1, <1>5, Bumped
  <2>2. CASE type \notin Bans /\ more # "temporary_ban"
    <3>1. version' = version
      BY <2>2, <1>3 DEF Issues
    <3>2. more \notin Bans \/ more = None
      BY <2>2, <1>3 DEF Issues, Bans
    <3>3. ASSUME NEW ban \in Bans, InForceIn(sanctions', ban)
          PROVE  InForceIn(sanctions, ban)
      <4>1. PICK j \in SanctionIds : /\ sanctions'[j] # None /\ sanctions'[j].type = ban
                                     /\ sanctions'[j].state = "active" /\ ~sanctions'[j].lapsed
        BY <3>3 DEF InForceIn
      <4>2. sanctions'[j] = sanctions[j]
        BY <4>1, <3>2, <1>7, <1>8, <2>2
      <4> QED BY <4>1, <4>2 DEF InForceIn
    <3>4. Banned' => Banned
      BY <3>3 DEF Banned
    <3> QED BY <3>1, <3>4, <1>1, <1>5, SameSessions
  <2> QED BY <2>1, <2>2
<1>12. AppealsIssued'
  <2>1. appeals' = appeals
    BY DEF IssueSanction
  <2>2. ASSUME NEW j \in Issued PROVE sanctions'[j] # None /\ j \in SanctionIds
    BY <1>2, <1>3 DEF Issues, Free, Issued
  <2> QED BY <2>1, <2>2 DEF IInv, AppealsIssued, Issued
<1> QED BY <1>9, <1>10, <1>11, <1>12 DEF IInv

(* A sanction is revoked, by staff or by an appeal. *)
LEMMA RevokeKeeps ==
    ASSUME IInv, NEW m \in Staff, NEW k \in Keys, NEW i \in Issued,
           sanctions' = Revoked(i), BumpFor(sanctions[i].type),
           keys' = [keys EXCEPT ![<<m, k>>] = TRUE], UNCHANGED <<tokens, login>>,
           appeals' \subseteq appeals
    PROVE  IInv'
<1>1. SanctionTypes /\ SessionTypes /\ NoneAhead /\ NoSessionUnderBan /\ KeysRecorded /\ OncePerKey
  BY DEF IInv
<1>2. Fades
  BY <1>1, Revoking
<1>3. keys' \in [Requests -> BOOLEAN] /\ \A r \in Requests : keys[r] => keys'[r]
  BY <1>1, KeyTaken
<1>4. SanctionTypes'
  BY <1>2, <1>3 DEF SanctionTypes, Fades
<1>5. KeysRecorded' /\ OncePerKey'
  BY <1>1, <1>2, <1>3, FadingKeepsKeys
<1>6. SessionTypes' /\ NoneAhead' /\ NoSessionUnderBan'
  <2>1. CASE version' = version
    BY <2>1, <1>1, <1>2, FadingBansNobody, SameSessions
  <2>2. CASE version' = version + 1
    BY <2>2, <1>1, Bumped
  <2> QED BY <2>1, <2>2 DEF BumpFor
<1>7. AppealsIssued'
  BY <1>2 DEF IInv, AppealsIssued, Fades, Issued
<1> QED BY <1>4, <1>5, <1>6, <1>7 DEF IInv

LEMMA LapseKeeps ==
    ASSUME IInv, NEW i \in SanctionIds, Lapse(i)
    PROVE  IInv'
<1>1. SanctionTypes /\ SessionTypes /\ NoneAhead /\ NoSessionUnderBan /\ KeysRecorded /\ OncePerKey
  BY DEF IInv
<1>2. Fades
  BY <1>1, Lapsing
<1>3. UNCHANGED <<keys, version, tokens, login>>
  BY DEF Lapse
<1>4. SanctionTypes'
  BY <1>1, <1>2, <1>3 DEF SanctionTypes, Fades
<1>5. KeysRecorded' /\ OncePerKey'
  BY <1>1, <1>2, <1>3, FadingKeepsKeys
<1>6. SessionTypes' /\ NoneAhead' /\ NoSessionUnderBan'
  BY <1>1, <1>2, <1>3, FadingBansNobody, SameSessions
<1>7. AppealsIssued'
  BY <1>2 DEF Lapse, IInv, AppealsIssued, Fades, Issued
<1> QED BY <1>4, <1>5, <1>6, <1>7 DEF IInv

(* The login and the logout. *)
LEMMA SessionKeeps ==
    ASSUME IInv, SessionStep
    PROVE  IInv'
<1>1. SanctionTypes /\ SessionTypes /\ NoneAhead /\ NoSessionUnderBan /\ KeysRecorded /\ OncePerKey
  BY DEF IInv
<1>2. UNCHANGED <<sanctions, keys>>
  BY DEF SessionStep, ReadAccount, CheckSanctions, SignToken, Logout, sanctionVars
<1>3. SanctionTypes' /\ KeysRecorded' /\ OncePerKey' /\ Banned' = Banned
  BY <1>1, <1>2 DEF SanctionTypes, KeysRecorded, OncePerKey, Issued, Banned, InForceIn
<1>4. SessionTypes' /\ NoneAhead' /\ NoSessionUnderBan'
  <2>1. CASE ReadAccount
    BY <2>1, <1>1, <1>3
       DEF ReadAccount, sanctionVars, SessionTypes, NoneAhead, NoSessionUnderBan
  <2>2. CASE CheckSanctions
    <3>1. /\ login' = [login EXCEPT !.step = IF Banned THEN "idle" ELSE "allowed"]
          /\ UNCHANGED <<version, tokens>>
      BY <2>2 DEF CheckSanctions, sanctionVars
    <3>2. login'.version = login.version /\ (Banned => login'.step = "idle")
          /\ SessionTypes'
      BY <3>1, <1>1 DEF SessionTypes
    <3> QED BY <3>1, <3>2, <1>1, <1>3 DEF NoneAhead, NoSessionUnderBan
  <2>3. CASE SignToken
    BY <2>3, <1>1, <1>3
       DEF SignToken, sanctionVars, SessionTypes, NoneAhead, NoSessionUnderBan
  <2>4. CASE Logout
    BY <2>4, <1>1, Bumped DEF Logout
  <2> QED BY <2>1, <2>2, <2>3, <2>4 DEF SessionStep
<1>5. AppealsIssued'
  BY <1>2, SameAppeals DEF IInv, SessionStep, ReadAccount, CheckSanctions, SignToken, Logout,
                           sanctionVars
<1> QED BY <1>3, <1>4, <1>5 DEF IInv

LEMMA InitHolds == Init => IInv
<1> SUFFICES ASSUME Init PROVE IInv
  OBVIOUS
<1>1. Issued = {} /\ ~Banned
  BY DEF Init, Issued, Banned, InForceIn
<1>2. SanctionTypes /\ SessionTypes /\ NoneAhead
  BY DEF Init, SanctionTypes, SessionTypes, NoneAhead
<1>3. AppealsIssued
  BY DEF Init, AppealsIssued
<1> QED BY <1>1, <1>2, <1>3 DEF IInv, NoSessionUnderBan, KeysRecorded, OncePerKey

LEMMA NextKeeps ==
    ASSUME IInv, [Next]_vars
    PROVE  IInv'
<1>1. CASE UNCHANGED vars
  BY <1>1, Quiet, SameAppeals DEF vars, IInv
<1>2. CASE CaseStep
  BY <1>2, Quiet, SameAppeals DEF IInv, CaseStep, CreateReport, MutateCase, sanctionVars
<1>3. CASE RemovalStep
  BY <1>3, Quiet, SameAppeals DEF IInv, RemovalStep, MatchCase, DeleteContent,
                                  ResolveAfterRemoval, AbandonRemoval, sanctionVars
<1>4. CASE SanctionStep
  <2>1. CASE UpdatePolicy
    BY <2>1, Quiet, SameAppeals DEF IInv, UpdatePolicy, Updated, sanctionVars
  <2>2. ASSUME NEW m \in Staff, NEW k \in Keys, NEW c \in CaseIds, NEW type \in IssuedTypes,
               IssueSanction(m, k, c, type)
        PROVE  IInv'
    BY <2>2, IssueKeeps
  <2>3. ASSUME NEW m \in Staff, NEW k \in Keys, NEW i \in SanctionIds, RevokeSanction(m, k, i)
        PROVE  IInv'
    BY <2>3, RevokeKeeps DEF RevokeSanction
  <2>4. ASSUME NEW m \in Staff, NEW k \in Keys, NEW i \in SanctionIds, NEW granted \in BOOLEAN,
               ResolveAppeal(m, k, i, granted)
        PROVE  IInv'
    <3>1. /\ keys' = [keys EXCEPT ![<<m, k>>] = TRUE] /\ UNCHANGED <<tokens, login>>
          /\ \/ sanctions' = Revoked(i) /\ BumpFor(sanctions[i].type)
             \/ UNCHANGED <<sanctions, version>>
          /\ i \in Issued /\ appeals' \subseteq appeals
      BY <2>4 DEF ResolveAppeal, IInv, AppealsIssued
    <3>2. CASE sanctions' = Revoked(i) /\ BumpFor(sanctions[i].type)
      BY <3>1, <3>2, RevokeKeeps
    <3>3. CASE UNCHANGED <<sanctions, version>>
      BY <3>1, <3>3, KeyTaken
         DEF IInv, SanctionTypes, SessionTypes, NoneAhead, NoSessionUnderBan, KeysRecorded,
             OncePerKey, Banned, InForceIn, Issued, Sanction, AppealsIssued
    <3> QED BY <3>1, <3>2, <3>3
  <2>5. ASSUME NEW i \in SanctionIds, Lapse(i)
        PROVE  IInv'
    BY <2>5, LapseKeeps
  <2>6. ASSUME NEW i \in SanctionIds, CreateAppeal(i)
        PROVE  IInv'
    BY <2>6, Quiet DEF CreateAppeal, IInv, AppealsIssued, Issued
  <2> QED BY <1>4, <2>1, <2>2, <2>3, <2>4, <2>5, <2>6 DEF SanctionStep
<1>5. CASE SessionStep
  BY <1>5, SessionKeeps
<1> QED BY <1>1, <1>2, <1>3, <1>4, <1>5 DEF Next

-----------------------------------------------------------------------------
(* Strikes *)

(* The strike counts itself; a sanction that it brings counts as none, and *)
(* is in force.                                                            *)
LEMMA StrikeMeetsThresholds ==
    ASSUME SanctionTypes, policy \in Policies, NEW key \in Requests, NEW i \in Free, NEW more,
           Issues(i, more, "strike", key)
    PROVE  ThresholdsMet
<1> DEFINE given == [sanctions EXCEPT ![i] = Row("strike", key)]
           strikes == Cardinality(LiveStrikes(given))
<1>1. i \in SanctionIds /\ sanctions[i] = None
  BY DEF Free, Issued
<1>2. {"strike", "temporary_ban", "posting_restriction"} \subseteq SanctionType
  BY DEF SanctionType, Bans
<1>3. more \in {None, "temporary_ban", "posting_restriction"} /\ more = CalledFor(given)
  BY DEF Issues
<1>4. /\ given[i] = Row("strike", key) /\ sanctions'[i] = given[i]
      /\ \A j \in SanctionIds \ {i} : given[j] = sanctions[j]
  BY <1>1 DEF Issues, SanctionTypes
<1>5. ASSUME more # None
      PROVE  /\ Row(more, None) # None /\ Row(more, None).type = more
             /\ Row(more, None).state = "active" /\ ~Row(more, None).lapsed
  <2>1. more \in SanctionType
    BY <1>2, <1>3, <1>5
  <2> QED BY <2>1, RowIsSanction
<1>6. \A j \in SanctionIds :
         \/ sanctions'[j] = given[j]
         \/ given[j] = None /\ more # None /\ sanctions'[j] = Row(more, None)
  BY <1>4 DEF Issues, Free, Issued
<1>7. LiveStrikes(sanctions') = LiveStrikes(given)
  <2>1. more # None => more # "strike"
    BY <1>3
  <2> QED BY <2>1, <1>5, <1>6 DEF LiveStrikes
<1>8. \A type : InForceIn(given, type) => InForceIn(sanctions', type)
  BY <1>6 DEF InForceIn
<1>9. more # None => InForceIn(sanctions', more)
  BY <1>5 DEF Issues, InForceIn, Free
<1>10. policy.ban \in Nat /\ policy.posting \in Nat
  BY ModerationAssumption
<1>11. ASSUME strikes >= policy.ban PROVE InForceIn(sanctions', "temporary_ban")
  <2>1. CalledFor(given) = IF InForceIn(given, "temporary_ban") THEN None ELSE "temporary_ban"
    BY <1>2, <1>11, RowAssumption DEF CalledFor
  <2> QED BY <2>1, <1>2, <1>3, <1>8, <1>9, RowAssumption
<1>12. ASSUME strikes \in policy.posting..(policy.ban - 1)
       PROVE  InForceIn(sanctions', "posting_restriction")
  <2>1. strikes >= policy.posting /\ ~(strikes >= policy.ban)
    BY <1>10, <1>12
  <2>2. CalledFor(given) = IF InForceIn(given, "posting_restriction")
                             THEN None ELSE "posting_restriction"
    BY <2>1, <1>2, RowAssumption DEF CalledFor
  <2> QED BY <2>2, <1>2, <1>3, <1>8, <1>9, RowAssumption
<1> QED BY <1>7, <1>11, <1>12 DEF ThresholdsMet

(* No other step issues a strike. *)
LEMMA NextMeetsThresholds ==
    ASSUME IInv, policy \in Policies, [Next]_vars,
           NEW i \in SanctionIds \ Issued, sanctions'[i] # None, sanctions'[i].type = "strike"
    PROVE  ThresholdsMet
<1>1. sanctions[i] = None /\ SanctionTypes
  BY DEF Issued, IInv
<1>2. ~Fades /\ sanctions' # sanctions
  BY <1>1 DEF Fades
<1>3. PICK m \in Staff, k \in Keys, c \in CaseIds, type \in IssuedTypes :
         IssueSanction(m, k, c, type)
  <2>1. SanctionStep
    BY <1>2 DEF Next, vars, CaseStep, CreateReport, MutateCase, RemovalStep, MatchCase,
                DeleteContent, ResolveAfterRemoval, AbandonRemoval, SessionStep, ReadAccount,
                CheckSanctions, SignToken, Logout, sanctionVars
  <2>2. ~UpdatePolicy /\ \A j \in SanctionIds : ~CreateAppeal(j)
    BY <1>2 DEF UpdatePolicy, Updated, CreateAppeal, sanctionVars
  <2>3. \A j \in SanctionIds : ~Lapse(j)
    BY <1>1, <1>2, Lapsing
  <2>4. \A m \in Staff, k \in Keys, j \in SanctionIds : ~RevokeSanction(m, k, j)
    BY <1>1, <1>2, Revoking DEF RevokeSanction
  <2>5. \A m \in Staff, k \in Keys, j \in SanctionIds, granted \in BOOLEAN :
           ~ResolveAppeal(m, k, j, granted)
    BY <1>1, <1>2, Revoking DEF ResolveAppeal, IInv, AppealsIssued
  <2> QED BY <2>1, <2>2, <2>3, <2>4, <2>5 DEF SanctionStep
<1>4. PICK j \in Free : \E more : Issues(j, more, type, <<m, k>>)
  BY <1>1, <1>3, Issuing
<1>5. PICK more : Issues(j, more, type, <<m, k>>)
  BY <1>4
<1>6. <<m, k>> \in Requests /\ type \in SanctionType
  BY ModerationAssumption DEF Requests, SanctionType, Bans
<1>7. type = "strike"
  <2>1. CASE i = j
    BY <2>1, <1>5, <1>6, RowIsSanction DEF Issues
  <2>2. CASE i # j
    <3>1. more \in {"temporary_ban", "posting_restriction"} /\ sanctions'[i] = Row(more, None)
      BY <2>2, <1>1, <1>5 DEF Issues
    <3>2. more \in SanctionType
      BY <3>1 DEF SanctionType, Bans
    <3>3. sanctions'[i].type = more
      BY <3>1, <3>2, RowIsSanction
    <3> QED BY <3>1, <3>3
  <2> QED BY <2>1, <2>2
<1> QED BY <1>1, <1>5, <1>6, <1>7, StrikeMeetsThresholds

LEMMA PolicyStays ==
    ASSUME policy \in Policies, [Next]_vars
    PROVE  policy' \in Policies
<1>1. CASE UNCHANGED vars
  BY <1>1 DEF vars
<1>2. CASE CaseStep
  BY <1>2 DEF CaseStep, CreateReport, MutateCase
<1>3. CASE RemovalStep
  BY <1>3 DEF RemovalStep, MatchCase, DeleteContent, ResolveAfterRemoval, AbandonRemoval
<1>4. CASE SanctionStep
  <2>1. CASE UpdatePolicy
    BY <2>1 DEF UpdatePolicy, Updated
  <2>2. CASE policy' = policy
    BY <2>2
  <2>3. ASSUME NEW m, NEW k, NEW c, NEW type, IssueSanction(m, k, c, type) PROVE policy' = policy
    BY <2>3 DEF IssueSanction
  <2>4. ASSUME NEW m, NEW k, NEW i, RevokeSanction(m, k, i) PROVE policy' = policy
    BY <2>4 DEF RevokeSanction
  <2>5. ASSUME NEW m, NEW k, NEW i, NEW granted, ResolveAppeal(m, k, i, granted)
        PROVE  policy' = policy
    BY <2>5 DEF ResolveAppeal
  <2>6. ASSUME NEW i, Lapse(i) \/ CreateAppeal(i) PROVE policy' = policy
    BY <2>6 DEF Lapse, CreateAppeal
  <2> QED BY <1>4, <2>1, <2>2, <2>3, <2>4, <2>5, <2>6 DEF SanctionStep
<1>5. CASE SessionStep
  BY <1>5 DEF SessionStep, ReadAccount, CheckSanctions, SignToken, Logout, sanctionVars
<1> QED BY <1>1, <1>2, <1>3, <1>4, <1>5 DEF Next

-----------------------------------------------------------------------------
(* Theorems *)

(* The invariant holds in every state. *)
THEOREM Invariant == Spec => []IInv
<1>1. Init => IInv
  BY InitHolds
<1>2. IInv /\ [Next]_vars => IInv'
  BY NextKeeps
<1> QED BY <1>1, <1>2, PTL DEF Spec

(* A banned account has no session, whenever the ban falls into a login:   *)
(* signInUser reads session_version before it asks for sanctions, and      *)
(* every ban raises it.                                                    *)
THEOREM BansEndSessions == Spec => []NoSessionUnderBan
<1>1. IInv => NoSessionUnderBan
  BY DEF IInv
<1> QED BY <1>1, Invariant, PTL

(* A request repeated with its Idempotency-Key issues nothing twice. *)
THEOREM RequestsActOnce == Spec => []OncePerKey
<1>1. IInv => OncePerKey
  BY DEF IInv
<1> QED BY <1>1, Invariant, PTL

(* A strike leaves the account with what the policy of that moment calls   *)
(* for, also when sanctions of that kind were revoked or have lapsed       *)
(* before (evaluateStrikePolicy).                                          *)
THEOREM StrikesApplied == Spec => ThresholdsApplied
<1>1. Init => policy \in Policies
  BY DEF Init
<1>2. policy \in Policies /\ [Next]_vars => (policy \in Policies)'
  BY PolicyStays
<1>3. IInv /\ policy \in Policies /\ [Next]_vars =>
        [\A i \in SanctionIds \ Issued :
            sanctions[i]' # None /\ sanctions[i]'.type = "strike" => ThresholdsMet]_vars
  BY NextMeetsThresholds
<1> QED BY <1>1, <1>2, <1>3, Invariant, PTL DEF Spec, ThresholdsApplied
=============================================================================
