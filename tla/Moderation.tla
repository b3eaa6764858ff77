------------------------------ MODULE Moderation ------------------------------
(***************************************************************************)
(* Reports, cases, removal of reported content, sanctions and appeals, and *)
(* the sessions they end (services/api/src/modules/moderation and auth).   *)
(*                                                                         *)
(* One user, the Offender, is the author of one reported Item.  Every      *)
(* transaction of these modules locks the account it acts for and then the *)
(* rows it decides on, so it is one action; the removal of content, the    *)
(* login and the retry of a request are several, and the process may die   *)
(* between them.                                                           *)
(***************************************************************************)
EXTENDS Naturals, FiniteSets

CONSTANTS
    Reporters,      \* users who file reports
    Staff,          \* moderators and superadmins
    Superadmins,    \* those of Staff who may ban for ever and decide appeals
    CaseIds,        \* bounds the cases ever opened
    SanctionIds,    \* bounds the sanctions ever issued
    Keys,           \* Idempotency-Key values of a member of staff
    CaseActs,       \* the transitions of a case that staff use
    IssuedTypes,    \* the sanctions that staff issue
    Policies,       \* rows moderation_policies may hold: [posting, ban]
    MaxVersion,     \* bounds users.session_version
    Item, Offender, None

ASSUME ModerationAssumption ==
    /\ Superadmins \subseteq Staff
    /\ CaseActs \subseteq {"assign", "takeover", "resolve", "dismiss", "escalate"}
    /\ IssuedTypes \subseteq {"strike", "posting_restriction", "comment_restriction",
                               "temporary_ban", "permanent_ban"}
    /\ CaseIds \subseteq Nat /\ SanctionIds \subseteq Nat
    /\ MaxVersion \in Nat
    /\ Policies # {}
    /\ \A p \in Policies : p.posting \in Nat \ {0} /\ p.ban \in Nat /\ p.ban >= p.posting
    /\ Item # Offender
    /\ None \notin Staff \cup CaseIds \cup SanctionIds \cup (Staff \X Keys)

VARIABLES
    reports,     \* who has reported what
    cases,       \* moderation_cases
    content,     \* the Item: "shown" or "removed"
    removal,     \* the removal request each member of staff is running
    sanctions,   \* sanctions, with the user_strikes row of a strike
    keys,        \* moderation_idempotency_keys of issue, revoke and resolve
    appeals,     \* the sanctions with an open appeal
    policy,      \* moderation_policies
    version,     \* users.session_version of the Offender
    tokens,      \* the session versions of the tokens signed for the Offender
    login        \* the login of the Offender that is under way

caseVars == <<reports, cases>>
removalVars == <<content, removal>>
sanctionVars == <<sanctions, keys, appeals, version>>
vars == <<reports, cases, content, removal, sanctions, keys, appeals, policy,
          version, tokens, login>>

Targets == {Item, Offender}
Requests == Staff \X Keys

ActiveStatus == {"open", "in_review", "escalated"}
ClosedStatus == {"resolved", "dismissed"}
Case == [target : Targets, status : ActiveStatus \cup ClosedStatus, owner : Staff \cup {None}]

Bans == {"temporary_ban", "permanent_ban"}
SanctionType == {"strike", "posting_restriction", "comment_restriction"} \cup Bans
Sanction == [type : SanctionType, state : {"active", "revoked"}, lapsed : BOOLEAN,
             faded : BOOLEAN, key : Requests \cup {None}]

ASSUME RowAssumption == None \notin Sanction /\ None \notin SanctionType

OpenCases == {c \in CaseIds : cases[c] # None /\ cases[c].status \in ActiveStatus}
Issued == {i \in SanctionIds : sanctions[i] # None}

Free == SanctionIds \ Issued
Lowest(ids) == {i \in ids : \A j \in ids : i <= j}

(* A sanction that the checks of logins and writes see. *)
InForceIn(table, type) ==
    \E i \in SanctionIds : /\ table[i] # None
                           /\ table[i].type = type
                           /\ table[i].state = "active"
                           /\ ~table[i].lapsed

Banned == \E type \in Bans : InForceIn(sanctions, type)

TypeOK ==
    /\ reports \subseteq Reporters \X Targets
    /\ cases \in [CaseIds -> Case \cup {None}]
    /\ content \in {"shown", "removed"}
    /\ removal \in [Staff -> [step : {"idle", "matched", "deleted"}, case : CaseIds \cup {None}]]
    /\ sanctions \in [SanctionIds -> Sanction \cup {None}]
    /\ keys \in [Requests -> BOOLEAN]
    /\ appeals \subseteq SanctionIds
    /\ policy \in Policies
    /\ version \in 0..MaxVersion
    /\ tokens \subseteq 0..MaxVersion
    /\ login \in [step : {"idle", "read", "allowed"}, version : 0..MaxVersion]

Init ==
    /\ reports = {}
    /\ cases = [c \in CaseIds |-> None]
    /\ content = "shown"
    /\ removal = [m \in Staff |-> [step |-> "idle", case |-> None]]
    /\ sanctions = [i \in SanctionIds |-> None]
    /\ keys = [k \in Requests |-> FALSE]
    /\ appeals = {}
    /\ policy \in Policies
    /\ version = 0
    /\ tokens = {0}              \* the token of the registration
    /\ login = [step |-> "idle", version |-> 0]

-----------------------------------------------------------------------------
(* Reports and cases *)

Reportable(t) == t = Item => content = "shown"

CaseOf(t) == {c \in OpenCases : cases[c].target = t}

(* A reporter who already has a report about the target gets it back: no   *)
(* statement ever takes a report out of status open.  Otherwise the report *)
(* joins the active case of the target or opens one.                       *)
CreateReport(r, t) ==
    /\ Reportable(t)
    /\ <<r, t>> \notin reports
    /\ reports' = reports \cup {<<r, t>>}
    /\ \/ CaseOf(t) # {} /\ UNCHANGED cases
       \/ /\ CaseOf(t) = {}
          /\ \E c \in Lowest({d \in CaseIds : cases[d] = None}) :
                cases' = [cases EXCEPT ![c] =
                             [target |-> t, status |-> "open", owner |-> None]]
    /\ UNCHANGED <<removalVars, sanctionVars, policy, tokens, login>>

(* mutateCase: a closed case refuses every transition, an assignment       *)
(* refuses the case of a colleague, a takeover does not.                   *)
Moved(c, m, act) ==
    [cases[c] EXCEPT
        !.status = CASE act = "resolve" -> "resolved"
                     [] act = "dismiss" -> "dismissed"
                     [] act = "escalate" -> "escalated"
                     [] OTHER -> "in_review",
        !.owner = IF act \in {"assign", "takeover"} \/ @ = None THEN m ELSE @]

MutateCase(m, c, act) ==
    /\ c \in OpenCases
    /\ act = "assign" => cases[c].owner \in {None, m}
    /\ cases' = [cases EXCEPT ![c] = Moved(c, m, act)]
    /\ UNCHANGED <<reports, removalVars, sanctionVars, policy, tokens, login>>

-----------------------------------------------------------------------------
(* Removal of reported content: the case is matched with the content, the  *)
(* content is deleted, the case is resolved: three transactions of one     *)
(* request.  The match does not ask whether the case is still open.        *)

MatchCase(m, c) ==
    /\ removal[m].step = "idle"
    /\ cases[c] # None /\ cases[c].target = Item
    /\ removal' = [removal EXCEPT ![m] = [step |-> "matched", case |-> c]]
    /\ UNCHANGED <<caseVars, content, sanctionVars, policy, tokens, login>>

DeleteContent(m) ==
    /\ removal[m].step = "matched"
    /\ \/ /\ content = "shown"
          /\ content' = "removed"
          /\ removal' = [removal EXCEPT ![m].step = "deleted"]
       \/ /\ content = "removed"        \* 204: it was deleted before
          /\ removal' = [removal EXCEPT ![m] = [step |-> "idle", case |-> None]]
          /\ UNCHANGED content
    /\ UNCHANGED <<caseVars, sanctionVars, policy, tokens, login>>

ResolveAfterRemoval(m) ==
    /\ removal[m].step = "deleted"
    /\ LET c == removal[m].case
       IN cases' = IF c \in OpenCases                  \* otherwise 409
                     THEN [cases EXCEPT ![c] = Moved(c, m, "resolve")] ELSE cases
    /\ removal' = [removal EXCEPT ![m] = [step |-> "idle", case |-> None]]
    /\ UNCHANGED <<reports, content, sanctionVars, policy, tokens, login>>

(* The API process dies, or the database refuses a statement: what was     *)
(* committed stays, the rest of the request is lost.                       *)
AbandonRemoval(m) ==
    /\ removal[m].step # "idle"
    /\ removal' = [removal EXCEPT ![m] = [step |-> "idle", case |-> None]]
    /\ UNCHANGED <<caseVars, content, sanctionVars, policy, tokens, login>>

-----------------------------------------------------------------------------
(* Sanctions *)

Updated(p) ==
    /\ policy' = p
    /\ UNCHANGED <<caseVars, removalVars, sanctionVars, tokens, login>>

UpdatePolicy == \E p \in Policies : policy # p /\ Updated(p)

Row(type, key) ==
    [type |-> type, state |-> "active", lapsed |-> FALSE, faded |-> FALSE, key |-> key]

(* The user_strikes that count: no statement but the deletion of the       *)
(* account touches them, so the strike of a revoked sanction still counts. *)
LiveStrikes(table) ==
    {i \in SanctionIds : table[i] # None /\ table[i].type = "strike" /\ ~table[i].faded}

\* Mutant of CalledFor: the policy is reached one strike late.
CalledForLate(table) ==
    LET strikes == Cardinality(LiveStrikes(table))
        type == IF strikes > policy.ban THEN "temporary_ban"
                ELSE IF strikes > policy.posting THEN "posting_restriction" ELSE None
    IN IF type = None \/ InForceIn(table, type) THEN None ELSE type

(* evaluateStrikePolicy: what the strikes call for, None if nothing or if  *)
(* the account has it already.                                             *)
CalledFor(table) ==
    LET strikes == Cardinality(LiveStrikes(table))
        type == IF strikes >= policy.ban THEN "temporary_ban"
                ELSE IF strikes >= policy.posting THEN "posting_restriction" ELSE None
    IN IF type = None \/ InForceIn(table, type) THEN None ELSE type

\* Mutant of Unanswered: the key is not looked up.
UnansweredAlways(m, k) == TRUE

(* claimIdempotency *)
Unanswered(m, k) == ~keys[<<m, k>>]

(* issueSanction.  Actor and target are locked, so a key is looked up and  *)
(* taken at once: an answered key is replayed and a different request with *)
(* it is refused, both without an effect.                                  *)
IssueSanction(m, k, c, type) ==
    /\ type = "permanent_ban" => m \in Superadmins
    /\ Unanswered(m, k)
    /\ c \in OpenCases /\ cases[c].target = Offender
    /\ \E i \in Lowest(Free) :
          LET given == [sanctions EXCEPT ![i] = Row(type, <<m, k>>)]
              more == IF type = "strike" THEN CalledFor(given) ELSE None
              bump == type \in Bans \/ more = "temporary_ban"
          IN /\ IF more = None THEN sanctions' = given
                ELSE \E j \in Lowest(Free \ {i}) :
                        sanctions' = [given EXCEPT ![j] = Row(more, None)]
             /\ bump => version < MaxVersion
             /\ version' = IF bump THEN version + 1 ELSE version
    /\ keys' = [keys EXCEPT ![<<m, k>>] = TRUE]
    /\ UNCHANGED <<caseVars, removalVars, appeals, policy, tokens, login>>

Revoked(i) == [sanctions EXCEPT ![i] = IF @.state = "active" THEN [@ EXCEPT !.state = "revoked"]
                                        ELSE @]

BumpFor(type) ==
    /\ type \in Bans => version < MaxVersion
    /\ version' = IF type \in Bans THEN version + 1 ELSE version

RevokeSanction(m, k, i) ==
    /\ Unanswered(m, k)
    /\ i \in Issued /\ sanctions[i].state = "active"
    /\ sanctions' = Revoked(i)
    /\ BumpFor(sanctions[i].type)
    /\ keys' = [keys EXCEPT ![<<m, k>>] = TRUE]
    /\ UNCHANGED <<caseVars, removalVars, appeals, policy, tokens, login>>

(* Time passes: expires_at of a sanction, or of the strike it stands for.  *)
Lapse(i) ==
    /\ i \in Issued
    /\ \/ /\ sanctions[i].type \notin {"strike", "permanent_ban"}
          /\ ~sanctions[i].lapsed
          /\ sanctions' = [sanctions EXCEPT ![i].lapsed = TRUE]
       \/ /\ sanctions[i].type = "strike"
          /\ ~sanctions[i].faded
          /\ sanctions' = [sanctions EXCEPT ![i].faded = TRUE]
    /\ UNCHANGED <<caseVars, removalVars, keys, appeals, policy, version, tokens, login>>

-----------------------------------------------------------------------------
(* Appeals: a token that was signed once is enough to file one. *)

CreateAppeal(i) ==
    /\ tokens # {}
    /\ i \in Issued /\ sanctions[i].state = "active" /\ ~sanctions[i].lapsed
    /\ i \notin appeals
    /\ appeals' = appeals \cup {i}
    /\ UNCHANGED <<caseVars, removalVars, sanctions, keys, policy, version, tokens, login>>

(* A decision closes the appeal, also a request for more information;      *)
(* reduced and revoked, the decisions that grant it, revoke the sanction.  *)
ResolveAppeal(m, k, i, granted) ==
    /\ m \in Superadmins
    /\ Unanswered(m, k)
    /\ i \in appeals
    /\ appeals' = appeals \ {i}
    /\ \/ /\ granted
          /\ sanctions' = Revoked(i)
          /\ BumpFor(sanctions[i].type)
       \/ ~granted /\ UNCHANGED <<sanctions, version>>
    /\ keys' = [keys EXCEPT ![<<m, k>>] = TRUE]
    /\ UNCHANGED <<caseVars, removalVars, policy, tokens, login>>

-----------------------------------------------------------------------------
(* Sessions of the Offender.  The login reads the account, with its        *)
(* session version, then asks for sanctions, then signs a token with the   *)
(* version it read.                                                        *)

ReadAccount ==
    /\ login.step = "idle"
    /\ login' = [step |-> "read", version |-> version]
    /\ UNCHANGED <<caseVars, removalVars, sanctionVars, policy, tokens>>

CheckSanctions ==
    /\ login.step = "read"
    /\ login' = [login EXCEPT !.step = IF Banned THEN "idle" ELSE "allowed"]
    /\ UNCHANGED <<caseVars, removalVars, sanctionVars, policy, tokens>>

\* Mutant of SignToken: the token gets the version of the moment.
SignTokenNow ==
    /\ login.step = "allowed"
    /\ tokens' = tokens \cup {version}
    /\ login' = [login EXCEPT !.step = "idle"]
    /\ UNCHANGED <<caseVars, removalVars, sanctionVars, policy>>

SignToken ==
    /\ login.step = "allowed"
    /\ tokens' = tokens \cup {login.version}
    /\ login' = [login EXCEPT !.step = "idle"]
    /\ UNCHANGED <<caseVars, removalVars, sanctionVars, policy>>

(* revokeUserSession: only the current version is revoked. *)
Logout ==
    /\ version \in tokens
    /\ version < MaxVersion
    /\ version' = version + 1
    /\ UNCHANGED <<caseVars, removalVars, sanctions, keys, appeals, policy, tokens, login>>

-----------------------------------------------------------------------------
CaseStep ==
    \/ \E r \in Reporters, t \in Targets : CreateReport(r, t)
    \/ \E m \in Staff, c \in CaseIds, act \in CaseActs : MutateCase(m, c, act)

RemovalStep ==
    \E m \in Staff : \/ \E c \in CaseIds : MatchCase(m, c)
                     \/ DeleteContent(m)
                     \/ ResolveAfterRemoval(m)
                     \/ AbandonRemoval(m)

SanctionStep ==
    \/ UpdatePolicy
    \/ \E m \in Staff, k \in Keys :
          \/ \E c \in CaseIds, type \in IssuedTypes : IssueSanction(m, k, c, type)
          \/ \E i \in SanctionIds : RevokeSanction(m, k, i)
          \/ \E i \in SanctionIds, granted \in BOOLEAN : ResolveAppeal(m, k, i, granted)
    \/ \E i \in SanctionIds : Lapse(i) \/ CreateAppeal(i)

SessionStep == ReadAccount \/ CheckSanctions \/ SignToken \/ Logout

Next == CaseStep \/ RemovalStep \/ SanctionStep \/ SessionStep

Spec == Init /\ [][Next]_vars

-----------------------------------------------------------------------------
(* Properties *)

(* A banned account has no session: no token in the Offender's hands, and  *)
(* none a login is about to sign, carries the current session version.     *)
(* signInUser reads the version before it asks for sanctions, and every    *)
(* ban, also the automatic one of evaluateStrikePolicy, raises it.         *)
NoSessionUnderBan ==
    Banned => /\ version \notin tokens
              /\ ~(login.step = "allowed" /\ login.version = version)

(* A request that is retried with its Idempotency-Key, after its answer    *)
(* was lost, issues nothing twice.                                         *)
OncePerKey ==
    \A i, j \in Issued : sanctions[i].key = sanctions[j].key /\ sanctions[i].key # None => i = j

(* The account has what the policy of the moment calls for. *)
ThresholdsMet ==
    LET strikes == Cardinality(LiveStrikes(sanctions'))
    IN /\ strikes >= policy.ban => InForceIn(sanctions', "temporary_ban")
       /\ strikes \in policy.posting..(policy.ban - 1)
            => InForceIn(sanctions', "posting_restriction")

(* A strike leaves the account with what the policy of that moment calls   *)
(* for, whatever was revoked or has lapsed before.                         *)
ThresholdsApplied ==
    [][\A i \in SanctionIds \ Issued :
          sanctions[i]' # None /\ sanctions[i]'.type = "strike" => ThresholdsMet]_vars
=============================================================================
