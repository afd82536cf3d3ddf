----------------------------- MODULE Invitations -----------------------------
(***************************************************************************)
(* Accounts and the invitations they are made with: the command that       *)
(* creates an administrator, the administrator's invitation codes, and     *)
(* registration, which makes an account and uses up the code in one        *)
(* transaction.  A registration that is refused rolls that transaction     *)
(* back and counts the attempt in a second one, so other requests, and a   *)
(* crash, may come between the two.                                        *)
(***************************************************************************)
EXTENDS Integers, FiniteSets

CONSTANTS
  Name,              \* user names
  InviteCode,        \* six-digit codes, issued by an administrator or guessed
  Bootstrap,         \* the mark of an account made by the command
  NoAccount, NoOne,
  MaxTries,          \* InviteService.max_attempts (5)
  MaxRefused         \* bound on refused registrations not yet counted

ASSUME InvitationsAssumption ==
  /\ Bootstrap \notin InviteCode
  /\ NoAccount \notin InviteCode \cup {Bootstrap}
  /\ NoOne \notin Name
  /\ MaxTries \in Nat \ {0}
  /\ MaxRefused \in Nat

VARIABLES
  account,    \* users.invite_code, by user name
  issued,     \* rows of invite_codes
  lapsed,     \* those whose expires_at has passed
  usedBy,     \* invite_codes.used_by
  tries,      \* invite_codes.attempts
  refused     \* refused registrations whose second transaction is still to come

inviteVars == <<account, issued, lapsed, usedBy, tries, refused>>

InviteTypeOK ==
  /\ account \in [Name -> InviteCode \cup {Bootstrap, NoAccount}]
  /\ issued \in SUBSET InviteCode
  /\ lapsed \in SUBSET InviteCode
  /\ usedBy \in [InviteCode -> Name \cup {NoOne}]
  /\ tries \in [InviteCode -> 0 .. MaxTries]
  /\ refused \in [InviteCode -> 0 .. MaxRefused]

InviteInit ==
  /\ account = [n \in Name |-> NoAccount]
  /\ issued = {}
  /\ lapsed = {}
  /\ usedBy = [c \in InviteCode |-> NoOne]
  /\ tries = [c \in InviteCode |-> 0]
  /\ refused = [c \in InviteCode |-> 0]

-----------------------------------------------------------------------------

Exists(n) == account[n] # NoAccount

AdminExists == \E n \in Name : account[n] = Bootstrap

(* locked_at is set by the attempt that reaches the limit, and no later    *)
(* attempt is counted.                                                     *)
Locked(c) == tries[c] >= MaxTries

(* The WHERE clause of the UPDATE in consume, with its earlier returns.    *)
Usable(c) == c \in issued /\ usedBy[c] = NoOne /\ ~ Locked(c) /\ c \notin lapsed

(* create-admin.                                                           *)
CreateAdmin(n) ==
  /\ ~ Exists(n)
  /\ account' = [account EXCEPT ![n] = Bootstrap]
  /\ UNCHANGED <<issued, lapsed, usedBy, tries, refused>>

(* create_invite_code.  The code drawn is unique among the stored ones; it  *)
(* is taken not to be one that a refused registration is just about to     *)
(* have counted (a chance of one in a million).                            *)
CreateInvite(c) ==
  /\ AdminExists
  /\ c \notin issued /\ refused[c] = 0
  /\ issued' = issued \cup {c}
  /\ UNCHANGED <<account, lapsed, usedBy, tries, refused>>

(* Thirty days pass; a code in use is not looked at again.                 *)
Lapse(c) ==
  /\ c \in issued \ lapsed /\ usedBy[c] = NoOne
  /\ lapsed' = lapsed \cup {c}
  /\ UNCHANGED <<account, issued, usedBy, tries, refused>>

(* register, accepted: the account and the use of the code in one commit.  *)
Register(n, c) ==
  /\ ~ Exists(n)
  /\ Usable(c)
  /\ account' = [account EXCEPT ![n] = c]
  /\ usedBy' = [usedBy EXCEPT ![c] = n]
  /\ UNCHANGED <<issued, lapsed, tries, refused>>

(* mutant: the transaction of a refused registration is not rolled back    *)
RefuseHalfway(n, c) ==
  /\ ~ Exists(n)
  /\ ~ Usable(c)
  /\ refused[c] < MaxRefused
  /\ refused' = [refused EXCEPT ![c] = @ + 1]
  /\ account' = [account EXCEPT ![n] = c]
  /\ UNCHANGED <<issued, lapsed, usedBy, tries>>

(* register, refused for its code: rolled back, to be counted.  A name      *)
(* that is taken is refused before the code is looked at.                  *)
Refuse(n, c) ==
  /\ ~ Exists(n)
  /\ ~ Usable(c)
  /\ refused[c] < MaxRefused
  /\ refused' = [refused EXCEPT ![c] = @ + 1]
  /\ UNCHANGED <<account, issued, lapsed, usedBy, tries>>

(* _record_failed_invite_attempt: consume without a user counts an attempt *)
(* on any stored code that is neither used nor locked.  Refuse has come     *)
(* before, so that of the codes still unused only expired ones are counted  *)
(* on and locked: the lock never bites on a code that is still good.        *)
CountRefused(c) ==
  /\ refused[c] > 0
  /\ refused' = [refused EXCEPT ![c] = @ - 1]
  /\ tries' = [tries EXCEPT ![c] =
                 IF c \in issued /\ usedBy[c] = NoOne /\ ~ Locked(c) THEN @ + 1 ELSE @]
  /\ UNCHANGED <<account, issued, lapsed, usedBy>>

(* The requests in progress are gone with the process.                     *)
ForgetRefused ==
  /\ refused' = [c \in InviteCode |-> 0]
  /\ UNCHANGED <<account, issued, lapsed, usedBy, tries>>

InviteNext ==
  \/ \E n \in Name : CreateAdmin(n)
  \/ \E c \in InviteCode : CreateInvite(c) \/ Lapse(c) \/ CountRefused(c)
  \/ \E n \in Name, c \in InviteCode : Register(n, c) \/ Refuse(n, c)

-----------------------------------------------------------------------------

(* An account and the invitation it was made with know each other: no code *)
(* makes two accounts, no refused registration leaves an account behind,   *)
(* and no code is used up without an account (register, consume).          *)
OneAccountPerInvite ==
  \A n \in Name, c \in InviteCode : account[n] = c <=> usedBy[c] = n
=============================================================================
