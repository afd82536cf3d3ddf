---------------------------- MODULE PasswordReset ----------------------------
(***************************************************************************)
(* Forgotten passwords: a code is stored and mailed outside the            *)
(* transaction, and retired again if it could not be sent; a verification  *)
(* spends 100-300 ms on bcrypt between reading the code and writing its    *)
(* verdict; administrators (a request) and operators (a command, in a      *)
(* process of its own) set passwords meanwhile.                            *)
(*                                                                         *)
(* Time runs in ticks of a minute, the window of the rate limiter and of   *)
(* the second sending.  The server's one connection is held by a           *)
(* verification from its first SELECT to its commit; the sqlite3 driver    *)
(* opens no transaction for a SELECT, so a command can commit in between.  *)
(***************************************************************************)
EXTENDS Invitations

CONSTANTS
  Address,           \* addresses requests come from
  Checkers,          \* server threads that run verify_and_reset
  Nobody,            \* owner of a code that is not made yet
  Operator,          \* mark of a password set by an administrator or operator
  MaxHits,           \* RateLimiter.max_per_minute (3)
  Ttl,               \* code_ttl_minutes (15), in ticks
  MaxAttempts,       \* max_attempts of a code (5)
  SendRetries,       \* send_retries of the clean-up (2)
  MaxNow, MaxCodes, MaxOverrides, MaxFaults      \* bounds

ASSUME PasswordResetAssumption ==
  /\ Nobody \notin Name
  /\ Operator \notin Nat
  /\ MaxHits \in Nat /\ Ttl \in Nat \ {0} /\ MaxAttempts \in Nat \ {0}
  /\ SendRetries \in Nat /\ MaxNow \in Nat /\ MaxCodes \in Nat
  /\ MaxOverrides \in Nat /\ MaxFaults \in Nat

VARIABLES
  now,        \* minutes since the start
  hits,       \* RateLimiter._hits of this minute
  reachable,  \* accounts with an enabled email channel
  made,       \* password_reset_codes: highest id so far
  owner, born, attempts, retired,      \* user_id, created_at, attempts, used_at # NULL
  mail,       \* how far the request that made the code has got
  clears,     \* tries to retire a code that was not sent, while they fail
  check,      \* the code and its attempts as a verification read them
  password,   \* what set the password last: Operator, a code, 0 for none
  wrong,      \* history: wrong guesses answered for a code
  barred,     \* history: codes that were there when the password was set over them
  overtaken,  \* history: codes a command retired while they were being verified
  overrides, faults

codeVars  == <<made, owner, born, attempts, retired>>
ghostVars == <<wrong, barred, overtaken>>
resetVars == <<now, hits, reachable, codeVars, mail, clears, check, password,
               ghostVars, overrides, faults>>
vars == <<inviteVars, resetVars>>

Id == 1 .. MaxCodes

NoCheck == [code |-> 0, seen |-> 0]

ResetTypeOK ==
  /\ now \in 0 .. MaxNow
  /\ hits \in [Address -> 0 .. MaxHits]
  /\ reachable \in SUBSET Name
  /\ made \in 0 .. MaxCodes
  /\ owner \in [Id -> Name \cup {Nobody}]
  /\ born \in [Id -> 0 .. MaxNow]
  /\ attempts \in [Id -> 0 .. MaxAttempts]
  /\ retired \in [Id -> BOOLEAN]
  /\ mail \in [Id -> {"none", "sending", "clearing", "done"}]
  /\ clears \in [Id -> 0 .. SendRetries]
  /\ check \in [Checkers -> [code : 0 .. MaxCodes, seen : 0 .. MaxAttempts]]
  /\ password \in [Name -> (0 .. MaxCodes) \cup {Operator}]
  /\ wrong \in [Id -> Nat]
  /\ barred \in SUBSET Id
  /\ overtaken \in SUBSET Id
  /\ overrides \in 0 .. MaxOverrides /\ faults \in 0 .. MaxFaults

TypeOK == InviteTypeOK /\ ResetTypeOK

Init ==
  /\ InviteInit
  /\ now = 0
  /\ hits = [a \in Address |-> 0]
  /\ reachable = {}
  /\ made = 0
  /\ owner = [c \in Id |-> Nobody]
  /\ born = [c \in Id |-> 0]
  /\ attempts = [c \in Id |-> 0]
  /\ retired = [c \in Id |-> FALSE]
  /\ mail = [c \in Id |-> "none"]
  /\ clears = [c \in Id |-> 0]
  /\ check = [v \in Checkers |-> NoCheck]
  /\ password = [n \in Name |-> 0]
  /\ wrong = [c \in Id |-> 0]
  /\ barred = {}
  /\ overtaken = {}
  /\ overrides = 0 /\ faults = 0

-----------------------------------------------------------------------------

ServerFreeAlways == TRUE     \* mutant: a connection for every session

(* The server's only connection is free: no verification is under way.     *)
ServerFree == \A v \in Checkers : check[v] = NoCheck

CodesOf(n) == {c \in Id : owner[c] = n}

(* used_at IS NULL.                                                        *)
Active(n) == {c \in CodesOf(n) : ~ retired[c]}

(* ORDER BY id DESC, first row.                                            *)
Newest(n, c) == c \in Active(n) /\ \A d \in Active(n) : d <= c

(* No active code is younger than the resend interval of one minute.       *)
MaySendAgain(n) == \A c \in Id : Newest(n, c) => born[c] < now

Tick ==
  /\ now < MaxNow
  /\ now' = now + 1
  /\ hits' = [a \in Address |-> 0]
  /\ UNCHANGED <<inviteVars, reachable, codeVars, mail, clears, check, password,
                 ghostVars, overrides, faults>>

(* save_channel, type email.                                               *)
AddChannel(n) ==
  /\ ServerFree
  /\ Exists(n)
  /\ reachable' = reachable \cup {n}
  /\ UNCHANGED <<inviteVars, now, hits, codeVars, mail, clears, check, password,
                 ghostVars, overrides, faults>>

Hit(a) == hits[a] < MaxHits /\ hits' = [hits EXCEPT ![a] = @ + 1]

(* request_reset, answered alike but without a code: no such user, no      *)
(* channel, or a code sent less than a minute ago.                         *)
RequestInVain(a, n) ==
  /\ Hit(a)
  /\ ServerFree
  /\ ~ Exists(n) \/ n \notin reachable \/ ~ MaySendAgain(n)
  /\ UNCHANGED <<inviteVars, now, reachable, codeVars, mail, clears, check,
                 password, ghostVars, overrides, faults>>

(* mutant: the earlier codes stay active                                   *)
RequestBeside(a, n) ==
  /\ Hit(a)
  /\ ServerFree
  /\ Exists(n) /\ n \in reachable /\ MaySendAgain(n)
  /\ made < MaxCodes
  /\ made' = made + 1
  /\ owner' = [owner EXCEPT ![made + 1] = n]
  /\ born' = [born EXCEPT ![made + 1] = now]
  /\ mail' = [mail EXCEPT ![made + 1] = "sending"]
  /\ UNCHANGED <<inviteVars, now, reachable, attempts, retired, clears, check,
                 password, ghostVars, overrides, faults>>

(* request_reset, transaction A: the earlier codes are retired and a new    *)
(* one stored in one commit; the mail goes out afterwards.                 *)
Request(a, n) ==
  /\ Hit(a)
  /\ ServerFree
  /\ Exists(n) /\ n \in reachable /\ MaySendAgain(n)
  /\ made < MaxCodes
  /\ made' = made + 1
  /\ owner' = [owner EXCEPT ![made + 1] = n]
  /\ born' = [born EXCEPT ![made + 1] = now]
  /\ retired' = [c \in Id |-> retired[c] \/ c \in CodesOf(n)]
  /\ mail' = [mail EXCEPT ![made + 1] = "sending"]
  /\ UNCHANGED <<inviteVars, now, reachable, attempts, clears, check, password,
                 ghostVars, overrides, faults>>

(* EmailChannel.send reports SENT, or not (the mail may have arrived).      *)
SendEnds(c) ==
  /\ mail[c] = "sending"
  /\ \E next \in {"done", "clearing"} : mail' = [mail EXCEPT ![c] = next]
  /\ UNCHANGED <<inviteVars, now, hits, reachable, codeVars, clears, check,
                 password, ghostVars, overrides, faults>>

(* mutant: the clean-up retires whatever code the user has                 *)
ClearAll(c) ==
  /\ mail[c] = "clearing"
  /\ ServerFree
  /\ retired' = [d \in Id |-> retired[d] \/ d \in CodesOf(owner[c])]
  /\ mail' = [mail EXCEPT ![c] = "done"]
  /\ clears' = [clears EXCEPT ![c] = 0]
  /\ UNCHANGED <<inviteVars, now, hits, reachable, made, owner, born, attempts,
                 check, password, ghostVars, overrides, faults>>

(* _invalidate_with_retry, transaction B: the code, by its id.             *)
Clear(c) ==
  /\ mail[c] = "clearing"
  /\ ServerFree
  /\ retired' = [retired EXCEPT ![c] = TRUE]
  /\ mail' = [mail EXCEPT ![c] = "done"]
  /\ clears' = [clears EXCEPT ![c] = 0]
  /\ UNCHANGED <<inviteVars, now, hits, reachable, made, owner, born, attempts,
                 check, password, ghostVars, overrides, faults>>

(* ... which fails: another try, or the code stays as it is.               *)
ClearFails(c) ==
  /\ mail[c] = "clearing"
  /\ IF clears[c] < SendRetries
     THEN clears' = [clears EXCEPT ![c] = @ + 1] /\ UNCHANGED mail
     ELSE mail' = [mail EXCEPT ![c] = "done"] /\ clears' = [clears EXCEPT ![c] = 0]
  /\ UNCHANGED <<inviteVars, now, hits, reachable, codeVars, check, password,
                 ghostVars, overrides, faults>>

-----------------------------------------------------------------------------
(* verify_and_reset.                                                       *)

(* mutant: the attempts are not looked at                                  *)
ReadCodeAgain(v, n) ==
  /\ ServerFree
  /\ Exists(n)
  /\ \E c \in Id :
       /\ Newest(n, c)
       /\ now < born[c] + Ttl
       /\ check' = [check EXCEPT ![v] = [code |-> c, seen |-> attempts[c]]]
  /\ UNCHANGED <<inviteVars, now, hits, reachable, codeVars, mail, clears,
                 password, ghostVars, overrides, faults>>

(* Up to the call of hash_password: the newest active code, if it is good. *)
ReadCode(v, n) ==
  /\ ServerFree
  /\ Exists(n)
  /\ \E c \in Id :
       /\ Newest(n, c)
       /\ now < born[c] + Ttl
       /\ attempts[c] < MaxAttempts
       /\ check' = [check EXCEPT ![v] = [code |-> c, seen |-> attempts[c]]]
  /\ UNCHANGED <<inviteVars, now, hits, reachable, codeVars, mail, clears,
                 password, ghostVars, overrides, faults>>

(* The guess was wrong: the attempt is counted on what was read.           *)
GuessWrong(v) ==
  /\ check[v] # NoCheck
  /\ LET c == check[v].code IN
       /\ attempts' = [attempts EXCEPT ![c] = check[v].seen + 1]
       /\ wrong' = [wrong EXCEPT ![c] = @ + 1]
  /\ check' = [check EXCEPT ![v] = NoCheck]
  /\ UNCHANGED <<inviteVars, now, hits, reachable, made, owner, born, retired,
                 mail, clears, password, barred, overtaken, overrides, faults>>

(* The guess was right: password and code in one commit.                   *)
GuessRight(v) ==
  /\ check[v] # NoCheck
  /\ LET c == check[v].code IN
       /\ password' = [password EXCEPT ![owner[c]] = c]
       /\ retired' = [retired EXCEPT ![c] = TRUE]
  /\ check' = [check EXCEPT ![v] = NoCheck]
  /\ UNCHANGED <<inviteVars, now, hits, reachable, made, owner, born, attempts,
                 mail, clears, ghostVars, overrides, faults>>

-----------------------------------------------------------------------------
(* Passwords set by others.                                                *)

BeingChecked == {check[v].code : v \in Checkers} \cap Id

(* mutant: the codes are left as they are                                  *)
OverrideLeaves(n) ==
  /\ Exists(n)
  /\ overrides < MaxOverrides
  /\ password' = [password EXCEPT ![n] = Operator]
  /\ barred' = barred \cup (CodesOf(n) \ BeingChecked)
  /\ overtaken' = overtaken \cup (Active(n) \cap BeingChecked)
  /\ overrides' = overrides + 1
  /\ UNCHANGED <<inviteVars, now, hits, reachable, codeVars, mail, clears, check,
                 wrong, faults>>

(* The new password and invalidate_active_codes in one commit.             *)
Override(n) ==
  /\ Exists(n)
  /\ overrides < MaxOverrides
  /\ password' = [password EXCEPT ![n] = Operator]
  /\ retired' = [c \in Id |-> retired[c] \/ c \in CodesOf(n)]
  /\ barred' = barred \cup (CodesOf(n) \ BeingChecked)
  /\ overtaken' = overtaken \cup (Active(n) \cap BeingChecked)
  /\ overrides' = overrides + 1
  /\ UNCHANGED <<inviteVars, now, hits, reachable, made, owner, born, attempts,
                 mail, clears, check, wrong, faults>>

(* admin_reset_password: a request, with the server's connection.          *)
AdminReset(n) == ServerFree /\ AdminExists /\ Override(n)

(* The reset-password command, at any time.                                *)
CommandReset(n) == Override(n)

(* The server process dies and is started again.  A code whose mail was    *)
(* under way stays as it is; the limiter starts afresh.                    *)
Restart ==
  /\ faults < MaxFaults
  /\ faults' = faults + 1
  /\ hits' = [a \in Address |-> 0]
  /\ mail' = [c \in Id |-> IF mail[c] = "none" THEN "none" ELSE "done"]
  /\ clears' = [c \in Id |-> 0]
  /\ check' = [v \in Checkers |-> NoCheck]
  /\ ForgetRefused
  /\ UNCHANGED <<now, reachable, codeVars, password, ghostVars, overrides>>

(* Registration and create_invite_code are requests as well.               *)
InviteStep ==
  \/ \E n \in Name : CreateAdmin(n)
  \/ \E c \in InviteCode : Lapse(c)
  \/ /\ ServerFree
     /\ \/ \E c \in InviteCode : CreateInvite(c) \/ CountRefused(c)
        \/ \E n \in Name, c \in InviteCode : Register(n, c) \/ Refuse(n, c)

Next ==
  \/ InviteStep /\ UNCHANGED resetVars
  \/ Tick \/ Restart
  \/ \E n \in Name : AddChannel(n) \/ AdminReset(n) \/ CommandReset(n)
  \/ \E a \in Address, n \in Name : RequestInVain(a, n) \/ Request(a, n)
  \/ \E c \in Id : SendEnds(c) \/ Clear(c) \/ ClearFails(c)
  \/ \E v \in Checkers, n \in Name : ReadCode(v, n)
  \/ \E v \in Checkers : GuessWrong(v) \/ GuessRight(v)

Spec == Init /\ [][Next]_vars

-----------------------------------------------------------------------------

(* At most one code of a user is active, whatever requests, sendings and   *)
(* clean-ups overlap (models/password_reset.py says so of the table).      *)
AtMostOneActive ==
  \A n \in Name : \A c, d \in Active(n) : c = d

(* Every wrong guess is counted, also when two verifications overlap, so   *)
(* that a code stands MaxAttempts of them and no more (verify_and_reset).  *)
GuessesAreCounted ==
  \A c \in Id : wrong[c] = attempts[c] /\ wrong[c] <= MaxAttempts

(* What sets a password is an active code: one that was used, replaced or  *)
(* cleared while its verification was busy hashing opens nothing, unless a *)
(* command of another process retired it at that very moment.              *)
OnlyLiveCodesOpen ==
  [][\A n \in Name, c \in Id :
       password'[n] = c /\ password[n] # c => ~ retired[c] \/ c \in overtaken]_vars

(* An administrator's or operator's password stands against every code     *)
(* that was there before and was not being verified already: it cannot be  *)
(* changed back with one (invalidate_active_codes).                        *)
OverrideStands ==
  [][\A n \in Name, c \in barred : password'[n] = c => password[n] = c]_vars

(* A code loses its force for a reason: its own mail failed, a newer one   *)
(* was made for its owner, it was used, or its owner's password was set    *)
(* over it.  A late clean-up of an earlier code spares the one the user    *)
(* holds by then (_invalidate_with_retry works by id).                     *)
RetiredForAReason ==
  [][\A c \in Id : ~ retired[c] /\ retired'[c] =>
       \/ mail[c] = "clearing" /\ mail'[c] = "done"
       \/ made' = made + 1 /\ owner'[made'] = owner[c]
       \/ password'[owner[c]] = c
       \/ password'[owner[c]] = Operator /\ overrides' # overrides]_vars
=============================================================================
