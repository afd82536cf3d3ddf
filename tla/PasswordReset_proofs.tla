------------------------ MODULE PasswordReset_proofs ------------------------
(***************************************************************************)
(* Accounts and password codes for any number of names, invitations,       *)
(* codes, verifications and overrides: the pairing of accounts with        *)
(* invitations, at most one active code, counted guesses, and that only a  *)
(* live code sets a password.  The inductive invariant rests on the one    *)
(* connection: at most one verification is between its read and its write, *)
(* and what it read still holds, but for a command of another process.     *)
(***************************************************************************)
EXTENDS PasswordReset, TLAPS

InviteInv == InviteTypeOK /\ OneAccountPerInvite

(* The codes made so far have an owner, the others have none.              *)
MadeInOrder ==
  \A c \in Id : IF c <= made THEN owner[c] \in Name ELSE owner[c] = Nobody

(* The one verification under way: what it read is still so, but for a     *)
(* command.                                                                *)
CheckHolds ==
  \A v \in Checkers : check[v] # NoCheck =>
    /\ check[v].code \in 1 .. made
    /\ check[v].seen = attempts[check[v].code]
    /\ check[v].seen < MaxAttempts
    /\ ~ retired[check[v].code] \/ check[v].code \in overtaken
    /\ \A u \in Checkers : u # v => check[u] = NoCheck

BarredAreShut ==
  \A c \in barred : retired[c] /\ \A v \in Checkers : check[v].code # c

ResetInv ==
  /\ ResetTypeOK
  /\ MadeInOrder /\ AtMostOneActive /\ GuessesAreCounted
  /\ CheckHolds /\ BarredAreShut

IInv == InviteInv /\ ResetInv

-----------------------------------------------------------------------------
(* Invitations.                                                            *)

LEMMA InviteInitOK == InviteInit => InviteInv
BY InvitationsAssumption
   DEF InviteInit, InviteInv, InviteTypeOK, OneAccountPerInvite

LEMMA InviteKept ==
  ASSUME InviteInv, InviteNext \/ ForgetRefused \/ UNCHANGED inviteVars
  PROVE  InviteInv'
<1> USE InvitationsAssumption DEF InviteInv
<1>1. ASSUME NEW n \in Name, CreateAdmin(n) PROVE InviteInv'
  BY <1>1 DEF CreateAdmin, Exists, InviteTypeOK, OneAccountPerInvite
<1>2. ASSUME NEW c \in InviteCode, CreateInvite(c) PROVE InviteInv'
  BY <1>2 DEF CreateInvite, InviteTypeOK, OneAccountPerInvite
<1>3. ASSUME NEW c \in InviteCode, Lapse(c) PROVE InviteInv'
  BY <1>3 DEF Lapse, InviteTypeOK, OneAccountPerInvite
<1>4. ASSUME NEW c \in InviteCode, CountRefused(c) PROVE InviteInv'
  BY <1>4 DEF CountRefused, InviteTypeOK, OneAccountPerInvite, Locked
<1>5. ASSUME NEW n \in Name, NEW c \in InviteCode, Register(n, c) PROVE InviteInv'
  <2>1. InviteTypeOK'
    BY <1>5 DEF Register, InviteTypeOK
  <2>2. account[n] = NoAccount /\ usedBy[c] = NoOne
    BY <1>5 DEF Register, Exists, Usable
  <2>3. OneAccountPerInvite'
    BY <1>5, <2>2 DEF Register, InviteTypeOK, OneAccountPerInvite
  <2> QED BY <2>1, <2>3
<1>6. ASSUME NEW n \in Name, NEW c \in InviteCode, Refuse(n, c) PROVE InviteInv'
  BY <1>6 DEF Refuse, Usable, InviteTypeOK, OneAccountPerInvite
<1>7. CASE ForgetRefused
  BY <1>7 DEF ForgetRefused, InviteTypeOK, OneAccountPerInvite
<1>8. CASE UNCHANGED inviteVars
  BY <1>8 DEF inviteVars, InviteTypeOK, OneAccountPerInvite
<1> QED BY <1>1, <1>2, <1>3, <1>4, <1>5, <1>6, <1>7, <1>8 DEF InviteNext

(* Every step moves the invitations as Invitations allows.                 *)
LEMMA NextInvites ==
  ASSUME Next \/ UNCHANGED vars
  PROVE  InviteNext \/ ForgetRefused \/ UNCHANGED inviteVars
BY DEF Next, InviteStep, InviteNext, vars, Tick, Restart, AddChannel, AdminReset,
       CommandReset, Override, RequestInVain, Request, SendEnds, Clear, ClearFails,
       ReadCode, GuessWrong, GuessRight

-----------------------------------------------------------------------------
(* Codes.                                                                  *)

LEMMA ResetInitOK == Init => ResetInv
BY PasswordResetAssumption, Z3
   DEF Init, ResetInv, ResetTypeOK, Id, NoCheck, MadeInOrder, AtMostOneActive,
       Active, CodesOf, GuessesAreCounted, CheckHolds, BarredAreShut

LEMMA NoneChecked ==
  ASSUME ServerFree, NEW v \in Checkers
  PROVE  check[v].code = 0
BY DEF ServerFree, NoCheck

(* Steps that leave the codes, the verifications and the histories alone.  *)
LEMMA Aside ==
  ASSUME ResetInv, ResetTypeOK', UNCHANGED <<codeVars, check, ghostVars>>
  PROVE  ResetInv'
BY DEF ResetInv, codeVars, ghostVars, MadeInOrder, AtMostOneActive, Active, CodesOf,
       GuessesAreCounted, CheckHolds, BarredAreShut

LEMMA TickKeeps == ASSUME ResetInv, Tick PROVE ResetInv'
<1>1. ResetTypeOK'
  BY PasswordResetAssumption
     DEF Tick, ResetInv, ResetTypeOK, codeVars, ghostVars
<1> QED BY <1>1, Aside DEF Tick

LEMMA AddChannelKeeps ==
  ASSUME ResetInv, NEW n \in Name, AddChannel(n) PROVE ResetInv'
<1>1. ResetTypeOK'
  BY DEF AddChannel, ResetInv, ResetTypeOK, codeVars, ghostVars
<1> QED BY <1>1, Aside DEF AddChannel

LEMMA RequestInVainKeeps ==
  ASSUME ResetInv, NEW a \in Address, NEW n \in Name, RequestInVain(a, n) PROVE ResetInv'
<1>1. ResetTypeOK'
  BY PasswordResetAssumption
     DEF RequestInVain, Hit, ResetInv, ResetTypeOK, codeVars, ghostVars
<1> QED BY <1>1, Aside DEF RequestInVain

LEMMA SendEndsKeeps ==
  ASSUME ResetInv, NEW c \in Id, SendEnds(c) PROVE ResetInv'
<1>1. ResetTypeOK'
  BY DEF SendEnds, ResetInv, ResetTypeOK, codeVars, ghostVars
<1> QED BY <1>1, Aside DEF SendEnds

LEMMA ClearFailsKeeps ==
  ASSUME ResetInv, NEW c \in Id, ClearFails(c) PROVE ResetInv'
<1>1. ResetTypeOK'
  BY PasswordResetAssumption
     DEF ClearFails, ResetInv, ResetTypeOK, codeVars, ghostVars
<1> QED BY <1>1, Aside DEF ClearFails

LEMMA RestartKeeps == ASSUME ResetInv, Restart PROVE ResetInv'
<1>1. ResetTypeOK'
  BY PasswordResetAssumption
     DEF Restart, ResetInv, ResetTypeOK, codeVars, ghostVars, NoCheck
<1>2. MadeInOrder' /\ AtMostOneActive' /\ GuessesAreCounted'
  BY DEF Restart, ResetInv, codeVars, ghostVars, MadeInOrder, AtMostOneActive, Active,
         CodesOf, GuessesAreCounted
<1>3. \A v \in Checkers : check'[v] = NoCheck
  BY DEF Restart
<1>4. CheckHolds' /\ BarredAreShut'
  BY <1>3, PasswordResetAssumption
     DEF Restart, ResetInv, ResetTypeOK, codeVars, ghostVars, CheckHolds, BarredAreShut,
         NoCheck, Id
<1> QED BY <1>1, <1>2, <1>4 DEF ResetInv

(* A step that, with no verification under way, only retires codes.        *)
LEMMA Retiring ==
  ASSUME ResetInv, ResetTypeOK', ServerFree,
         UNCHANGED <<made, owner, attempts, wrong, check, barred>>,
         \A c \in Id : retired[c] => retired'[c]
  PROVE  ResetInv'
BY DEF ResetInv, ResetTypeOK, ServerFree, MadeInOrder, AtMostOneActive, Active, CodesOf,
       GuessesAreCounted, CheckHolds, BarredAreShut

LEMMA ClearKeeps ==
  ASSUME ResetInv, NEW c \in Id, Clear(c) PROVE ResetInv'
<1>1. ResetTypeOK'
  BY PasswordResetAssumption DEF Clear, ResetInv, ResetTypeOK, ghostVars
<1>2. \A d \in Id : retired[d] => retired'[d]
  BY DEF Clear, ResetInv, ResetTypeOK
<1> QED BY <1>1, <1>2, Retiring DEF Clear, ghostVars

LEMMA RequestKeeps ==
  ASSUME ResetInv, NEW a \in Address, NEW n \in Name, Request(a, n) PROVE ResetInv'
<1> USE PasswordResetAssumption
<1>1. made + 1 \in Id /\ made \in Nat
  BY DEF Request, ResetInv, ResetTypeOK, Id
<1>2. ResetTypeOK'
  BY <1>1 DEF Request, Hit, ResetInv, ResetTypeOK, ghostVars
<1>3. /\ owner[made + 1] = Nobody
      /\ \A c \in Id : owner'[c] = IF c = made + 1 THEN n ELSE owner[c]
      /\ \A c \in Id : retired'[c] <=> retired[c] \/ owner[c] = n
  <2>1. owner[made + 1] = Nobody
    BY <1>1 DEF ResetInv, MadeInOrder
  <2>2. \A c \in Id : owner'[c] = IF c = made + 1 THEN n ELSE owner[c]
    BY <1>1 DEF Request, ResetInv, ResetTypeOK
  <2>3. \A c \in Id : retired'[c] <=> retired[c] \/ owner[c] = n
    BY DEF Request, CodesOf
  <2> QED BY <2>1, <2>2, <2>3
<1>4. MadeInOrder'
  BY <1>1, <1>3 DEF Request, ResetInv, MadeInOrder, Id
<1>5. AtMostOneActive'
  <2> SUFFICES ASSUME NEW m \in Name, NEW c \in Active(m)', NEW d \in Active(m)'
               PROVE  c = d
    BY DEF AtMostOneActive
  <2>1. /\ c \in Id /\ owner'[c] = m /\ ~ retired'[c]
        /\ d \in Id /\ owner'[d] = m /\ ~ retired'[d]
    BY DEF Active, CodesOf
  <2>2. CASE m = n
    BY <2>1, <2>2, <1>3
  <2>3. CASE m # n
    <3>1. owner[c] = m /\ owner[d] = m /\ ~ retired[c] /\ ~ retired[d]
      BY <2>1, <2>3, <1>3
    <3> QED BY <2>1, <3>1 DEF ResetInv, AtMostOneActive, Active, CodesOf
  <2> QED BY <2>2, <2>3
<1>6. GuessesAreCounted'
  BY DEF Request, ghostVars, ResetInv, GuessesAreCounted
<1>7. CheckHolds' /\ BarredAreShut'
  BY <1>3 DEF Request, ghostVars, ResetInv, ResetTypeOK, ServerFree, CheckHolds, BarredAreShut
<1> QED BY <1>2, <1>4, <1>5, <1>6, <1>7 DEF ResetInv

LEMMA ReadCodeKeeps ==
  ASSUME ResetInv, NEW v \in Checkers, NEW n \in Name, ReadCode(v, n) PROVE ResetInv'
<1> USE PasswordResetAssumption
<1>1. PICK c \in Id :
        /\ Newest(n, c) /\ attempts[c] < MaxAttempts
        /\ check' = [check EXCEPT ![v] = [code |-> c, seen |-> attempts[c]]]
  BY DEF ReadCode
<1>2. owner[c] = n /\ ~ retired[c] /\ n # Nobody
  BY <1>1 DEF Newest, Active, CodesOf
<1>3. c \in 1 .. made
  BY <1>2 DEF ResetInv, ResetTypeOK, MadeInOrder, Id
<1>4. UNCHANGED <<made, owner, attempts, retired, wrong, barred, overtaken>>
  BY DEF ReadCode, codeVars, ghostVars
<1>5. ResetTypeOK'
  <2>1. check' \in [Checkers -> [code : 0 .. MaxCodes, seen : 0 .. MaxAttempts]]
    BY <1>1 DEF ResetInv, ResetTypeOK, Id
  <2> QED BY <2>1 DEF ReadCode, codeVars, ghostVars, ResetInv, ResetTypeOK
<1>6. \A u \in Checkers :
        check'[u] = IF u = v THEN [code |-> c, seen |-> attempts[c]] ELSE NoCheck
  BY <1>1 DEF ReadCode, ServerFree, ResetInv, ResetTypeOK
<1>7. CheckHolds'
  BY <1>1, <1>2, <1>3, <1>4, <1>6 DEF CheckHolds
<1>8. BarredAreShut'
  <2> SUFFICES ASSUME NEW d \in barred PROVE retired[d] /\ \A u \in Checkers : check'[u].code # d
    BY <1>4 DEF BarredAreShut
  <2>1. retired[d] /\ d # c /\ d # 0
    <3>1. retired[d]
      BY DEF ResetInv, BarredAreShut
    <3>2. d # 0
      BY DEF ResetInv, ResetTypeOK, Id
    <3> QED BY <1>2, <3>1, <3>2
  <2>2. ASSUME NEW u \in Checkers PROVE check'[u].code \in {c, 0}
    BY <1>6 DEF NoCheck
  <2> QED BY <2>1, <2>2
<1>9. MadeInOrder' /\ AtMostOneActive' /\ GuessesAreCounted'
  BY <1>4 DEF ResetInv, MadeInOrder, AtMostOneActive, Active, CodesOf, GuessesAreCounted
<1> QED BY <1>5, <1>7, <1>8, <1>9 DEF ResetInv

(* The verification that writes its verdict is the only one.               *)
LEMMA OnlyCheck ==
  ASSUME ResetInv, NEW v \in Checkers, check[v] # NoCheck,
         check' = [check EXCEPT ![v] = NoCheck]
  PROVE  /\ check[v].code \in Id /\ owner[check[v].code] \in Name
         /\ \A u \in Checkers : check'[u] = NoCheck
BY PasswordResetAssumption
   DEF ResetInv, ResetTypeOK, CheckHolds, MadeInOrder, Id

LEMMA GuessWrongKeeps ==
  ASSUME ResetInv, NEW v \in Checkers, GuessWrong(v) PROVE ResetInv'
<1> USE PasswordResetAssumption
<1> DEFINE c == check[v].code
<1>1. c \in Id /\ \A u \in Checkers : check'[u] = NoCheck
  BY OnlyCheck DEF GuessWrong
<1>2. check[v].seen = attempts[c] /\ attempts[c] < MaxAttempts /\ wrong[c] = attempts[c]
  BY <1>1 DEF GuessWrong, ResetInv, CheckHolds, GuessesAreCounted
<1>3. /\ attempts' = [attempts EXCEPT ![c] = attempts[c] + 1]
      /\ wrong' = [wrong EXCEPT ![c] = wrong[c] + 1]
  BY <1>2 DEF GuessWrong
<1>4. UNCHANGED <<made, owner, retired, barred, overtaken>>
  BY DEF GuessWrong
<1> HIDE DEF c
<1>5. ResetTypeOK'
  <2>1. /\ attempts' \in [Id -> 0 .. MaxAttempts] /\ wrong' \in [Id -> Nat]
    BY <1>1, <1>2, <1>3 DEF ResetInv, ResetTypeOK
  <2>2. check' \in [Checkers -> [code : 0 .. MaxCodes, seen : 0 .. MaxAttempts]]
    BY DEF GuessWrong, NoCheck, ResetInv, ResetTypeOK
  <2> QED BY <2>1, <2>2 DEF GuessWrong, ResetInv, ResetTypeOK
<1>6. GuessesAreCounted'
  BY <1>1, <1>2, <1>3 DEF ResetInv, ResetTypeOK, GuessesAreCounted
<1>7. CheckHolds' /\ BarredAreShut'
  <2>1. CheckHolds'
    BY <1>1 DEF CheckHolds
  <2>2. ASSUME NEW d \in barred PROVE retired'[d] /\ d # 0
    BY <1>4 DEF ResetInv, ResetTypeOK, BarredAreShut, Id
  <2>3. BarredAreShut'
    BY <1>1, <1>4, <2>2 DEF BarredAreShut, NoCheck
  <2> QED BY <2>1, <2>3
<1>8. MadeInOrder' /\ AtMostOneActive'
  BY <1>4 DEF ResetInv, MadeInOrder, AtMostOneActive, Active, CodesOf
<1> QED BY <1>5, <1>6, <1>7, <1>8 DEF ResetInv

LEMMA GuessRightKeeps ==
  ASSUME ResetInv, NEW v \in Checkers, GuessRight(v) PROVE ResetInv'
<1> USE PasswordResetAssumption
<1> DEFINE c == check[v].code
<1>1. c \in Id /\ owner[c] \in Name /\ \A u \in Checkers : check'[u] = NoCheck
  BY OnlyCheck DEF GuessRight
<1>2. /\ retired' = [retired EXCEPT ![c] = TRUE]
      /\ password' = [password EXCEPT ![owner[c]] = c]
  BY DEF GuessRight
<1>3. UNCHANGED <<made, owner, attempts, wrong, barred, overtaken>>
  BY DEF GuessRight, ghostVars
<1> HIDE DEF c
<1>4. ResetTypeOK'
  <2>1. password' \in [Name -> (0 .. MaxCodes) \cup {Operator}] /\ retired' \in [Id -> BOOLEAN]
    BY <1>1, <1>2 DEF ResetInv, ResetTypeOK, Id
  <2>2. check' \in [Checkers -> [code : 0 .. MaxCodes, seen : 0 .. MaxAttempts]]
    BY DEF GuessRight, NoCheck, ResetInv, ResetTypeOK
  <2> QED BY <2>1, <2>2 DEF GuessRight, ghostVars, ResetInv, ResetTypeOK
<1>5. \A d \in Id : retired[d] => retired'[d]
  BY <1>2 DEF ResetInv, ResetTypeOK
<1>6. CheckHolds' /\ BarredAreShut'
  <2>1. CheckHolds'
    BY <1>1 DEF CheckHolds
  <2>2. ASSUME NEW d \in barred PROVE retired'[d] /\ d # 0
    BY <1>5 DEF ResetInv, ResetTypeOK, BarredAreShut, Id
  <2>3. BarredAreShut'
    BY <1>1, <1>3, <2>2 DEF BarredAreShut, NoCheck
  <2> QED BY <2>1, <2>3
<1>7. MadeInOrder' /\ AtMostOneActive' /\ GuessesAreCounted'
  BY <1>3, <1>5 DEF ResetInv, MadeInOrder, AtMostOneActive, Active, CodesOf, GuessesAreCounted
<1> QED BY <1>4, <1>6, <1>7 DEF ResetInv

LEMMA OverrideKeeps ==
  ASSUME ResetInv, NEW n \in Name, Override(n) PROVE ResetInv'
<1> USE PasswordResetAssumption
<1>1. \A c \in Id : retired'[c] <=> retired[c] \/ owner[c] = n
  BY DEF Override, CodesOf
<1>2. UNCHANGED <<made, owner, attempts, wrong, check>>
  BY DEF Override
<1>3. ResetTypeOK'
  BY DEF Override, ResetInv, ResetTypeOK, CodesOf, Active
<1>4. MadeInOrder' /\ AtMostOneActive' /\ GuessesAreCounted'
  BY <1>1, <1>2 DEF ResetInv, MadeInOrder, AtMostOneActive, Active, CodesOf, GuessesAreCounted
<1>5. CheckHolds'
  <2> SUFFICES ASSUME NEW v \in Checkers, check[v] # NoCheck
               PROVE  ~ retired'[check[v].code] \/ check[v].code \in overtaken'
    BY <1>2 DEF ResetInv, CheckHolds
  <2>1. check[v].code \in Id /\ (~ retired[check[v].code] \/ check[v].code \in overtaken)
    BY DEF ResetInv, ResetTypeOK, CheckHolds, Id
  <2>2. check[v].code \in BeingChecked
    BY <2>1 DEF BeingChecked
  <2> QED BY <1>1, <2>1, <2>2 DEF Override, Active, CodesOf
<1>6. BarredAreShut'
  BY <1>1, <1>2 DEF Override, ResetInv, ResetTypeOK, BarredAreShut, BeingChecked, CodesOf
<1> QED BY <1>3, <1>4, <1>5, <1>6 DEF ResetInv

LEMMA NextKeeps ==
  ASSUME IInv, Next \/ UNCHANGED vars PROVE IInv'
<1>1. InviteInv'
  BY NextInvites, InviteKept DEF IInv
<1>2. ResetInv'
  <2> USE DEF IInv
  <2>1. CASE UNCHANGED resetVars
    <3>1. ResetTypeOK'
      BY <2>1 DEF resetVars, codeVars, ghostVars, ResetInv, ResetTypeOK
    <3> QED BY <2>1, <3>1, Aside DEF resetVars
  <2>2. CASE Tick \/ Restart
    BY <2>2, TickKeeps, RestartKeeps
  <2>3. ASSUME NEW n \in Name, AddChannel(n) \/ AdminReset(n) \/ CommandReset(n)
        PROVE  ResetInv'
    BY <2>3, AddChannelKeeps, OverrideKeeps DEF AdminReset, CommandReset
  <2>4. ASSUME NEW a \in Address, NEW n \in Name, RequestInVain(a, n) \/ Request(a, n)
        PROVE  ResetInv'
    BY <2>4, RequestInVainKeeps, RequestKeeps
  <2>5. ASSUME NEW c \in Id, SendEnds(c) \/ Clear(c) \/ ClearFails(c) PROVE ResetInv'
    BY <2>5, SendEndsKeeps, ClearKeeps, ClearFailsKeeps
  <2>6. ASSUME NEW v \in Checkers, NEW n \in Name, ReadCode(v, n) PROVE ResetInv'
    BY <2>6, ReadCodeKeeps
  <2>7. ASSUME NEW v \in Checkers, GuessWrong(v) \/ GuessRight(v) PROVE ResetInv'
    BY <2>7, GuessWrongKeeps, GuessRightKeeps
  <2> QED BY <2>1, <2>2, <2>3, <2>4, <2>5, <2>6, <2>7 DEF Next, vars
<1> QED BY <1>1, <1>2 DEF IInv

-----------------------------------------------------------------------------
(* The theorems.                                                           *)

THEOREM Invariance == Spec => []IInv
<1>1. Init => IInv
  BY ResetInitOK, InviteInitOK DEF Init, IInv
<1>2. IInv /\ [Next]_vars => IInv'
  BY NextKeeps
<1> QED BY <1>1, <1>2, PTL DEF Spec

(* Every variable keeps its type; in particular no code is charged with    *)
(* more attempts than it stands, and no invitation either.                 *)
THEOREM TypeCorrect == Spec => []TypeOK
<1>1. IInv => TypeOK
  BY DEF IInv, InviteInv, ResetInv, TypeOK
<1> QED BY <1>1, Invariance, PTL

(* One account per invitation, for any number of guests and refusals.      *)
THEOREM InvitesPair == Spec => []OneAccountPerInvite
<1>1. IInv => OneAccountPerInvite
  BY DEF IInv, InviteInv
<1> QED BY <1>1, Invariance, PTL

(* A user never has two active codes.                                      *)
THEOREM OneActive == Spec => []AtMostOneActive
<1>1. IInv => AtMostOneActive
  BY DEF IInv, ResetInv
<1> QED BY <1>1, Invariance, PTL

(* No wrong guess goes uncounted.                                          *)
THEOREM GuessesCounted == Spec => []GuessesAreCounted
<1>1. IInv => GuessesAreCounted
  BY DEF IInv, ResetInv
<1> QED BY <1>1, Invariance, PTL

(* What a step makes of the passwords: a verification sets its own user's  *)
(* to the code it checked, an override marks one, nothing else touches them*)
LEMMA PasswordSteps ==
  ASSUME IInv, Next \/ UNCHANGED vars, NEW n \in Name, NEW c \in Id,
         password'[n] = c, password[n] # c
  PROVE  \E v \in Checkers : check[v] # NoCheck /\ check[v].code = c
<1>1. ASSUME NEW v \in Checkers, GuessRight(v) PROVE check[v].code = c
  BY <1>1 DEF GuessRight, IInv, ResetInv, ResetTypeOK
<1>2. ASSUME NEW m \in Name, Override(m) PROVE FALSE
  <2>1. c \in Nat
    BY PasswordResetAssumption DEF Id
  <2> QED BY <1>2, <2>1, PasswordResetAssumption
     DEF Override, IInv, ResetInv, ResetTypeOK
<1>3. (\E v \in Checkers : GuessRight(v)) \/ (\E m \in Name : Override(m))
  BY DEF Next, vars, resetVars, Tick, Restart, AddChannel, AdminReset, CommandReset,
         RequestInVain, Request, SendEnds, Clear, ClearFails, ReadCode, GuessWrong
<1> QED BY <1>1, <1>2, <1>3 DEF GuessRight

(* Only a live code sets a password, but for a command at that moment.     *)
THEOREM LiveCodesOpen == Spec => OnlyLiveCodesOpen
<1> DEFINE Step == \A n \in Name, c \in Id :
               password'[n] = c /\ password[n] # c => ~ retired[c] \/ c \in overtaken
<1>1. ASSUME IInv, [Next]_vars PROVE [Step]_vars
  BY <1>1, PasswordSteps DEF IInv, ResetInv, CheckHolds
<1> QED BY <1>1, Invariance, PTL DEF Spec, OnlyLiveCodesOpen

(* No code from before an override changes the password back.              *)
THEOREM OverridesStand == Spec => OverrideStands
<1> DEFINE Step == \A n \in Name, c \in barred : password'[n] = c => password[n] = c
<1>1. ASSUME IInv, [Next]_vars PROVE [Step]_vars
  <2>1. barred \subseteq Id
    BY <1>1 DEF IInv, ResetInv, ResetTypeOK
  <2> QED BY <1>1, <2>1, PasswordSteps DEF IInv, ResetInv, BarredAreShut
<1> QED BY <1>1, Invariance, PTL DEF Spec, OverrideStands

(* A code is retired for one of four reasons that concern its own user.    *)
THEOREM RetirementsExplained == Spec => RetiredForAReason
<1> DEFINE Reason(c) ==
       \/ mail[c] = "clearing" /\ mail'[c] = "done"
       \/ made' = made + 1 /\ owner'[made'] = owner[c]
       \/ password'[owner[c]] = c
       \/ password'[owner[c]] = Operator /\ overrides' # overrides
<1>1. ASSUME IInv, Next \/ UNCHANGED vars, NEW c \in Id, ~ retired[c], retired'[c]
      PROVE  Reason(c)
  <2> USE <1>1 DEF IInv, ResetInv, ResetTypeOK
  <2>1. ASSUME NEW d \in Id, Clear(d) PROVE Reason(c)
    BY <2>1 DEF Clear
  <2>2. ASSUME NEW a \in Address, NEW n \in Name, Request(a, n) PROVE Reason(c)
    <3>1. made + 1 \in Id
      BY <2>2, PasswordResetAssumption DEF Request, Id
    <3> QED BY <2>2, <3>1 DEF Request, CodesOf
  <2>3. ASSUME NEW v \in Checkers, GuessRight(v) PROVE Reason(c)
    <3>1. check[v].code = c
      BY <2>3 DEF GuessRight
    <3>2. owner[c] \in Name
      BY <2>3, <3>1, OnlyCheck DEF GuessRight
    <3> QED BY <2>3, <3>1, <3>2 DEF GuessRight
  <2>4. ASSUME NEW n \in Name, Override(n) PROVE Reason(c)
    <3>1. owner[c] = n
      BY <2>4 DEF Override, CodesOf
    <3> QED BY <2>4, <3>1 DEF Override
  <2>5. \/ \E d \in Id : Clear(d)
        \/ \E a \in Address, n \in Name : Request(a, n)
        \/ \E v \in Checkers : GuessRight(v)
        \/ \E n \in Name : Override(n)
    BY DEF Next, vars, resetVars, codeVars, Tick, Restart, AddChannel, AdminReset,
           CommandReset, RequestInVain, SendEnds, ClearFails, ReadCode, GuessWrong
  <2> HIDE DEF Reason
  <2> QED BY <2>1, <2>2, <2>3, <2>4, <2>5
<1> DEFINE Step == \A c \in Id : ~ retired[c] /\ retired'[c] => Reason(c)
<1>2. ASSUME IInv, [Next]_vars PROVE [Step]_vars
  BY <1>1, <1>2
<1> QED BY <1>2, Invariance, PTL DEF Spec, RetiredForAReason
=============================================================================
