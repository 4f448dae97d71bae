--------------------------- MODULE AccountsProofs ---------------------------
(***************************************************************************)
(* Type correctness and the inductive invariant of Accounts, for every set *)
(* of addresses, accounts, codes and concurrent requests.                  *)
(***************************************************************************)
EXTENDS Accounts, TLAPS

LEMMA InitEstablishes == Init => IInv
  BY AccountsAssumption
  DEF Init, IInv, TypeOK, PasswordsEarned, SessionsEarned, AddressesConfirmed, JobsSound,
      CodesSound, LiveSound, RowsSound, Store!Init, NoJob, Job, Usages, WellFormed, Exists,
      People

-----------------------------------------------------------------------------
(* What the building blocks of the actions preserve.                        *)
LEMMA PairTypes ==
  /\ \A e \in Emails : <<"register", e>> \in Pairs
  /\ \A u \in Users : /\ <<"validateEmail", u>> \in Pairs
                      /\ <<"resetPassword", u>> \in Pairs
  BY DEF Pairs

LEMMA StartType ==
  ASSUME TypeOK, NEW s \in Sessions, NEW op \in {"none", "change", "bootstrap"} \union Usages,
         NEW u \in Users \union {NoUser}, NEW e \in Emails \union {NoEmail},
         NEW p \in People \union {Nobody}, Start(s, op, u, e, p),
         WellFormed([op |-> op, user |-> u, email |-> e, who |-> p])
  PROVE  /\ job' \in [Sessions -> Job]
         /\ \A r \in Sessions : WellFormed(job'[r])
  <1> DEFINE j == [op |-> op, user |-> u, email |-> e, who |-> p]
  <1>1. j \in Job BY DEF Job
  <1>2. job' = [job EXCEPT ![s] = j] BY DEF Start
  <1>3. job' \in [Sessions -> Job] BY <1>1, <1>2 DEF TypeOK
  <1>4. ASSUME NEW r \in Sessions PROVE WellFormed(job'[r])
    <2>1. job'[r] = j \/ job'[r] = job[r] BY <1>2 DEF TypeOK
    <2> QED BY <2>1 DEF TypeOK
  <1> QED BY <1>3, <1>4

LEMMA FinishType ==
  ASSUME TypeOK, NEW s \in Sessions, Finish(s)
  PROVE  /\ job' \in [Sessions -> Job]
         /\ \A r \in Sessions : WellFormed(job'[r])
  BY DEF TypeOK, Finish, NoJob, Job, WellFormed, Usages

LEMMA PasswordType ==
  ASSUME TypeOK, NEW u \in Users, NEW p \in People, SetPassword(u, p)
  PROVE  /\ password' \in [Users -> People \union {Nobody}]
         /\ holders' \in [Users -> SUBSET People]
  BY DEF TypeOK, SetPassword

LEMMA EmailType ==
  ASSUME TypeOK, NEW u \in Users, NEW e \in Emails, SetEmail(u, e)
  PROVE  /\ email' \in [Users -> Emails \union {NoEmail}]
         /\ held' \in [Users -> SUBSET Emails]
  BY DEF TypeOK, SetEmail

LEMMA RedeemType ==
  ASSUME TypeOK, NEW p \in People, NEW pair \in Pairs, NEW c \in Codes, Redeem(p, pair, c)
  PROVE  /\ issued' = issued /\ spent' \subseteq issued
         /\ live' \in [Pairs -> SUBSET issued]
         /\ about' \in [issued -> About]
  BY DEF TypeOK, Redeem, Store!Redeem

LEMMA IssueType ==
  ASSUME TypeOK, NEW s \in Sessions, NEW c \in Codes, IssueCode(s, c)
  PROVE  TypeOK'
  <1> DEFINE j == job[s]
             new == [pair |-> PairOf(j), data |-> DataOf(j), to |-> Recipient(j)]
  <1>1. j \in Job /\ j.op \in Usages /\ WellFormed(j)
    BY DEF TypeOK, IssueCode, Asks
  <1>2. PairOf(j) \in Pairs
    BY <1>1 DEF WellFormed, PairOf, Pairs, Usages, Job
  <1>3. new \in About
    BY <1>1, <1>2 DEF About, DataOf, Recipient, WellFormed, Usages
  <1>4. issued' = issued \union {c} /\ issued' \subseteq Codes
    BY DEF IssueCode, Store!Issue, TypeOK
  <1>5. about' \in [issued' -> About]
    <2>1. about' = [d \in issued \union {c} |-> IF d = c THEN new ELSE about[d]]
      BY DEF IssueCode
    <2> QED BY <1>3, <1>4, <2>1 DEF TypeOK
  <1>6. live' \in [Pairs -> SUBSET issued'] /\ spent' \subseteq issued'
    BY <1>2, <1>4 DEF IssueCode, Store!Issue, TypeOK
  <1>7. asked' \in [Users -> Emails \union {NoEmail}]
    BY <1>1 DEF IssueCode, WellFormed, TypeOK, Usages
  <1>8. /\ job' \in [Sessions -> Job]
        /\ \A r \in Sessions : WellFormed(job'[r])
    BY FinishType DEF IssueCode
  <1> QED BY <1>4, <1>5, <1>6, <1>7, <1>8 DEF TypeOK, IssueCode, rowVars

\* Every action takes a state of the invariant to a typed state.  The address
\* an account moves to is one because the code that carries it is of its pair.
LEMMA TypeInductive == IInv /\ [Next]_vars => TypeOK'
  <1> SUFFICES ASSUME IInv, [Next]_vars PROVE TypeOK'
    OBVIOUS
  <1> TypeOK
    BY DEF IInv
  <1>1. ASSUME NEW s \in Sessions, Begin(s) PROVE TypeOK'
    <2>1. ASSUME NEW e \in Emails, AskRegister(s, e) PROVE TypeOK'
      <3>1. WellFormed([op |-> "register", user |-> NoUser, email |-> e, who |-> Nobody])
        BY DEF WellFormed, Usages
      <3> QED BY <2>1, <3>1, StartType DEF AskRegister, TypeOK, rowVars, store, Usages
    <2>2. ASSUME NEW e \in Emails, AskPasswordReset(s, e) PROVE TypeOK'
      <3>1. PICK u \in Users : Start(s, "resetPassword", u, e, Nobody)
                               /\ UNCHANGED <<rowVars, store, signedIn, asked>>
        BY <2>2 DEF AskPasswordReset
      <3>2. WellFormed([op |-> "resetPassword", user |-> u, email |-> e, who |-> Nobody])
        BY DEF WellFormed, Usages
      <3> QED BY <3>1, <3>2, StartType DEF TypeOK, rowVars, store, Usages
    <2>3. ASSUME NEW p \in People, NEW u \in Users, NEW e \in Emails, AskEmailUpdate(s, p, u, e)
          PROVE TypeOK'
      <3>1. WellFormed([op |-> "validateEmail", user |-> u, email |-> e, who |-> p])
        BY DEF WellFormed, Usages
      <3> QED BY <2>3, <3>1, StartType DEF AskEmailUpdate, TypeOK, rowVars, store, Usages
    <2>4. ASSUME NEW p \in People, NEW u \in Users, CompareCurrent(s, p, u) PROVE TypeOK'
      <3>1. WellFormed([op |-> "change", user |-> u, email |-> NoEmail, who |-> p])
        BY DEF WellFormed, Usages
      <3> QED BY <2>4, <3>1, StartType DEF CompareCurrent, TypeOK, rowVars, store
    <2>5. ASSUME NEW e \in Roots, Bootstrap(s, e) PROVE TypeOK'
      <3> DEFINE u == Lookup(e)
      <3>1. u \in Users \union {NoUser} BY DEF Lookup, Free
      <3>2. e \in Emails /\ Operator \in People BY AccountsAssumption DEF People
      <3>3. WellFormed([op |-> "bootstrap", user |-> u, email |-> e, who |-> Operator])
        BY <3>2 DEF WellFormed, Usages
      <3>4. Start(s, "bootstrap", u, e, Operator) BY <2>5 DEF Bootstrap
      <3> HIDE DEF u
      <3> QED BY <2>5, <3>1, <3>2, <3>3, <3>4, StartType
              DEF Bootstrap, TypeOK, rowVars, store
    <2> QED BY <1>1, <2>1, <2>2, <2>3, <2>4, <2>5 DEF Begin
  <1>2. ASSUME NEW s \in Sessions, InFlight(s) PROVE TypeOK'
    <2> job[s] \in Job /\ WellFormed(job[s]) /\ Operator \in People
      BY DEF TypeOK, People
    <2>1. ASSUME NEW c \in Codes, IssueCode(s, c) PROVE TypeOK'
      BY <2>1, IssueType
    <2>2. CASE ChangePassword(s)
      <3>1. job[s].user \in Users /\ job[s].who \in People
        BY <2>2 DEF ChangePassword, WellFormed
      <3> QED BY <2>2, <3>1, PasswordType, FinishType DEF ChangePassword, TypeOK, store
    <2>3. ASSUME NEW u \in Users, BootstrapInsert(s, u) PROVE TypeOK'
      <3>1. job[s].email \in Emails BY <2>3 DEF BootstrapInsert, WellFormed
      <3> QED BY <2>3, <3>1, EmailType, PasswordType, FinishType
              DEF BootstrapInsert, Insert, TypeOK, store
    <2>4. CASE BootstrapUpdate(s)
      <3>1. job[s].user \in Users BY <2>4 DEF BootstrapUpdate, Job
      <3> QED BY <2>4, <3>1, PasswordType, FinishType DEF BootstrapUpdate, TypeOK, store
    <2>5. CASE Fail(s)
      BY <2>5, FinishType DEF Fail, TypeOK, rowVars, store
    <2> QED BY <1>2, <2>1, <2>2, <2>3, <2>4, <2>5 DEF InFlight
  <1>3. ASSUME NEW p \in Emails, NEW c \in Codes, NEW u \in Users,
               Register(p, c, u) \/ UpdateEmail(p, u, c) \/ ResetPassword(p, u, c)
        PROVE TypeOK'
    <2> p \in People BY DEF People
    <2>1. CASE Register(p, c, u)
      BY <2>1, PairTypes, RedeemType, EmailType, PasswordType DEF Register, Insert, TypeOK
    <2>2. CASE UpdateEmail(p, u, c)
      <3>1. Redeem(p, <<"validateEmail", u>>, c) /\ SetEmail(u, about[c].data)
        BY <2>2 DEF UpdateEmail
      <3>2. about[c].data \in Emails
        <4>1. c \in issued /\ c \in live[<<"validateEmail", u>>] /\ about[c].to = p
          BY <3>1 DEF Redeem, Store!Redeem
        <4>2. about[c].pair = <<"validateEmail", u>>
          BY <4>1, PairTypes DEF IInv, LiveSound
        <4> QED BY <4>1, <4>2 DEF IInv, CodesSound
      <3> QED BY <2>2, <3>1, <3>2, PairTypes, RedeemType, EmailType
              DEF UpdateEmail, TypeOK
    <2>3. CASE ResetPassword(p, u, c)
      BY <2>3, PairTypes, RedeemType, PasswordType DEF ResetPassword, TypeOK
    <2> QED BY <1>3, <2>1, <2>2, <2>3
  <1>4. ASSUME NEW p \in People, NEW u \in Users, SignIn(p, u) PROVE TypeOK'
    BY <1>4 DEF SignIn, TypeOK, rowVars, store
  <1>5. CASE UNCHANGED vars
    BY <1>5 DEF vars, TypeOK
  <1> QED BY <1>1, <1>2, <1>3, <1>4, <1>5 DEF Next, Redemption

-----------------------------------------------------------------------------
\* What only grows: the histories, the codes and what is known of them.
Grows == /\ \A u \in Users : held[u] \subseteq held'[u] /\ holders[u] \subseteq holders'[u]
         /\ issued \subseteq issued' /\ spent \subseteq spent'
         /\ \A c \in issued : about'[c] = about[c]

LEMMA NextGrows == TypeOK /\ [Next]_vars => Grows
  <1> SUFFICES ASSUME TypeOK, [Next]_vars PROVE Grows
    OBVIOUS
  <1>1. ASSUME NEW s \in Sessions, Begin(s) PROVE Grows
    BY <1>1 DEF Begin, AskRegister, AskPasswordReset, AskEmailUpdate, CompareCurrent, Bootstrap,
                Grows, rowVars, store
  <1>2. ASSUME NEW s \in Sessions, InFlight(s) PROVE Grows
    <2>1. ASSUME NEW c \in Codes, IssueCode(s, c) PROVE Grows
      BY <2>1 DEF IssueCode, Store!Issue, Grows, rowVars, TypeOK
    <2>2. CASE ~\E c \in Codes : IssueCode(s, c)
      BY <1>2, <2>2 DEF InFlight, ChangePassword, BootstrapInsert, BootstrapUpdate, Fail, Insert,
                        SetEmail, SetPassword, Grows, rowVars, store, TypeOK
    <2> QED BY <2>1, <2>2
  <1>3. CASE Redemption
    BY <1>3 DEF Redemption, Register, UpdateEmail, ResetPassword, Redeem, Store!Redeem, Insert,
                SetEmail, SetPassword, Grows, TypeOK
  <1>4. ASSUME NEW p \in People, NEW u \in Users, SignIn(p, u) PROVE Grows
    BY <1>4 DEF SignIn, Grows, rowVars, store
  <1>5. CASE UNCHANGED vars
    BY <1>5 DEF vars, Grows
  <1> QED BY <1>1, <1>2, <1>3, <1>4, <1>5 DEF Next

\* What a redemption says of the code: it is live under the pair, was issued
\* for it, and came in the mail of the person who redeems it.
LEMMA RedeemedCode ==
  ASSUME IInv, NEW p, NEW pair \in Pairs, NEW c \in Codes, Redeem(p, pair, c)
  PROVE  /\ c \in issued /\ c \in live[pair]
         /\ about[c].to = p /\ about[c].pair = pair
         /\ c \in spent' /\ issued' = issued /\ about' = about
         /\ \A q \in Pairs : live'[q] \subseteq live[q]
         /\ \A d \in spent' : d \in spent \/ d = c
  BY DEF Redeem, Store!Redeem, IInv, LiveSound, TypeOK

\* Every password stays one that someone entitled to it chose.
LEMMA PasswordsInductive == IInv /\ [Next]_vars => PasswordsEarned'
  <1> SUFFICES ASSUME IInv, [Next]_vars PROVE PasswordsEarned'
    OBVIOUS
  <1> TypeOK /\ PasswordsEarned /\ Grows
    BY NextGrows DEF IInv
  <1>1. ASSUME NEW u \in Users, NEW p, SetPassword(u, p),
               p \in held'[u] \union {Operator} \/ p \in holders[u]
        PROVE PasswordsEarned'
    BY <1>1 DEF SetPassword, PasswordsEarned, Grows, TypeOK
  <1>2. ASSUME NEW s \in Sessions, InFlight(s) PROVE PasswordsEarned'
    <2>1. CASE ChangePassword(s)
      BY <1>1, <2>1 DEF ChangePassword, IInv, JobsSound, TypeOK, WellFormed
    <2>2. ASSUME NEW u \in Users, BootstrapInsert(s, u) PROVE PasswordsEarned'
      BY <1>1, <2>2 DEF BootstrapInsert, Insert
    <2>3. CASE BootstrapUpdate(s)
      BY <1>1, <2>3 DEF BootstrapUpdate, TypeOK, Job
    <2>4. CASE Fail(s) \/ \E c \in Codes : IssueCode(s, c)
      BY <2>4 DEF Fail, IssueCode, rowVars, PasswordsEarned
    <2> QED BY <1>2, <2>1, <2>2, <2>3, <2>4 DEF InFlight
  <1>3. ASSUME NEW p \in Emails, NEW c \in Codes, NEW u \in Users,
               Register(p, c, u) \/ UpdateEmail(p, u, c) \/ ResetPassword(p, u, c)
        PROVE PasswordsEarned'
    <2>1. CASE Register(p, c, u)
      <3>1. p \in held'[u] BY <2>1 DEF Register, Insert, SetEmail, TypeOK
      <3> QED BY <1>1, <2>1, <3>1 DEF Register, Insert
    <2>2. CASE UpdateEmail(p, u, c)
      BY <2>2 DEF UpdateEmail, PasswordsEarned, Grows
    <2>3. CASE ResetPassword(p, u, c)
      <3>1. about[c].to = p /\ about[c].pair = <<"resetPassword", u>> /\ c \in issued
        <4>1. Redeem(p, <<"resetPassword", u>>, c)
          BY <2>3 DEF ResetPassword
        <4>2. <<"resetPassword", u>> \in Pairs
          BY PairTypes
        <4> QED BY <4>1, <4>2, RedeemedCode
      <3>2. p \in held[u] BY <3>1 DEF IInv, CodesSound
      <3> QED BY <1>1, <2>3, <3>2 DEF ResetPassword, Grows
    <2> QED BY <1>3, <2>1, <2>2, <2>3
  <1>4. ASSUME NEW s \in Sessions, Begin(s) PROVE PasswordsEarned'
    BY <1>4 DEF Begin, AskRegister, AskPasswordReset, AskEmailUpdate, CompareCurrent, Bootstrap,
                rowVars, PasswordsEarned
  <1>5. ASSUME NEW p \in People, NEW u \in Users, SignIn(p, u) PROVE PasswordsEarned'
    BY <1>5 DEF SignIn, rowVars, PasswordsEarned
  <1>6. CASE UNCHANGED vars
    BY <1>6 DEF vars, PasswordsEarned
  <1> QED BY <1>2, <1>3, <1>4, <1>5, <1>6 DEF Next, Redemption

\* The row's own password and address are in its history.
LEMMA RowsInductive == IInv /\ [Next]_vars => RowsSound'
  <1> SUFFICES ASSUME IInv, [Next]_vars PROVE RowsSound'
    OBVIOUS
  <1> TypeOK /\ RowsSound
    BY DEF IInv
  <1>1. ASSUME NEW s \in Sessions, InFlight(s) PROVE RowsSound'
    <2>1. ASSUME NEW u \in Users, NEW p \in People, SetPassword(u, p), UNCHANGED <<email, held>>
          PROVE RowsSound'
      BY <2>1 DEF SetPassword, TypeOK, RowsSound, Exists
    <2>2. CASE ChangePassword(s)
      BY <2>1, <2>2 DEF ChangePassword, TypeOK, WellFormed
    <2>3. ASSUME NEW u \in Users, BootstrapInsert(s, u) PROVE RowsSound'
      BY <2>3 DEF BootstrapInsert, Insert, SetEmail, SetPassword, TypeOK, RowsSound, Exists
    <2>4. CASE BootstrapUpdate(s)
      BY <2>1, <2>4 DEF BootstrapUpdate, TypeOK, Job, People
    <2>5. CASE Fail(s) \/ \E c \in Codes : IssueCode(s, c)
      BY <2>5 DEF Fail, IssueCode, rowVars, RowsSound, Exists
    <2> QED BY <1>1, <2>2, <2>3, <2>4, <2>5 DEF InFlight
  <1>2. CASE Redemption
    <2>1. ASSUME NEW p \in Emails, NEW c \in Codes, NEW u \in Users, Register(p, c, u)
          PROVE RowsSound'
      BY <2>1 DEF Register, Insert, SetEmail, SetPassword, TypeOK, RowsSound, Exists
    <2>2. ASSUME NEW p \in Emails, NEW c \in Codes, NEW u \in Users, UpdateEmail(p, u, c)
          PROVE RowsSound'
      BY <2>2 DEF UpdateEmail, SetEmail, TypeOK, RowsSound, Exists
    <2>3. ASSUME NEW p \in Emails, NEW c \in Codes, NEW u \in Users, ResetPassword(p, u, c)
          PROVE RowsSound'
      BY <2>3 DEF ResetPassword, SetPassword, TypeOK, RowsSound, Exists
    <2> QED BY <1>2, <2>1, <2>2, <2>3 DEF Redemption
  <1>3. CASE \E s \in Sessions : Begin(s)
    BY <1>3 DEF Begin, AskRegister, AskPasswordReset, AskEmailUpdate, CompareCurrent, Bootstrap,
                rowVars, RowsSound, Exists
  <1>4. CASE (\E p \in People, u \in Users : SignIn(p, u)) \/ UNCHANGED vars
    BY <1>4 DEF SignIn, rowVars, vars, RowsSound, Exists
  <1> QED BY <1>1, <1>2, <1>3, <1>4 DEF Next

\* Tokens are signed on registration and against the current password.
LEMMA SessionsInductive == IInv /\ [Next]_vars => SessionsEarned'
  <1> SUFFICES ASSUME IInv, [Next]_vars PROVE SessionsEarned'
    OBVIOUS
  <1> TypeOK /\ SessionsEarned /\ Grows
    BY NextGrows DEF IInv
  <1>1. CASE UNCHANGED signedIn
    BY <1>1 DEF SessionsEarned, Grows
  <1>2. ASSUME NEW p \in Emails, NEW c \in Codes, NEW u \in Users, Register(p, c, u)
        PROVE SessionsEarned'
    <2>1. p \in holders'[u]
      BY <1>2 DEF Register, Insert, SetPassword, TypeOK
    <2>2. signedIn' \subseteq signedIn \union {<<p, u>>}
      BY <1>2 DEF Register
    <2> QED BY <2>1, <2>2 DEF SessionsEarned, Grows
  <1>3. ASSUME NEW p \in People, NEW u \in Users, SignIn(p, u) PROVE SessionsEarned'
    <2>1. p \in holders[u]
      BY <1>3, AccountsAssumption DEF SignIn, Verifies, IInv, RowsSound, People
    <2>2. signedIn' = signedIn \union {<<p, u>>}
      BY <1>3 DEF SignIn
    <2> QED BY <2>1, <2>2 DEF SessionsEarned, Grows
  <1>4. UNCHANGED signedIn
        \/ (\E p \in Emails, c \in Codes, u \in Users : Register(p, c, u))
        \/ (\E p \in People, u \in Users : SignIn(p, u))
    BY DEF Next, Begin, InFlight, Redemption, AskRegister, AskPasswordReset, AskEmailUpdate,
           CompareCurrent, Bootstrap, IssueCode, ChangePassword, BootstrapInsert, BootstrapUpdate,
           Fail, UpdateEmail, ResetPassword, vars
  <1> QED BY <1>1, <1>2, <1>3, <1>4

\* Every address was confirmed from its own mailbox, or named by the operator.
LEMMA AddressesInductive == IInv /\ [Next]_vars => AddressesConfirmed'
  <1> SUFFICES ASSUME IInv, [Next]_vars PROVE AddressesConfirmed'
    OBVIOUS
  <1> TypeOK /\ AddressesConfirmed /\ Grows
    BY NextGrows DEF IInv
  <1>1. ASSUME NEW u \in Users, NEW e \in held[u] PROVE e \in Roots \/ Confirmed(u, e)'
    <2>1. CASE e \in Roots
      BY <2>1
    <2>2. CASE Confirmed(u, e)
      <3>1. PICK c \in spent : /\ about[c].to = e
                              /\ \/ about[c].pair = <<"register", e>>
                                 \/ about[c].pair = <<"validateEmail", u>> /\ about[c].data = e
        BY <2>2 DEF Confirmed
      <3>2. c \in spent' /\ about'[c] = about[c]
        BY DEF Grows, TypeOK
      <3> QED BY <3>1, <3>2 DEF Confirmed
    <2> QED BY <2>1, <2>2 DEF AddressesConfirmed
  <1>2. CASE UNCHANGED held
    BY <1>1, <1>2 DEF AddressesConfirmed
  <1>3. ASSUME NEW u \in Users, NEW e, SetEmail(u, e), e \in Roots \/ Confirmed(u, e)'
        PROVE AddressesConfirmed'
    <2>1. \A v \in Users : held'[v] \subseteq held[v] \/ (v = u /\ held'[v] = held[v] \union {e})
      BY <1>3 DEF SetEmail, TypeOK
    <2> QED BY <1>1, <1>3, <2>1 DEF AddressesConfirmed
  <1>4. ASSUME NEW p \in Emails, NEW c \in Codes, NEW u \in Users, Register(p, c, u)
        PROVE AddressesConfirmed'
    <2>1. c \in spent' /\ about' = about /\ about[c].to = p /\ about[c].pair = <<"register", p>>
      <3>1. Redeem(p, <<"register", p>>, c)
        BY <1>4 DEF Register
      <3>2. <<"register", p>> \in Pairs
        BY PairTypes
      <3> QED BY <3>1, <3>2, RedeemedCode
    <2>2. Confirmed(u, p)'
      BY <2>1 DEF Confirmed
    <2> QED BY <1>3, <1>4, <2>2 DEF Register, Insert
  <1>5. ASSUME NEW p \in Emails, NEW c \in Codes, NEW u \in Users, UpdateEmail(p, u, c)
        PROVE AddressesConfirmed'
    <2>1. /\ c \in issued /\ c \in spent' /\ about' = about
          /\ about[c].to = p /\ about[c].pair = <<"validateEmail", u>>
      <3>1. Redeem(p, <<"validateEmail", u>>, c)
        BY <1>5 DEF UpdateEmail
      <3>2. <<"validateEmail", u>> \in Pairs
        BY PairTypes
      <3> QED BY <3>1, <3>2, RedeemedCode
    <2>2. about[c].data = p
      BY <2>1 DEF IInv, CodesSound
    <2>3. Confirmed(u, p)'
      BY <2>1, <2>2 DEF Confirmed
    <2> QED BY <1>3, <1>5, <2>2, <2>3 DEF UpdateEmail
  <1>6. ASSUME NEW s \in Sessions, NEW u \in Users, BootstrapInsert(s, u)
        PROVE AddressesConfirmed'
    <2>1. job[s].email \in Roots
      BY <1>6 DEF BootstrapInsert, IInv, JobsSound
    <2> QED BY <1>3, <1>6, <2>1 DEF BootstrapInsert, Insert
  <1>7. UNCHANGED held
        \/ (\E p \in Emails, c \in Codes, u \in Users : Register(p, c, u) \/ UpdateEmail(p, u, c))
        \/ (\E s \in Sessions, u \in Users : BootstrapInsert(s, u))
    BY DEF Next, Begin, InFlight, Redemption, AskRegister, AskPasswordReset, AskEmailUpdate,
           CompareCurrent, Bootstrap, IssueCode, ChangePassword, BootstrapUpdate, Fail, SignIn,
           ResetPassword, vars, rowVars
  <1> QED BY <1>2, <1>4, <1>5, <1>6, <1>7

\* What a request has established stays so until its last statement.
LEMMA JobsInductive == IInv /\ [Next]_vars => JobsSound'
  <1> SUFFICES ASSUME IInv, [Next]_vars PROVE JobsSound'
    OBVIOUS
  <1> TypeOK /\ JobsSound /\ Grows
    BY NextGrows DEF IInv
  <1> DEFINE Sound(j) == /\ j.op = "validateEmail" => j.who \in holders'[j.user]
                         /\ j.op = "resetPassword" => j.email \in held'[j.user]
                         /\ j.op = "change" => j.who \in holders'[j.user]
                         /\ j.op = "bootstrap" => j.who = Operator /\ j.email \in Roots
  <1>1. \A s \in Sessions : Sound(job[s])
    BY DEF JobsSound, Grows, TypeOK, WellFormed
  <1>2. Sound(NoJob)
    BY DEF NoJob
  <1>3. ASSUME NEW s \in Sessions, NEW j, job' = [job EXCEPT ![s] = j], Sound(j)
        PROVE JobsSound'
    <2>1. \A r \in Sessions : job'[r] = job[r] \/ job'[r] = j
      BY <1>3 DEF TypeOK
    <2> HIDE DEF Sound
    <2>2. \A r \in Sessions : Sound(job'[r])
      BY <1>1, <1>3, <2>1
    <2> QED BY <2>2 DEF JobsSound, Sound
  <1>4. CASE UNCHANGED job
    BY <1>1, <1>4 DEF JobsSound
  <1>5. ASSUME NEW s \in Sessions, InFlight(s) PROVE JobsSound'
    <2>1. job' = [job EXCEPT ![s] = NoJob]
      BY <1>5 DEF InFlight, IssueCode, ChangePassword, BootstrapInsert, BootstrapUpdate, Fail, Finish
    <2> QED BY <1>2, <1>3, <2>1
  <1>6. ASSUME NEW s \in Sessions, Begin(s) PROVE JobsSound'
    <2>1. ASSUME NEW e \in Emails, AskRegister(s, e) PROVE JobsSound'
      BY <1>3, <2>1 DEF AskRegister, Start
    <2>2. ASSUME NEW e \in Emails, AskPasswordReset(s, e) PROVE JobsSound'
      <3>1. PICK u \in Users : email[u] = e /\ Start(s, "resetPassword", u, e, Nobody)
        BY <2>2 DEF AskPasswordReset
      <3>2. e \in held'[u]
        BY <3>1, AccountsAssumption DEF IInv, RowsSound, Exists, Grows
      <3> QED BY <1>3, <3>1, <3>2 DEF Start
    <2>3. ASSUME NEW p \in People, NEW u \in Users, NEW e \in Emails, AskEmailUpdate(s, p, u, e)
          PROVE JobsSound'
      <3>1. p \in holders'[u]
        BY <2>3 DEF AskEmailUpdate, Caller, IInv, SessionsEarned, Grows
      <3> QED BY <1>3, <2>3, <3>1 DEF AskEmailUpdate, Start
    <2>4. ASSUME NEW p \in People, NEW u \in Users, CompareCurrent(s, p, u) PROVE JobsSound'
      <3>1. p \in holders'[u]
        BY <2>4 DEF CompareCurrent, Caller, IInv, SessionsEarned, Grows
      <3> QED BY <1>3, <2>4, <3>1 DEF CompareCurrent, Start
    <2>5. ASSUME NEW e \in Roots, Bootstrap(s, e) PROVE JobsSound'
      <3> DEFINE u == Lookup(e)
                 j == [op |-> "bootstrap", user |-> u, email |-> e, who |-> Operator]
      <3>1. job' = [job EXCEPT ![s] = j]
        BY <2>5 DEF Bootstrap, Start
      <3>2. Sound(j)
        OBVIOUS
      <3> HIDE DEF j, Sound
      <3> QED BY <1>3, <3>1, <3>2
    <2> QED BY <1>6, <2>1, <2>2, <2>3, <2>4, <2>5 DEF Begin
  <1>7. UNCHANGED job \/ \E s \in Sessions : Begin(s) \/ InFlight(s)
    BY DEF Next, Redemption, Register, UpdateEmail, ResetPassword, SignIn, vars
  <1> QED BY <1>4, <1>5, <1>6, <1>7

\* A code keeps saying what it said when it was mailed.
LEMMA CodesInductive == IInv /\ [Next]_vars => CodesSound'
  <1> SUFFICES ASSUME IInv, [Next]_vars PROVE CodesSound'
    OBVIOUS
  <1> TypeOK /\ CodesSound /\ Grows
    BY NextGrows DEF IInv
  <1> DEFINE Sound(a) ==
        /\ a.pair[1] = "register" => a.to = a.pair[2]
        /\ a.pair[1] = "validateEmail" => a.to = a.data
        /\ a.pair[1] = "resetPassword" => a.to \in held'[a.pair[2]]
  <1>1. \A c \in issued : Sound(about'[c])
    <2> SUFFICES ASSUME NEW c \in issued PROVE Sound(about[c])
      BY DEF Grows
    <2>1. about[c] \in About
      BY DEF TypeOK
    <2>2. about[c].pair[1] = "resetPassword" => about[c].pair[2] \in Users
      BY <2>1 DEF About, Pairs
    <2> QED BY <2>2 DEF CodesSound, Grows
  <1>2. CASE issued' = issued
    BY <1>1, <1>2 DEF CodesSound
  <1>3. ASSUME NEW s \in Sessions, NEW c \in Codes, IssueCode(s, c) PROVE CodesSound'
    <2> DEFINE j == job[s]
               new == [pair |-> PairOf(j), data |-> DataOf(j), to |-> Recipient(j)]
    <2>1. issued' = issued \union {c} /\ c \notin issued
      BY <1>3 DEF IssueCode, Store!Issue
    <2>2. about'[c] = new
      BY <1>3 DEF IssueCode
    <2>3. j.op = "resetPassword" => j.email \in held'[j.user]
      BY <1>3 DEF IInv, JobsSound, IssueCode, rowVars
    <2>4. Sound(new)
      BY <2>3 DEF PairOf, DataOf, Recipient
    <2> HIDE DEF Sound, new
    <2>5. \A d \in issued' : Sound(about'[d])
      BY <1>1, <2>1, <2>2, <2>4
    <2> QED BY <2>5 DEF CodesSound, Sound
  <1>4. issued' = issued \/ \E s \in Sessions, c \in Codes : IssueCode(s, c)
    <2>1. CASE Redemption
      BY <2>1 DEF Redemption, Register, UpdateEmail, ResetPassword, Redeem, Store!Redeem
    <2>2. CASE \E s \in Sessions : Begin(s)
      BY <2>2 DEF Begin, AskRegister, AskPasswordReset, AskEmailUpdate, CompareCurrent, Bootstrap,
                  store
    <2>3. CASE \E s \in Sessions : InFlight(s)
      BY <2>3 DEF InFlight, ChangePassword, BootstrapInsert, BootstrapUpdate, Fail, store
    <2>4. CASE (\E p \in People, u \in Users : SignIn(p, u)) \/ UNCHANGED vars
      BY <2>4 DEF SignIn, store, vars
    <2> QED BY <2>1, <2>2, <2>3, <2>4 DEF Next
  <1> QED BY <1>2, <1>3, <1>4

\* A new code takes the place of the one of its pair, address included.
LEMMA LiveInductive == IInv /\ [Next]_vars => LiveSound'
  <1> SUFFICES ASSUME IInv, [Next]_vars PROVE LiveSound'
    OBVIOUS
  <1> TypeOK /\ LiveSound /\ Grows
    BY NextGrows DEF IInv
  <1>1. CASE UNCHANGED <<store, asked>>
    BY <1>1 DEF store, LiveSound
  <1>2. ASSUME NEW p \in Emails, NEW pair \in Pairs, NEW c \in Codes, Redeem(p, pair, c),
               UNCHANGED asked
        PROVE LiveSound'
    BY <1>2, RedeemedCode DEF LiveSound
  <1>3. ASSUME NEW s \in Sessions, NEW c \in Codes, IssueCode(s, c) PROVE LiveSound'
    <2> DEFINE j == job[s]
               new == [pair |-> PairOf(j), data |-> DataOf(j), to |-> Recipient(j)]
    <2>1. j \in Job /\ j.op \in Usages /\ WellFormed(j)
      BY <1>3 DEF TypeOK, IssueCode, Asks
    <2>2. PairOf(j) \in Pairs
      BY <2>1 DEF WellFormed, PairOf, Pairs, Usages, Job
    <2>3. c \notin issued /\ live' = [live EXCEPT ![PairOf(j)] = {c}]
      BY <1>3 DEF IssueCode, Store!Issue
    <2>4. about'[c] = new
      BY <1>3, <2>3 DEF IssueCode
    <2>5. ASSUME NEW pair \in Pairs, NEW d \in live'[pair]
          PROVE  /\ about'[d].pair = pair
                 /\ pair[1] = "validateEmail" => about'[d].data = asked'[pair[2]]
      <3>1. CASE pair = PairOf(j)
        <4>1. d = c
          BY <2>2, <2>3, <2>5, <3>1 DEF TypeOK
        <4>2. pair[1] = "validateEmail" => j.op = "validateEmail" /\ pair[2] = j.user
          BY <3>1 DEF PairOf
        <4>3. j.op = "validateEmail" => asked'[j.user] = j.email
          BY <1>3, <2>1 DEF IssueCode, TypeOK, WellFormed
        <4> QED BY <2>4, <3>1, <4>1, <4>2, <4>3 DEF DataOf
      <3>2. CASE pair # PairOf(j)
        <4>1. d \in live[pair]
          BY <2>2, <2>3, <2>5, <3>2 DEF TypeOK
        <4>2. about'[d] = about[d]
          BY <4>1 DEF Grows, TypeOK
        <4>3. pair[1] = "validateEmail" => pair = <<"validateEmail", pair[2]>>
          BY DEF Pairs
        <4>4. pair[1] = "validateEmail" => asked'[pair[2]] = asked[pair[2]]
          BY <1>3, <3>2, <4>3 DEF IssueCode, PairOf, TypeOK
        <4> QED BY <4>1, <4>2, <4>4 DEF LiveSound
      <3> QED BY <3>1, <3>2
    <2> QED BY <2>5 DEF LiveSound
  <1>4. UNCHANGED <<store, asked>>
        \/ (\E s \in Sessions, c \in Codes : IssueCode(s, c))
        \/ (\E p \in Emails, c \in Codes, pair \in Pairs : Redeem(p, pair, c) /\ UNCHANGED asked)
    <2>1. ASSUME NEW p \in Emails, NEW c \in Codes, NEW u \in Users,
                 Register(p, c, u) \/ UpdateEmail(p, u, c) \/ ResetPassword(p, u, c)
          PROVE  \E pair \in Pairs : Redeem(p, pair, c) /\ UNCHANGED asked
      BY <2>1, PairTypes DEF Register, UpdateEmail, ResetPassword
    <2>2. CASE Redemption
      BY <2>1, <2>2 DEF Redemption
    <2>3. CASE ~Redemption
      BY <2>3 DEF Next, Begin, InFlight, AskRegister, AskPasswordReset, AskEmailUpdate,
                  CompareCurrent, Bootstrap, ChangePassword, BootstrapInsert, BootstrapUpdate, Fail,
                  SignIn, vars, store
    <2> QED BY <2>2, <2>3
  <1> QED BY <1>1, <1>2, <1>3, <1>4

LEMMA Inductive == IInv /\ [Next]_vars => IInv'
  BY TypeInductive, PasswordsInductive, SessionsInductive, AddressesInductive, JobsInductive,
     CodesInductive, LiveInductive, RowsInductive DEF IInv

-----------------------------------------------------------------------------
\* In every reachable state, passwords, sessions and addresses go back to people
\* who had one of the account's addresses.
THEOREM Invariant == Spec => []IInv
  BY InitEstablishes, Inductive, PTL DEF Spec

\* Every variable keeps its type.
THEOREM TypeCorrect == Spec => []TypeOK
  <1>1. IInv => TypeOK
    BY DEF IInv
  <1> QED BY <1>1, Invariant, PTL

\* Only the owner of an address the account has had, or the operator, ever chooses
\* its password, whatever codes are in flight.
THEOREM Passwords == Spec => []PasswordsEarned
  <1>1. IInv => PasswordsEarned
    BY DEF IInv
  <1> QED BY <1>1, Invariant, PTL

\* Tokens are only signed for those who chose the account's password once.
THEOREM SignedIn == Spec => []SessionsEarned
  <1>1. IInv => SessionsEarned
    BY DEF IInv
  <1> QED BY <1>1, Invariant, PTL

\* Every address of an account was confirmed from its mailbox, or named by the
\* operator.
THEOREM Addresses == Spec => []AddressesConfirmed
  <1>1. IInv => AddressesConfirmed
    BY DEF IInv
  <1> QED BY <1>1, Invariant, PTL

\* An account moves to the address it was last asked to move to.
THEOREM Moves == Spec => MovesFollowLastAsk
  <1> DEFINE Move == \A u \in Users : Exists(u) /\ email'[u] # email[u] => email'[u] = asked[u]
  <1>1. IInv /\ [Next]_vars => [Move]_vars
    <2> SUFFICES ASSUME IInv, Next, NEW v \in Users, Exists(v), email'[v] # email[v]
                 PROVE  email'[v] = asked[v]
      BY DEF vars
    <2> TypeOK
      BY DEF IInv
    <2>1. ASSUME NEW u \in Users, NEW e, Insert(u, e, Operator) \/ Insert(u, e, e) PROVE FALSE
      BY <2>1 DEF Insert, SetEmail, TypeOK, Exists
    <2>2. (\E s \in Sessions, u \in Users : BootstrapInsert(s, u))
          \/ (\E p \in Emails, c \in Codes, u \in Users : Register(p, c, u) \/ UpdateEmail(p, u, c))
      BY DEF Next, Begin, InFlight, Redemption, AskRegister, AskPasswordReset, AskEmailUpdate,
             CompareCurrent, Bootstrap, IssueCode, ChangePassword, BootstrapUpdate, Fail, SignIn,
             ResetPassword, rowVars
    <2>3. PICK p \in Emails, c \in Codes, u \in Users : UpdateEmail(p, u, c)
      BY <2>1, <2>2 DEF BootstrapInsert, Register
    <2>4. c \in live[<<"validateEmail", u>>]
      <3>1. Redeem(p, <<"validateEmail", u>>, c)
        BY <2>3 DEF UpdateEmail
      <3>2. <<"validateEmail", u>> \in Pairs
        BY PairTypes
      <3> QED BY <3>1, <3>2, RedeemedCode
    <2>5. about[c].data = asked[u]
      BY <2>4, PairTypes DEF IInv, LiveSound
    <2> QED BY <2>3, <2>5 DEF UpdateEmail, SetEmail, TypeOK
  <1> QED BY <1>1, Invariant, PTL DEF Spec, MovesFollowLastAsk

-----------------------------------------------------------------------------
(* The store the operations rely on.                                        *)
\* A code is issued for a pair that has a target, and redeemed as a code of its pair.
LEMMA StoreStep == TypeOK /\ [Next]_vars => [Store!Next]_(Store!vars)
  <1> SUFFICES ASSUME TypeOK, [Next]_vars PROVE [Store!Next]_(Store!vars)
    OBVIOUS
  <1>1. ASSUME NEW s \in Sessions, NEW c \in Codes, IssueCode(s, c) PROVE Store!Next
    <2>1. job[s] \in Job /\ job[s].op \in Usages /\ WellFormed(job[s])
      BY <1>1 DEF TypeOK, IssueCode, Asks
    <2>2. PairOf(job[s]) \in Pairs
      BY <2>1 DEF WellFormed, PairOf, Pairs, Usages, Job
    <2> QED BY <1>1, <2>2 DEF IssueCode, Store!Next
  <1>2. ASSUME NEW p \in Emails, NEW c \in Codes, NEW u \in Users,
               Register(p, c, u) \/ UpdateEmail(p, u, c) \/ ResetPassword(p, u, c)
        PROVE  Store!Next
    BY <1>2, PairTypes DEF Register, UpdateEmail, ResetPassword, Redeem, Store!Next
  <1>3. \/ UNCHANGED store
        \/ \E s \in Sessions, c \in Codes : IssueCode(s, c)
        \/ \E p \in Emails, c \in Codes, u \in Users :
             Register(p, c, u) \/ UpdateEmail(p, u, c) \/ ResetPassword(p, u, c)
    BY DEF Next, Begin, InFlight, Redemption, AskRegister, AskPasswordReset, AskEmailUpdate,
           CompareCurrent, Bootstrap, ChangePassword, BootstrapInsert, BootstrapUpdate, Fail,
           SignIn, vars, store
  <1> QED BY <1>1, <1>2, <1>3 DEF store, Store!vars

\* What the operations do to codes, the store promises: every behaviour of Accounts is one
\* of OneTimeCodes, as every behaviour of the table is.
THEOREM Refinement == Spec => ImplementsStore
  <1>1. Init => Store!Init
    BY DEF Init
  <1> QED BY <1>1, StoreStep, TypeCorrect, PTL DEF Spec, Store!Spec, ImplementsStore

\* An address has at most one code that registers it, and an account at most one of each
\* other usage, that can be redeemed, and none that was redeemed before: however many
\* requests for codes are in flight.
THEOREM OneCode == Spec => []Store!OneLiveCode
  <1> DEFINE Single == \A p \in Pairs : live[p] = {} \/ \E c \in Codes : live[p] = {c}
             Unspent == \A p, q \in Pairs : /\ live[p] \intersect spent = {}
                                            /\ p # q => live[p] \intersect live[q] = {}
             Good == TypeOK /\ Single /\ Unspent
  <1>1. Init => Good
    BY InitEstablishes DEF IInv, Init, Store!Init
  <1>2. Good /\ TypeOK' /\ [Store!Next]_(Store!vars) => Good'
    <2> SUFFICES ASSUME Good, TypeOK', [Store!Next]_(Store!vars) PROVE Single' /\ Unspent'
      OBVIOUS
    <2>1. ASSUME NEW p \in Pairs, NEW c \in Codes, Store!Issue(p, c) PROVE Single' /\ Unspent'
      <3>1. \A q \in Pairs : live'[q] = IF q = p THEN {c} ELSE live[q]
        BY <2>1 DEF Store!Issue, TypeOK
      <3>2. c \notin spent /\ spent' = spent /\ \A q \in Pairs : c \notin live[q]
        BY <2>1 DEF Store!Issue, TypeOK
      <3> QED BY <3>1, <3>2
    <2>2. ASSUME NEW p \in Pairs, NEW c \in Codes, Store!Redeem(p, c) PROVE Single' /\ Unspent'
      <3>1. \A q \in Pairs : live'[q] = IF q = p THEN {} ELSE live[q]
        BY <2>2 DEF Store!Redeem, TypeOK
      <3>2. live[p] = {c} /\ spent' = spent \union {c}
        BY <2>2 DEF Store!Redeem
      <3> QED BY <3>1, <3>2
    <2>3. CASE UNCHANGED Store!vars
      BY <2>3 DEF Store!vars
    <2> QED BY <2>1, <2>2, <2>3 DEF Store!Next
  <1>3. Good => Store!OneLiveCode
    BY DEF Store!OneLiveCode
  <1> HIDE DEF Good
  <1> QED BY <1>1, <1>2, <1>3, StoreStep, TypeCorrect, PTL DEF Spec
=============================================================================
