------------------------------ MODULE Accounts ------------------------------
(***************************************************************************)
(* Accounts and the codes that open, move and recover them: the credentials *)
(* rows, the three short-code requests, and the operations that redeem the *)
(* codes, composed with the one-time store of OneTimeCodes.tla.            *)
(*                                                                         *)
(* An address stands for the owner of its mailbox, and a password for the  *)
(* person who chose it.  A code is known to whoever reads the mailbox it   *)
(* was mailed to, from the moment it is issued: a late or a lost mail is a *)
(* code used late or never, and so is an expired one.                      *)
(*                                                                         *)
(* A transaction that redeems a code is one step, its commit: what it       *)
(* writes does not depend on anything another transaction can change       *)
(* before that, and ShortCodes.tla shows that the redemption takes place   *)
(* there.  Lookups that a later statement relies on are steps of their own. *)
(***************************************************************************)
EXTENDS Naturals, FiniteSets

CONSTANTS Emails,     \* the addresses, and the owners of their mailboxes
          Roots,      \* the addresses SUPER_ADMIN_EMAIL may name
          Operator,   \* the person who chooses SUPER_ADMIN_PASSWORD
          Users,      \* the ids of the accounts
          Codes,
          Sessions,   \* the requests in flight between two of their statements
          NoEmail, Nobody, NoUser

ASSUME AccountsAssumption ==
  /\ Roots \subseteq Emails
  /\ Operator \notin Emails
  /\ NoEmail \notin Emails
  /\ Nobody \notin Emails /\ Nobody # Operator
  /\ NoUser \notin Users

VARIABLES email,      \* email[u]: the account's address; NoEmail: no such row
          password,   \* password[u]: who chose it
          issued, live, spent,  \* the store
          about,      \* about[c]: what the row of code c says and where it was mailed
          signedIn,   \* the (person, account) pairs a token pair was signed for
          job,        \* job[s]: the locals of request s
          held,       \* history: held[u]: the addresses u has had
          holders,    \* history: holders[u]: those who have chosen its password
          asked       \* history: asked[u]: the address of its newest update code

rowVars == <<email, password, held, holders>>
store == <<issued, live, spent, about>>
vars == <<email, password, issued, live, spent, about, signedIn, job, held, holders, asked>>

People == Emails \union {Operator}

Usages == {"register", "validateEmail", "resetPassword"}
Pairs == ({"register"} \X Emails) \union ({"validateEmail", "resetPassword"} \X Users)

Store == INSTANCE OneTimeCodes

About == [pair : Pairs, data : Emails \union {NoEmail}, to : Emails]

Job == [op : {"none", "change", "bootstrap"} \union Usages,
        user : Users \union {NoUser},
        email : Emails \union {NoEmail},
        who : People \union {Nobody}]

NoJob == [op |-> "none", user |-> NoUser, email |-> NoEmail, who |-> Nobody]

Exists(u) == email[u] # NoEmail

\* credentials.email is UNIQUE.
Free(e) == \A u \in Users : email[u] # e
\* SELECT by email.
Lookup(e) == IF Free(e) THEN NoUser ELSE CHOOSE u \in Users : email[u] = e

\* Argon2: a stored hash verifies against the password it was made from, which stands
\* for the person who chose it.
Verifies(p, u) == password[u] = p

\* The claims of the request name account u.
Caller(p, u) == <<p, u>> \in signedIn

Start(s, op, u, e, p) ==
  /\ job[s] = NoJob
  /\ job' = [job EXCEPT ![s] = [op |-> op, user |-> u, email |-> e, who |-> p]]
Finish(s) == job' = [job EXCEPT ![s] = NoJob]

SetPassword(u, p) == /\ password' = [password EXCEPT ![u] = p]
                     /\ holders' = [holders EXCEPT ![u] = @ \union {p}]
SetEmail(u, e) == /\ Free(e)
                  /\ email' = [email EXCEPT ![u] = e]
                  /\ held' = [held EXCEPT ![u] = @ \union {e}]

\* A new row, of an id never used before.
Insert(u, e, p) == ~Exists(u) /\ SetEmail(u, e) /\ SetPassword(u, p)

\* p redeems code c of the pair, from the mail it came in.
Redeem(p, pair, c) == /\ c \in issued /\ about[c].to = p
                      /\ Store!Redeem(pair, c)
                      /\ UNCHANGED about

Init == /\ email = [u \in Users |-> NoEmail]
        /\ password = [u \in Users |-> Nobody]
        /\ Store!Init
        /\ about = [c \in {} |-> NoEmail]
        /\ signedIn = {}
        /\ job = [s \in Sessions |-> NoJob]
        /\ held = [u \in Users |-> {}] /\ holders = [u \in Users |-> {}]
        /\ asked = [u \in Users |-> NoEmail]

-----------------------------------------------------------------------------
(* Asking for a code.                                                       *)
AskRegister(s, e) ==
  /\ Free(e)
  /\ Start(s, "register", NoUser, e, Nobody)
  /\ UNCHANGED <<rowVars, store, signedIn, asked>>

\* Mutant: the account is taken from the request.
AskEmailUpdate_AnyAccount(s, p, u, e) ==
  /\ Exists(u) /\ Free(e)
  /\ Start(s, "validateEmail", u, e, p)
  /\ UNCHANGED <<rowVars, store, signedIn, asked>>

\* The account is the one of the access token.
AskEmailUpdate(s, p, u, e) ==
  /\ Caller(p, u)
  /\ Free(e)
  /\ Start(s, "validateEmail", u, e, p)
  /\ UNCHANGED <<rowVars, store, signedIn, asked>>

AskPasswordReset(s, e) ==
  \E u \in Users : /\ email[u] = e
                   /\ Start(s, "resetPassword", u, e, Nobody)
                   /\ UNCHANGED <<rowVars, store, signedIn, asked>>

PairOf(j) == <<j.op, IF j.op = "register" THEN j.email ELSE j.user>>
DataOf(j) == IF j.op = "validateEmail" THEN j.email ELSE NoEmail

\* Mutant: the confirmation of a new address goes to the old one.
Recipient_Account(j) == IF j.op = "validateEmail" THEN email[j.user] ELSE j.email

\* The address of the request, whatever has become of the account's.
Recipient(j) == j.email

Asks(s) == job[s].op \in Usages

\* Mutant: a live code is kept and mailed again.
IssueCode_KeepsLive(s, c) ==
  LET j == job[s] IN
  /\ Asks(s)
  /\ IF live[PairOf(j)] = {}
     THEN /\ Store!Issue(PairOf(j), c)
          /\ about' = [d \in issued \union {c} |->
               IF d = c THEN [pair |-> PairOf(j), data |-> DataOf(j), to |-> Recipient(j)]
                        ELSE about[d]]
     ELSE /\ about' = [d \in issued |-> IF d \in live[PairOf(j)]
                                        THEN [about[d] EXCEPT !.to = Recipient(j)]
                                        ELSE about[d]]
          /\ UNCHANGED <<issued, live, spent>>
  /\ asked' = IF j.op = "validateEmail" THEN [asked EXCEPT ![j.user] = j.email] ELSE asked
  /\ Finish(s)
  /\ UNCHANGED <<rowVars, signedIn>>

\* The row is committed and the mail goes out.
IssueCode(s, c) ==
  LET j == job[s] IN
  /\ Asks(s)
  /\ Store!Issue(PairOf(j), c)
  /\ about' = [d \in issued \union {c} |->
       IF d = c THEN [pair |-> PairOf(j), data |-> DataOf(j), to |-> Recipient(j)]
                ELSE about[d]]
  /\ asked' = IF j.op = "validateEmail" THEN [asked EXCEPT ![j.user] = j.email] ELSE asked
  /\ Finish(s)
  /\ UNCHANGED <<rowVars, signedIn>>

-----------------------------------------------------------------------------
(* Redeeming one.                                                           *)
\* The account is committed before its tokens are signed, which may fail.
Register(p, c, u) ==
  /\ Redeem(p, <<"register", p>>, c)
  /\ Insert(u, p, p)
  /\ signedIn' \in {signedIn, signedIn \union {<<p, u>>}}
  /\ UNCHANGED <<job, asked>>

UpdateEmail(p, u, c) ==
  /\ Redeem(p, <<"validateEmail", u>>, c)
  /\ Exists(u) /\ SetEmail(u, about[c].data)
  /\ UNCHANGED <<password, holders, signedIn, job, asked>>

\* Mutant: the code's target is not compared with the account.
ResetPassword_AnyTarget(p, u, c) ==
  /\ \E v \in Users : Redeem(p, <<"resetPassword", v>>, c)
  /\ Exists(u) /\ SetPassword(u, p)
  /\ UNCHANGED <<email, held, signedIn, job, asked>>

ResetPassword(p, u, c) ==
  /\ Redeem(p, <<"resetPassword", u>>, c)
  /\ Exists(u) /\ SetPassword(u, p)
  /\ UNCHANGED <<email, held, signedIn, job, asked>>

-----------------------------------------------------------------------------
(* With a password.                                                         *)
\* Mutant: any password will do.
SignIn_AnyPassword(p, u) ==
  /\ Exists(u)
  /\ signedIn' = signedIn \union {<<p, u>>}
  /\ UNCHANGED <<rowVars, store, job, asked>>

SignIn(p, u) ==
  /\ Exists(u) /\ Verifies(p, u)
  /\ signedIn' = signedIn \union {<<p, u>>}
  /\ UNCHANGED <<rowVars, store, job, asked>>

\* The current password is read, without a lock, and compared...
CompareCurrent(s, p, u) ==
  /\ Caller(p, u) /\ Verifies(p, u)
  /\ Start(s, "change", u, NoEmail, p)
  /\ UNCHANGED <<rowVars, store, signedIn, asked>>

\* ...and the update that follows looks at the id only.
ChangePassword(s) ==
  /\ job[s].op = "change"
  /\ SetPassword(job[s].user, job[s].who)
  /\ Finish(s)
  /\ UNCHANGED <<email, held, store, signedIn, asked>>

-----------------------------------------------------------------------------
(* The super-admin bootstrap: a lookup by address, then a write by id.      *)
Bootstrap(s, e) ==
  /\ Start(s, "bootstrap", Lookup(e), e, Operator)
  /\ UNCHANGED <<rowVars, store, signedIn, asked>>

BootstrapInsert(s, u) ==
  /\ job[s].op = "bootstrap" /\ job[s].user = NoUser
  /\ Insert(u, job[s].email, Operator)
  /\ Finish(s)
  /\ UNCHANGED <<store, signedIn, asked>>

BootstrapUpdate(s) ==
  /\ job[s].op = "bootstrap" /\ job[s].user # NoUser
  /\ SetPassword(job[s].user, Operator)
  /\ Finish(s)
  /\ UNCHANGED <<email, held, store, signedIn, asked>>

-----------------------------------------------------------------------------
\* A lost connection, a unique violation, an insert that lost to a newer code.
Fail(s) == /\ job[s] # NoJob
           /\ Finish(s)
           /\ UNCHANGED <<rowVars, store, signedIn, asked>>

InFlight(s) == \/ \E c \in Codes : IssueCode(s, c)
               \/ ChangePassword(s)
               \/ \E u \in Users : BootstrapInsert(s, u)
               \/ BootstrapUpdate(s)
               \/ Fail(s)

Begin(s) == \/ \E e \in Emails : AskRegister(s, e) \/ AskPasswordReset(s, e)
            \/ \E p \in People, u \in Users :
                 \/ \E e \in Emails : AskEmailUpdate(s, p, u, e)
                 \/ CompareCurrent(s, p, u)
            \/ \E e \in Roots : Bootstrap(s, e)

Redemption == \E p \in Emails, c \in Codes, u \in Users :
                Register(p, c, u) \/ UpdateEmail(p, u, c) \/ ResetPassword(p, u, c)

Next == \/ \E s \in Sessions : Begin(s) \/ InFlight(s)
        \/ Redemption
        \/ \E p \in People, u \in Users : SignIn(p, u)

Spec == Init /\ [][Next]_vars

-----------------------------------------------------------------------------
WellFormed(j) ==
  /\ j.op \in Usages \union {"bootstrap"} => j.email \in Emails
  /\ j.op \in {"validateEmail", "resetPassword", "change"} => j.user \in Users
  /\ j.op \in {"validateEmail", "change", "bootstrap"} => j.who \in People

TypeOK ==
  /\ email \in [Users -> Emails \union {NoEmail}]
  /\ password \in [Users -> People \union {Nobody}]
  /\ issued \subseteq Codes /\ spent \subseteq issued
  /\ live \in [Pairs -> SUBSET issued]
  /\ about \in [issued -> About]
  /\ signedIn \subseteq People \X Users
  /\ job \in [Sessions -> Job]
  /\ \A s \in Sessions : WellFormed(job[s])
  /\ held \in [Users -> SUBSET Emails]
  /\ holders \in [Users -> SUBSET People]
  /\ asked \in [Users -> Emails \union {NoEmail}]

\* Only the owner of an address the account has had, or the operator, ever
\* chooses its password: codes are never redeemed across accounts or purposes,
\* and a change of password needs the one before.
PasswordsEarned == \A u \in Users : holders[u] \subseteq held[u] \union {Operator}

\* Tokens are only signed for those who chose the account's password once.
SessionsEarned == \A p \in People, u \in Users :
  <<p, u>> \in signedIn => p \in holders[u]

\* An account only gets an address whose mailbox received a code for that very
\* account and purpose, and whose owner redeemed it, or one the operator named.
Confirmed(u, e) ==
  \E c \in spent : /\ about[c].to = e
                   /\ \/ about[c].pair = <<"register", e>>
                      \/ about[c].pair = <<"validateEmail", u>> /\ about[c].data = e
AddressesConfirmed == \A u \in Users : \A e \in held[u] : e \in Roots \/ Confirmed(u, e)

\* An account moves to the address it was last asked to move to: a code sent to
\* an earlier one has been replaced (Override of ShortCodeCreateEmailUpdate).
MovesFollowLastAsk ==
  [][\A u \in Users : Exists(u) /\ email'[u] # email[u] => email'[u] = asked[u]]_vars

\* The operations use the store the way its own contract allows, whoever asks for which
\* code meanwhile: what ShortCodes.tla proves of the table is what they rely on.
ImplementsStore == Store!Spec

-----------------------------------------------------------------------------
(* Why these hold.                                                          *)
\* What a request has established before its last statement.
JobsSound == \A s \in Sessions :
  /\ job[s].op = "validateEmail" => job[s].who \in holders[job[s].user]
  /\ job[s].op = "resetPassword" => job[s].email \in held[job[s].user]
  /\ job[s].op = "change" => job[s].who \in holders[job[s].user]
  /\ job[s].op = "bootstrap" => job[s].who = Operator /\ job[s].email \in Roots

\* Whom the code of each usage was mailed to.
CodesSound == \A c \in issued :
  /\ about[c].pair[1] = "register" => about[c].to = about[c].pair[2]
  /\ about[c].pair[1] = "validateEmail" => about[c].to = about[c].data
  /\ about[c].pair[1] = "resetPassword" => about[c].to \in held[about[c].pair[2]]

\* A code is live under its own pair, and an update code has the newest address.
LiveSound == \A pair \in Pairs : \A c \in live[pair] :
  /\ about[c].pair = pair
  /\ pair[1] = "validateEmail" => about[c].data = asked[pair[2]]

RowsSound == \A u \in Users : /\ Exists(u) => email[u] \in held[u]
                              /\ password[u] # Nobody => password[u] \in holders[u]

\* The inductive invariant: every password, session and address of an account
\* goes back to someone who had one of its addresses, at every stage of a request.
IInv == /\ TypeOK /\ PasswordsEarned /\ SessionsEarned /\ AddressesConfirmed
        /\ JobsSound /\ CodesSound /\ LiveSound
        /\ RowsSound

-----------------------------------------------------------------------------
(* What the code says of itself, and does not do.                           *)
\* "Reset path: the short code proves the caller owns the account's email."
ResetsComeFromOwner ==
  [][\A p \in Emails, u \in Users, c \in Codes : ResetPassword(p, u, c) => email[u] = p]_vars
=============================================================================
