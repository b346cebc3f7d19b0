--------------------------- MODULE SchemaMigrations ---------------------------
(****************************************************************************)
(* The six migrations, as functions of a database: how many are applied,    *)
(* the rows of users and of refresh_tokens.  A column the schema has not    *)
(* yet, or has not any more, is Null.                                       *)
(****************************************************************************)
EXTENDS Naturals

CONSTANT Null

Latest == 6

\* A unique index: NULLs are not equal to each other.
Unique(rows, column) ==
    \A r, s \in DOMAIN rows :
        rows[r][column] = rows[s][column] /\ rows[r][column] # Null => r = s

\* Mutant: the family is the user.
FamilyOfTheUser(tokens) == [t \in DOMAIN tokens |-> [tokens[t] EXCEPT !.family = tokens[t].user]]

\* family_id is the id of the row
FamilyOfItsOwn(tokens) == [t \in DOMAIN tokens |-> [tokens[t] EXCEPT !.family = t]]

\* the last path segment of what LIKE 'http%' matches
KeyOfPicture(users) ==
    [u \in DOMAIN users |-> [users[u] EXCEPT !.picture = IF @ = "url" THEN "key" ELSE @]]

\* lower(trim("email"))
Normalized(users) == [u \in DOMAIN users |-> [users[u] EXCEPT !.email.spelling = "lower"]]

\* "email" = lower("email"), which spaces do not break
Lowercase(users) == \A u \in DOMAIN users : users[u].email.spelling # "mixed"

\* Mutant: the constraint is added before the e-mails are normalized.
EmailsRefusedAsTheyAre(users) == ~Lowercase(users) \/ ~Unique(Normalized(users), "email")

\* the UPDATE runs into the unique index, or its result into the constraint
EmailsRefused(users) == ~Unique(Normalized(users), "email") \/ ~Lowercase(Normalized(users))

\* The next migration fails on the data.
UpRefused(d) ==
    \/ d.applied + 1 = 3 /\ ~(Unique(d.users, "email") /\ Unique(d.users, "facebookId"))
    \/ d.applied + 1 = 5 /\ EmailsRefused(d.users)

MigrateUp(d) ==
    LET n == d.applied + 1
    IN  [applied |-> n,
         tokens  |-> IF n = 2 THEN FamilyOfItsOwn(d.tokens) ELSE d.tokens,
         users   |-> CASE n = 4 -> KeyOfPicture(d.users)
                       [] n = 5 -> Normalized(d.users)
                       [] OTHER -> d.users]

NoFamilies(tokens) == [t \in DOMAIN tokens |-> [tokens[t] EXCEPT !.family = Null]]

\* The last one, undone: an index, a constraint or a table goes, or a column
\* gets its old name back; the values stay as they are.
MigrateDown(d) ==
    LET n == d.applied
    IN  [applied |-> n - 1,
         tokens  |-> CASE n = 1 -> <<>>
                       [] n = 2 -> NoFamilies(d.tokens)
                       [] OTHER -> d.tokens,
         users   |-> IF n = 1 THEN <<>> ELSE d.users]

----------------------------------------------------------------------------
\* the columns the models look at
ShapedUser(r) ==
    r = [email |-> [address |-> r.email.address, spelling |-> r.email.spelling],
         facebookId |-> r.facebookId, picture |-> r.picture]

ShapedToken(r) == r = [user |-> r.user, family |-> r.family]

Shaped(d) ==
    /\ d.applied \in 0..Latest
    /\ \A u \in DOMAIN d.users : ShapedUser(d.users[u])
    /\ \A t \in DOMAIN d.tokens : t # Null /\ ShapedToken(d.tokens[t])

\* What the migrations that are applied have put into effect: data the next
\* version of the code may rely on.
Fits(d) ==
    /\ d.applied >= 2 => \A t \in DOMAIN d.tokens : d.tokens[t].family # Null
    /\ d.applied >= 3 => Unique(d.users, "email") /\ Unique(d.users, "facebookId")
    /\ d.applied >= 4 => \A u \in DOMAIN d.users : d.users[u].picture # "url"
    /\ d.applied >= 5 => \A u \in DOMAIN d.users : d.users[u].email.spelling = "lower"
===============================================================================
