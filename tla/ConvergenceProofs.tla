-------------------------- MODULE ConvergenceProofs -------------------------
(***************************************************************************)
(* The rows end as the log says: replaying a topic, over old rows or       *)
(* without them, gives what the events say with hindsight.                 *)
(***************************************************************************)
EXTENDS ReadModelsProofs

-----------------------------------------------------------------------------
(***************************************************************************)
(* The last event of a kind                                                *)
(***************************************************************************)

\* Sets of positions have a largest and a smallest element, and Max and Min
\* are those.
LEMMA LargestPosition ==
  ASSUME NEW n \in Nat, NEW S, S \subseteq 0..n, S # {}
  PROVE  \E k \in S : \A j \in S : j <= k
<1> DEFINE R == OpToRel(<, Nat)
           D == {n - k : k \in S}
<1>1. D \subseteq Nat /\ D # {}
  <2>1. D \subseteq Nat
    OBVIOUS
  <2>2. PICK k \in S : TRUE
    OBVIOUS
  <2>3. n - k \in D
    BY <2>2
  <2> QED BY <2>1, <2>3
<1>2. IsWellFoundedOn(R, Nat)
  BY NatLessThanWellFounded
<1>3. \A x, y \in Nat : x < y => <<x, y>> \in R
  BY DEF OpToRel
<1> HIDE DEF R, D
<1>4. PICK x \in D : \A y \in D : ~ (<<y, x>> \in R)
  BY <1>1, <1>2, WFMin
<1>5. ASSUME NEW y \in D PROVE x <= y
  <2>1. x \in Nat /\ y \in Nat
    BY <1>1
  <2>2. ~ (y < x)
    BY <1>3, <1>4, <2>1
  <2> QED BY <2>1, <2>2
<1>6. PICK k \in S : x = n - k
  BY DEF D
<1>7. \A j \in S : n - j \in D
  BY DEF D
<1>8. \A j \in S : j <= k
  BY <1>5, <1>6, <1>7
<1> QED BY <1>8

LEMMA SmallestPosition ==
  ASSUME NEW S, S \subseteq Nat, S # {}
  PROVE  \E k \in S : \A j \in S : k <= j
<1> DEFINE R == OpToRel(<, Nat)
<1>1. IsWellFoundedOn(R, Nat)
  BY NatLessThanWellFounded
<1>2. \A x, y \in Nat : x < y => <<x, y>> \in R
  BY DEF OpToRel
<1> HIDE DEF R
<1>3. PICK k \in S : \A j \in S : ~ (<<j, k>> \in R)
  BY <1>1, WFMin
<1>4. ASSUME NEW j \in S PROVE k <= j
  <2>1. j \in Nat /\ k \in Nat
    OBVIOUS
  <2>2. ~ (j < k)
    BY <1>2, <1>3, <2>1
  <2> QED BY <2>1, <2>2
<1> QED BY <1>4

LEMMA MaxIs ==
  ASSUME NEW S, S \subseteq Nat, NEW m \in S, \A k \in S : k <= m
  PROVE  Max(S) = m
<1> DEFINE c == Max(S)
<1>1. c = CHOOSE x \in S : \A y \in S : x >= y
  BY DEF Max
<1>2. \E x \in S : \A y \in S : x >= y
  OBVIOUS
<1> HIDE DEF c
<1>3. c \in S /\ \A y \in S : c >= y
  BY <1>1, <1>2
<1>4. c \in Nat /\ m \in Nat
  BY <1>3
<1>5. c >= m /\ m >= c
  BY <1>3
<1>6. c = m
  BY <1>4, <1>5
<1> QED BY <1>6 DEF c

LEMMA MinIs ==
  ASSUME NEW S, S \subseteq Nat, NEW m \in S, \A k \in S : m <= k
  PROVE  Min(S) = m
<1> DEFINE c == Min(S)
<1>1. c = CHOOSE x \in S : \A y \in S : x <= y
  BY DEF Min
<1>2. \E x \in S : \A y \in S : x <= y
  OBVIOUS
<1> HIDE DEF c
<1>3. c \in S /\ \A y \in S : c <= y
  BY <1>1, <1>2
<1>4. c \in Nat /\ m \in Nat
  BY <1>3
<1>5. c <= m /\ m <= c
  BY <1>3
<1>6. c = m
  BY <1>4, <1>5
<1> QED BY <1>6 DEF c

\* The events about an id, of some kinds, among the first n.
About(n, id, types) == {k \in 1..n : log[k].id = id /\ log[k].type \in types}

LEMMA LastIs ==
  ASSUME NEW n \in Nat, NEW id, NEW types
  PROVE  /\ Last(n, id, types) \in {0} \cup About(n, id, types)
         /\ \A k \in About(n, id, types) : k <= Last(n, id, types)
<1> DEFINE S == {0} \cup About(n, id, types)
<1>1. S \subseteq 0..n /\ S \subseteq Nat /\ S # {}
  BY DEF About
<1>2. Last(n, id, types) = Max(S)
  BY DEF Last, About
<1> HIDE DEF S
<1>3. PICK m \in S : \A k \in S : k <= m
  BY <1>1, LargestPosition
<1>4. Max(S) = m
  BY <1>1, <1>3, MaxIs
<1>5. Last(n, id, types) \in S /\ \A k \in S : k <= Last(n, id, types)
  BY <1>2, <1>3, <1>4
<1> QED BY <1>5 DEF S

\* One more event is the last, or changes nothing.
LEMMA LastNext ==
  ASSUME NEW n \in Nat, NEW id, NEW types
  PROVE  Last(n + 1, id, types) =
           IF log[n + 1].id = id /\ log[n + 1].type \in types THEN n + 1 ELSE Last(n, id, types)
<1> DEFINE S == {0} \cup About(n + 1, id, types)
           m == Last(n, id, types)
<1>1. S \subseteq Nat /\ \A k \in S : k <= n + 1
  BY DEF About
<1>2. Last(n + 1, id, types) = Max(S)
  BY DEF Last, About
<1>3. CASE log[n + 1].id = id /\ log[n + 1].type \in types
  <2>1. n + 1 \in S
    BY <1>3 DEF About
  <2> HIDE DEF S
  <2>2. Max(S) = n + 1
    BY <1>1, <2>1, MaxIs
  <2> QED BY <1>2, <1>3, <2>2
<1>4. CASE ~ (log[n + 1].id = id /\ log[n + 1].type \in types)
  <2>1. S = {0} \cup About(n, id, types)
    BY <1>4 DEF About
  <2>2. m \in S /\ m \in Nat /\ \A k \in S : k <= m
    <3>1. m \in S /\ \A k \in About(n, id, types) : k <= m
      BY <2>1, LastIs
    <3> HIDE DEF S, m
    <3> QED BY <1>1, <2>1, <3>1
  <2> HIDE DEF S, m
  <2>3. Max(S) = m
    BY <1>1, <2>2, MaxIs
  <2> QED BY <1>2, <1>4, <2>3 DEF m
<1> QED BY <1>3, <1>4

\* Where Last is, and that it is about what it is asked for.
LEMMA LastType ==
  ASSUME NEW n \in Nat, NEW id, NEW types
  PROVE  /\ Last(n, id, types) \in 0..n /\ Last(n, id, types) \in Nat
         /\ Last(n, id, types) > 0 =>
              log[Last(n, id, types)].id = id /\ log[Last(n, id, types)].type \in types
         /\ \A k \in 1..n : log[k].id = id /\ log[k].type \in types => k <= Last(n, id, types)
BY LastIs DEF About

\* Appending to the log does not change what its first n events say.
LEMMA LastStays ==
  ASSUME NEW n \in Nat, NEW id, NEW types, \A k \in 1..n : log'[k] = log[k]
  PROVE  Last(n, id, types)' = Last(n, id, types)
<1>1. {k \in 1..n : log'[k].id = id /\ log'[k].type \in types}
        = {k \in 1..n : log[k].id = id /\ log[k].type \in types}
  OBVIOUS
<1> QED BY <1>1 DEF Last


-----------------------------------------------------------------------------
(***************************************************************************)
(* What one more event makes the log say                                   *)
(***************************************************************************)

\* Of an account.
UserEventTypes == {"registered", "profile_updated", "deactivated"}

LEMMA UserSaysNext ==
  ASSUME NEW n \in Nat, NEW u
  PROVE  LET e == log[n + 1]
         IN  /\ e.id # u \/ e.type \notin UserEventTypes => UserSays(n + 1, u) = UserSays(n, u)
             /\ e.id = u /\ e.type = "registered" => UserSays(n + 1, u) = NewUser(e.value)
             /\ e.id = u /\ e.type = "profile_updated" =>
                  UserSays(n + 1, u) = [UserSays(n, u) EXCEPT !.profile = e.value]
             /\ e.id = u /\ e.type = "deactivated" =>
                  UserSays(n + 1, u) = [UserSays(n, u) EXCEPT !.state = "deactivated"]
<1> DEFINE e == log[n + 1]
           L(m, types) == Last(m, u, types)
<1>1. \A types : L(n + 1, types) = IF e.id = u /\ e.type \in types THEN n + 1 ELSE L(n, types)
  BY LastNext
<1>2. \A types : L(n, types) \in Nat /\ ~ (L(n, types) > n) /\ n + 1 > L(n, types)
  BY LastType
<1>3. \A m : UserSays(m, u) =
         [name |-> log[L(m, {"registered"})].value,
          profile |-> IF L(m, {"profile_updated"}) > L(m, {"registered"})
                      THEN log[L(m, {"profile_updated"})].value ELSE None,
          state |-> IF L(m, {"deactivated"}) > L(m, {"registered"}) THEN "deactivated" ELSE "active"]
  BY DEF UserSays
<1> HIDE DEF L
<1>4. CASE e.id # u \/ e.type \notin UserEventTypes
  <2>1. \A t \in UserEventTypes : L(n + 1, {t}) = L(n, {t})
    BY <1>1, <1>4
  <2> QED BY <1>3, <1>4, <2>1 DEF UserEventTypes
<1>5. CASE e.id = u /\ e.type = "registered"
  <2>1. L(n + 1, {"registered"}) = n + 1
    BY <1>1, <1>5
  <2>2. ~ (L(n + 1, {"profile_updated"}) > n + 1) /\ ~ (L(n + 1, {"deactivated"}) > n + 1)
    BY <1>1, <1>2, <1>5
  <2>3. UserSays(n + 1, u) = NewUser(e.value)
    BY <1>3, <2>1, <2>2 DEF NewUser
  <2> QED BY <1>5, <2>3 DEF UserEventTypes
<1>6. CASE e.id = u /\ e.type = "profile_updated"
  <2>1. L(n + 1, {"profile_updated"}) = n + 1
    BY <1>1, <1>6
  <2>2. /\ L(n + 1, {"registered"}) = L(n, {"registered"})
        /\ L(n + 1, {"deactivated"}) = L(n, {"deactivated"})
    BY <1>1, <1>6
  <2>3. UserSays(n + 1, u) = [UserSays(n, u) EXCEPT !.profile = e.value]
    BY <1>2, <1>3, <2>1, <2>2
  <2> QED BY <1>6, <2>3 DEF UserEventTypes
<1>7. CASE e.id = u /\ e.type = "deactivated"
  <2>1. L(n + 1, {"deactivated"}) = n + 1
    BY <1>1, <1>7
  <2>2. /\ L(n + 1, {"registered"}) = L(n, {"registered"})
        /\ L(n + 1, {"profile_updated"}) = L(n, {"profile_updated"})
    BY <1>1, <1>7
  <2>3. UserSays(n + 1, u) = [UserSays(n, u) EXCEPT !.state = "deactivated"]
    BY <1>2, <1>3, <2>1, <2>2
  <2> QED BY <1>7, <2>3 DEF UserEventTypes
<1> QED BY <1>4, <1>5, <1>6, <1>7 DEF UserEventTypes

\* Of a repository: which event set a field last.
RepoEventTypes == {"created", "renamed", "changed", "deleted"}

SetBy(n, r, f) ==
  {k \in Last(n, r, {"created"})..n : log[k].id = r /\ log[k].type = "changed" /\ log[k].field = f}

Setting(n, r, f) == IF SetBy(n, r, f) = {} THEN None ELSE log[Max(SetBy(n, r, f))].value

LEMMA RepoSaysIs ==
  ASSUME NEW n, NEW r
  PROVE  RepoSays(n, r) =
           [name |-> log[Last(n, r, {"created", "renamed"})].value,
            settings |-> [f \in Fields |-> Setting(n, r, f)],
            deleted |-> Last(n, r, {"deleted"}) > Last(n, r, {"created"})]
BY DEF RepoSays, Setting, SetBy

LEMMA SettingNext ==
  ASSUME NEW n \in Nat, NEW r, NEW f
  PROVE  LET e == log[n + 1]
         IN  /\ e.id = r /\ e.type = "created" => Setting(n + 1, r, f) = None
             /\ e.id = r /\ e.type = "changed" /\ e.field = f => Setting(n + 1, r, f) = e.value
             /\ e.id # r \/ (e.type # "created" /\ e.type # "changed")
                  \/ (e.type = "changed" /\ e.field # f)
                => Setting(n + 1, r, f) = Setting(n, r, f)
<1> DEFINE e == log[n + 1]
           S == SetBy(n, r, f)
           S1 == SetBy(n + 1, r, f)
           c == Last(n, r, {"created"})
           c1 == Last(n + 1, r, {"created"})
<1>1. c \in 0..n /\ c1 = IF e.id = r /\ e.type = "created" THEN n + 1 ELSE c
  BY LastNext, LastType
<1>2. /\ S = {k \in c..n : log[k].id = r /\ log[k].type = "changed" /\ log[k].field = f}
      /\ S1 = {k \in c1..(n + 1) : log[k].id = r /\ log[k].type = "changed" /\ log[k].field = f}
  BY DEF SetBy
<1>3. /\ Setting(n, r, f) = IF S = {} THEN None ELSE log[Max(S)].value
      /\ Setting(n + 1, r, f) = IF S1 = {} THEN None ELSE log[Max(S1)].value
  BY DEF Setting
<1> HIDE DEF S, S1, c, c1
<1>4. CASE e.id = r /\ e.type = "created"
  <2>1. S1 = {}
    BY <1>1, <1>2, <1>4
  <2> QED BY <1>3, <1>4, <2>1
<1>5. CASE e.id = r /\ e.type = "changed" /\ e.field = f
  <2>1. c1 = c /\ n + 1 \in c1..(n + 1)
    BY <1>1, <1>5
  <2>2. n + 1 \in S1
    BY <1>2, <1>5, <2>1
  <2>3. S1 \subseteq Nat /\ \A k \in S1 : k <= n + 1
    BY <1>1, <1>2, <2>1
  <2>4. Max(S1) = n + 1
    BY <2>2, <2>3, MaxIs
  <2> QED BY <1>3, <1>5, <2>2, <2>4
<1>6. CASE e.id # r \/ (e.type # "created" /\ e.type # "changed") \/ (e.type = "changed" /\ e.field # f)
  <2>1. c1 = c
    BY <1>1, <1>6
  <2>2. \A k : k \in c1..(n + 1) <=> k \in c..n \/ k = n + 1
    BY <1>1, <2>1
  <2>3. S1 = S
    BY <1>2, <1>6, <2>2
  <2>4. ~ (e.id = r /\ e.type = "created") /\ ~ (e.id = r /\ e.type = "changed" /\ e.field = f)
    BY <1>6
  <2>5. Setting(n + 1, r, f) = Setting(n, r, f)
    BY <1>3, <2>3
  <2> QED BY <2>4, <2>5
<1> QED BY <1>4, <1>5, <1>6

LEMMA RepoSaysNext ==
  ASSUME NEW n \in Nat, NEW r
  PROVE  LET e == log[n + 1]
         IN  /\ e.id # r \/ e.type \notin RepoEventTypes => RepoSays(n + 1, r) = RepoSays(n, r)
             /\ e.id = r /\ e.type = "created" => RepoSays(n + 1, r) = NewRepo(e.value)
             /\ e.id = r /\ e.type = "renamed" =>
                  RepoSays(n + 1, r) = [RepoSays(n, r) EXCEPT !.name = e.value]
             /\ e.id = r /\ e.type = "changed" =>
                  RepoSays(n + 1, r) = [RepoSays(n, r) EXCEPT !.settings[e.field] = e.value]
             /\ e.id = r /\ e.type = "deleted" =>
                  RepoSays(n + 1, r) = [RepoSays(n, r) EXCEPT !.deleted = TRUE]
<1> DEFINE e == log[n + 1]
           c(m) == Last(m, r, {"created"})
           d(m) == Last(m, r, {"deleted"})
           w(m) == Last(m, r, {"created", "renamed"})
           name(m) == log[w(m)].value
           set(m) == [f \in Fields |-> Setting(m, r, f)]
<1>1. /\ c(n + 1) = IF e.id = r /\ e.type = "created" THEN n + 1 ELSE c(n)
      /\ d(n + 1) = IF e.id = r /\ e.type = "deleted" THEN n + 1 ELSE d(n)
      /\ w(n + 1) = IF e.id = r /\ e.type \in {"created", "renamed"} THEN n + 1 ELSE w(n)
  <2>1. \A types : Last(n + 1, r, types) =
          IF e.id = r /\ e.type \in types THEN n + 1 ELSE Last(n, r, types)
    BY LastNext
  <2> QED BY <2>1
<1>2. c(n) \in 0..n /\ d(n) \in 0..n /\ w(n) \in 0..n
  BY LastType
<1>3. \A m : RepoSays(m, r) = [name |-> name(m), settings |-> set(m), deleted |-> d(m) > c(m)]
  BY RepoSaysIs
<1>4. e.id # r \/ (e.type # "created" /\ e.type # "changed") => set(n + 1) = set(n)
  BY SettingNext
<1>5. e.id = r /\ e.type = "created" => set(n + 1) = [f \in Fields |-> None]
  BY SettingNext
<1>6. e.id = r /\ e.type = "changed" => set(n + 1) = [set(n) EXCEPT ![e.field] = e.value]
  BY SettingNext
<1>7. name(n + 1) = IF e.id = r /\ e.type \in {"created", "renamed"} THEN e.value ELSE name(n)
  BY <1>1
<1>8. (d(n + 1) > c(n + 1)) = IF e.id = r /\ e.type = "created" THEN FALSE
                              ELSE IF e.id = r /\ e.type = "deleted" THEN TRUE ELSE d(n) > c(n)
  <2>1. CASE e.id = r /\ e.type = "created"
    <3>1. (d(n + 1) > c(n + 1)) = FALSE
      BY <1>1, <1>2, <2>1
    <3> QED BY <2>1, <3>1
  <2>2. CASE e.id = r /\ e.type = "deleted"
    <3>1. d(n + 1) > c(n + 1)
      BY <1>1, <1>2, <2>2
    <3> QED BY <2>2, <3>1
  <2>3. CASE ~ (e.id = r /\ e.type = "created") /\ ~ (e.id = r /\ e.type = "deleted")
    <3>1. d(n + 1) = d(n) /\ c(n + 1) = c(n)
      BY <1>1, <2>3
    <3> QED BY <2>3, <3>1
  <2> QED BY <2>1, <2>2, <2>3
<1> DEFINE was == RepoSays(n, r)
<1>9. was = [name |-> name(n), settings |-> set(n), deleted |-> d(n) > c(n)]
  BY <1>3
<1>10. RepoSays(n + 1, r) =
         [name |-> name(n + 1), settings |-> set(n + 1), deleted |-> d(n + 1) > c(n + 1)]
  BY <1>3
<1> DEFINE gone == d(n) > c(n)
           gone1 == d(n + 1) > c(n + 1)
<1>11. was = [name |-> name(n), settings |-> set(n), deleted |-> gone]
       /\ RepoSays(n + 1, r) = [name |-> name(n + 1), settings |-> set(n + 1), deleted |-> gone1]
  BY <1>9, <1>10
<1>12. gone1 = IF e.id = r /\ e.type = "created" THEN FALSE
               ELSE IF e.id = r /\ e.type = "deleted" THEN TRUE ELSE gone
  BY <1>8
<1> HIDE DEF set, name, was, gone, gone1
<1>13. CASE e.id # r \/ e.type \notin RepoEventTypes
  <2>1. set(n + 1) = set(n) /\ name(n + 1) = name(n) /\ gone1 = gone
    BY <1>13, <1>4, <1>7, <1>12 DEF RepoEventTypes
  <2>2. RepoSays(n + 1, r) = was
    BY <1>11, <2>1
  <2> QED BY <1>13, <2>2 DEF RepoEventTypes, was
<1>14. CASE e.id = r /\ e.type = "created"
  <2>1. set(n + 1) = [f \in Fields |-> None] /\ name(n + 1) = e.value /\ gone1 = FALSE
    BY <1>14, <1>5, <1>7, <1>12
  <2>2. RepoSays(n + 1, r) = NewRepo(e.value)
    BY <1>11, <2>1 DEF NewRepo
  <2> QED BY <1>14, <2>2 DEF RepoEventTypes
<1>15. CASE e.id = r /\ e.type = "renamed"
  <2>1. set(n + 1) = set(n) /\ name(n + 1) = e.value /\ gone1 = gone
    BY <1>15, <1>4, <1>7, <1>12
  <2>2. RepoSays(n + 1, r) = [was EXCEPT !.name = e.value]
    BY <1>11, <2>1
  <2> QED BY <1>15, <2>2 DEF RepoEventTypes, was
<1>16. CASE e.id = r /\ e.type = "changed"
  <2>1. set(n + 1) = [set(n) EXCEPT ![e.field] = e.value] /\ name(n + 1) = name(n) /\ gone1 = gone
    BY <1>16, <1>6, <1>7, <1>12
  <2>2. [was EXCEPT !.settings[e.field] = e.value] = [was EXCEPT !.settings = set(n + 1)]
    BY <1>11, <2>1
  <2>3. RepoSays(n + 1, r) = [was EXCEPT !.settings = set(n + 1)]
    BY <1>11, <2>1
  <2> QED BY <1>16, <2>2, <2>3 DEF RepoEventTypes, was
<1>17. CASE e.id = r /\ e.type = "deleted"
  <2>1. set(n + 1) = set(n) /\ name(n + 1) = name(n) /\ gone1 = TRUE
    BY <1>17, <1>4, <1>7, <1>12
  <2>2. RepoSays(n + 1, r) = [name |-> name(n), settings |-> set(n), deleted |-> TRUE]
    BY <1>11, <2>1
  <2> DEFINE t == TRUE
  <2> HIDE DEF t
  <2>3. [was EXCEPT !.deleted = t] = [name |-> name(n), settings |-> set(n), deleted |-> t]
    BY <1>11
  <2>4. RepoSays(n + 1, r) = [was EXCEPT !.deleted = TRUE]
    BY <2>2, <2>3 DEF t
  <2> QED BY <1>17, <2>4 DEF RepoEventTypes, was
<1> QED BY <1>13, <1>14, <1>15, <1>16, <1>17 DEF RepoEventTypes

\* Of an issue, but for the number of its comments.
IssueEventTypes == {"opened", "title_changed", "closed", "reopened"}

LEMMA IssueSaysNext ==
  ASSUME NEW n \in Nat, NEW i
  PROVE  LET e == log[n + 1]
             was == IssueSays(n, i)
             says == IssueSays(n + 1, i)
         IN  /\ e.id # i \/ e.type \notin IssueEventTypes =>
                  says.title = was.title /\ says.state = was.state /\ says.closed_at = was.closed_at
             /\ e.id = i /\ e.type = "opened" =>
                  says.title = e.value /\ says.state = "open" /\ says.closed_at = 0
             /\ e.id = i /\ e.type = "title_changed" =>
                  says.title = e.value /\ says.state = was.state /\ says.closed_at = was.closed_at
             /\ e.id = i /\ e.type = "closed" =>
                  says.title = was.title /\ says.state = "closed" /\ says.closed_at = n + 1
             /\ e.id = i /\ e.type = "reopened" =>
                  says.title = was.title /\ says.state = "open" /\ says.closed_at = 0
<1> DEFINE e == log[n + 1]
           o(m) == Last(m, i, {"opened"})
           t(m) == Last(m, i, {"title_changed"})
           s(m) == Last(m, i, {"opened", "closed", "reopened"})
           title(m) == IF t(m) > o(m) THEN log[t(m)].value ELSE log[o(m)].value
           state(m) == IF log[s(m)].type = "closed" THEN "closed" ELSE "open"
           at(m) == IF log[s(m)].type = "closed" THEN s(m) ELSE 0
<1>1. \A m : /\ IssueSays(m, i).title = title(m) /\ IssueSays(m, i).state = state(m)
             /\ IssueSays(m, i).closed_at = at(m)
  BY DEF IssueSays
<1>2. \A types : Last(n + 1, i, types) =
        IF e.id = i /\ e.type \in types THEN n + 1 ELSE Last(n, i, types)
  BY LastNext
<1>3. /\ o(n + 1) = IF e.id = i /\ e.type = "opened" THEN n + 1 ELSE o(n)
      /\ t(n + 1) = IF e.id = i /\ e.type = "title_changed" THEN n + 1 ELSE t(n)
      /\ s(n + 1) = IF e.id = i /\ e.type \in {"opened", "closed", "reopened"} THEN n + 1 ELSE s(n)
  BY <1>2
<1>4. o(n) \in 0..n /\ t(n) \in 0..n
  BY LastType
<1>5. title(n + 1) =
        IF e.id = i /\ e.type \in {"opened", "title_changed"} THEN e.value ELSE title(n)
  BY <1>3, <1>4
<1>6. /\ state(n + 1) = IF e.id = i /\ e.type \in {"opened", "closed", "reopened"}
                        THEN IF e.type = "closed" THEN "closed" ELSE "open" ELSE state(n)
      /\ at(n + 1) = IF e.id = i /\ e.type \in {"opened", "closed", "reopened"}
                     THEN IF e.type = "closed" THEN n + 1 ELSE 0 ELSE at(n)
  BY <1>3
<1> HIDE DEF title, state, at
<1> QED BY <1>1, <1>5, <1>6 DEF IssueEventTypes

\* Of a pull request: its first merge, the last reopening before it, and the
\* verdicts since then that were about the commits it was at.
FirstMergeOf(n, p) == Min({n + 1} \cup {k \in 1..n : log[k].id = p /\ log[k].type = "merged"})

ReopeningOf(n, p) == Last(FirstMergeOf(n, p) - 1, p, {"reopened"})

AtItsCommits(k, p) ==
  LET at == log[Last(k, p, {"opened", "synchronized"})]
  IN  at.head = log[k].check.head /\ at.base = log[k].check.base

HeardOf(n, p) ==
  {k \in ReopeningOf(n, p) + 1..n :
     log[k].id = p /\ log[k].type = "mergeability_computed" /\ AtItsCommits(k, p)}

CheckOf(n, p) == IF HeardOf(n, p) = {} THEN None ELSE log[Max(HeardOf(n, p))].check

LEMMA PullSaysIs ==
  ASSUME NEW n, NEW p
  PROVE  LET s == Last(n, p, {"opened", "synchronized"})
             m == Last(n, p, {"merged"})
             c == Last(n, p, {"opened", "closed", "reopened"})
         IN  PullSays(n, p) =
               [state |-> IF m > 0 THEN "merged"
                          ELSE IF log[c].type = "closed" THEN "closed" ELSE "open",
                head |-> log[s].head, base |-> log[s].base, check |-> CheckOf(n, p),
                merged_at |-> m,
                closed_at |-> IF m > 0 THEN m ELSE IF log[c].type = "closed" THEN c ELSE 0]
BY DEF PullSays, CheckOf, HeardOf, AtItsCommits, ReopeningOf, FirstMergeOf

LEMMA FirstMergeNext ==
  ASSUME NEW n \in Nat, NEW p
  PROVE  LET e == log[n + 1]
         IN  /\ FirstMergeOf(n, p) \in 1..(n + 1)
             /\ Last(n, p, {"merged"}) = 0 => FirstMergeOf(n, p) = n + 1
             /\ FirstMergeOf(n + 1, p) =
                  IF Last(n, p, {"merged"}) > 0 THEN FirstMergeOf(n, p)
                  ELSE IF e.id = p /\ e.type = "merged" THEN n + 1 ELSE n + 2
<1> DEFINE e == log[n + 1]
           M(m) == {k \in 1..m : log[k].id = p /\ log[k].type = "merged"}
           S(m) == {m + 1} \cup M(m)
           F == FirstMergeOf(n, p)
<1>1. \A m : FirstMergeOf(m, p) = Min(S(m))
  BY DEF FirstMergeOf
<1>2. S(n) \subseteq Nat /\ S(n) # {} /\ S(n + 1) \subseteq Nat /\ S(n) \subseteq 1..(n + 1)
  OBVIOUS
<1>3. PICK f \in S(n) : \A k \in S(n) : f <= k
  <2> HIDE DEF S
  <2> QED BY <1>2, SmallestPosition
<1>4. F = f
  <2> HIDE DEF S
  <2> QED BY <1>1, <1>2, <1>3, MinIs
<1>5. Last(n, p, {"merged"}) \in 0..n /\ (Last(n, p, {"merged"}) > 0 <=> M(n) # {})
  BY LastType
<1>6. CASE Last(n, p, {"merged"}) > 0
  <2>1. PICK k \in M(n) : TRUE
    BY <1>5, <1>6
  <2>2. f <= k /\ k <= n /\ f \in Nat
    BY <1>2, <1>3, <2>1
  <2>3. f \in S(n + 1) /\ \A j \in S(n + 1) : f <= j
    BY <1>3, <2>2
  <2>4. Min(S(n + 1)) = f
    <3> HIDE DEF S
    <3> QED BY <1>2, <2>3, MinIs
  <2>5. FirstMergeOf(n + 1, p) = F
    BY <1>1, <1>4, <2>4
  <2> QED BY <1>2, <1>3, <1>4, <1>6, <2>5
<1>7. CASE Last(n, p, {"merged"}) = 0
  <2>1. M(n) = {} /\ S(n) = {n + 1}
    BY <1>5, <1>7
  <2>2. F = n + 1
    BY <1>3, <1>4, <2>1
  <2>3. CASE e.id = p /\ e.type = "merged"
    <3>1. S(n + 1) = {n + 2, n + 1}
      BY <2>1, <2>3
    <3>2. n + 1 \in S(n + 1) /\ \A k \in S(n + 1) : n + 1 <= k
      BY <3>1
    <3>3. Min(S(n + 1)) = n + 1
      <4> HIDE DEF S
      <4> QED BY <1>2, <3>2, MinIs
    <3> QED BY <1>1, <1>7, <2>2, <2>3, <3>3
  <2>4. CASE ~ (e.id = p /\ e.type = "merged")
    <3>1. S(n + 1) = {n + 2}
      BY <2>1, <2>4
    <3>2. n + 2 \in S(n + 1) /\ \A k \in S(n + 1) : n + 2 <= k
      BY <3>1
    <3>3. Min(S(n + 1)) = n + 2
      <4> HIDE DEF S
      <4> QED BY <1>2, <3>2, MinIs
    <3> QED BY <1>1, <1>7, <2>2, <2>4, <3>3
  <2> QED BY <2>3, <2>4
<1> QED BY <1>5, <1>6, <1>7

LEMMA ReopeningNext ==
  ASSUME NEW n \in Nat, NEW p
  PROVE  LET e == log[n + 1]
         IN  /\ ReopeningOf(n, p) \in 0..n
             /\ ReopeningOf(n + 1, p) =
                  IF Last(n, p, {"merged"}) = 0 /\ e.id = p /\ e.type = "reopened"
                  THEN n + 1 ELSE ReopeningOf(n, p)
<1> DEFINE e == log[n + 1]
           F == FirstMergeOf(n, p)
           F1 == FirstMergeOf(n + 1, p)
           m == Last(n, p, {"merged"})
<1>1. /\ F \in 1..(n + 1) /\ (m = 0 => F = n + 1)
      /\ F1 = IF m > 0 THEN F ELSE IF e.id = p /\ e.type = "merged" THEN n + 1 ELSE n + 2
  BY FirstMergeNext
<1>2. m \in 0..n
  BY LastType
<1>3. /\ ReopeningOf(n, p) = Last(F - 1, p, {"reopened"})
      /\ ReopeningOf(n + 1, p) = Last(F1 - 1, p, {"reopened"})
  BY DEF ReopeningOf
<1> HIDE DEF F, F1, m
<1>4. F - 1 \in 0..n /\ F - 1 \in Nat
  BY <1>1
<1>5. Last(F - 1, p, {"reopened"}) \in 0..(F - 1)
  BY <1>4, LastType
<1>6. ReopeningOf(n, p) \in 0..n
  BY <1>3, <1>4, <1>5
<1>7. CASE m > 0
  <2>1. F1 = F
    BY <1>1, <1>7
  <2> QED BY <1>2, <1>3, <1>6, <1>7, <2>1 DEF m
<1>8. CASE m = 0 /\ e.id = p /\ e.type = "merged"
  <2>1. F1 = F
    BY <1>1, <1>8
  <2> QED BY <1>3, <1>6, <1>8, <2>1 DEF m
<1>9. CASE m = 0 /\ ~ (e.id = p /\ e.type = "merged")
  <2>1. F = n + 1 /\ F1 = n + 2 /\ F - 1 = n /\ F1 - 1 = n + 1
    BY <1>1, <1>9
  <2>2. Last(n + 1, p, {"reopened"}) =
          IF e.id = p /\ e.type \in {"reopened"} THEN n + 1 ELSE Last(n, p, {"reopened"})
    <3> DEFINE types == {"reopened"}
    <3> HIDE DEF types
    <3>1. Last(n + 1, p, types) =
            IF log[n + 1].id = p /\ log[n + 1].type \in types THEN n + 1 ELSE Last(n, p, types)
      BY LastNext
    <3> QED BY <3>1 DEF types
  <2> QED BY <1>3, <1>6, <1>9, <2>1, <2>2 DEF m
<1> QED BY <1>2, <1>7, <1>8, <1>9

LEMMA CheckNext ==
  ASSUME NEW n \in Nat, NEW p
  PROVE  LET e == log[n + 1]
             reopens == Last(n, p, {"merged"}) = 0 /\ e.id = p /\ e.type = "reopened"
             tells == e.id = p /\ e.type = "mergeability_computed" /\ AtItsCommits(n + 1, p)
         IN  /\ reopens => CheckOf(n + 1, p) = None
             /\ tells => CheckOf(n + 1, p) = e.check
             /\ ~ reopens /\ ~ tells => CheckOf(n + 1, p) = CheckOf(n, p)
             /\ (\A k \in 1..n : log[k].id # p) => CheckOf(n, p) = None
<1> DEFINE e == log[n + 1]
           R == ReopeningOf(n, p)
           R1 == ReopeningOf(n + 1, p)
           H == HeardOf(n, p)
           H1 == HeardOf(n + 1, p)
           reopens == Last(n, p, {"merged"}) = 0 /\ e.id = p /\ e.type = "reopened"
           tells == e.id = p /\ e.type = "mergeability_computed" /\ AtItsCommits(n + 1, p)
           Told(k) == log[k].id = p /\ log[k].type = "mergeability_computed" /\ AtItsCommits(k, p)
<1>1. R \in 0..n /\ R1 = IF reopens THEN n + 1 ELSE R
  BY ReopeningNext
<1>2. H = {k \in R + 1..n : Told(k)} /\ H1 = {k \in R1 + 1..n + 1 : Told(k)}
  BY DEF HeardOf
<1>3. /\ CheckOf(n, p) = IF H = {} THEN None ELSE log[Max(H)].check
      /\ CheckOf(n + 1, p) = IF H1 = {} THEN None ELSE log[Max(H1)].check
  BY DEF CheckOf
<1>4. tells = Told(n + 1)
  OBVIOUS
<1>a. ~ (reopens /\ tells)
  OBVIOUS
<1>5. (\A k \in 1..n : log[k].id # p) => CheckOf(n, p) = None
  <2>1. (\A k \in 1..n : log[k].id # p) => H = {}
    BY <1>1, <1>2
  <2> QED BY <1>3, <2>1
<1> HIDE DEF R, R1, H, H1, reopens, tells, Told
<1>6. CASE reopens
  <2>1. H1 = {}
    BY <1>1, <1>2, <1>6
  <2> QED BY <1>3, <1>5, <1>6, <1>a, <2>1 DEF reopens, tells
<1>7. CASE tells
  <2>1. R1 = R
    BY <1>1, <1>7, <1>a
  <2>2. n + 1 \in H1 /\ H1 \subseteq Nat /\ \A k \in H1 : k <= n + 1
    BY <1>1, <1>2, <1>4, <1>7, <2>1
  <2>3. Max(H1) = n + 1
    BY <2>2, MaxIs
  <2> QED BY <1>3, <1>5, <1>7, <1>a, <2>2, <2>3 DEF reopens, tells
<1>8. CASE ~ reopens /\ ~ tells
  <2>1. R1 = R /\ ~ Told(n + 1)
    BY <1>1, <1>4, <1>8
  <2>2. \A k : k \in R + 1..n + 1 <=> k \in R + 1..n \/ k = n + 1
    BY <1>1
  <2>3. H1 = H
    BY <1>2, <2>1, <2>2
  <2> QED BY <1>3, <1>5, <1>8, <2>3 DEF reopens, tells
<1> QED BY <1>6, <1>7, <1>8

PullEventTypes ==
  {"opened", "synchronized", "mergeability_computed", "merged", "closed", "reopened"}

\* Its row, field by field, and what the events make of it.
Row(st, h, b, ch, ma, ca) ==
  [state |-> st, head |-> h, base |-> b, check |-> ch, merged_at |-> ma, closed_at |-> ca]

LEMMA FieldsChanged ==
  \A st, h, b, ch, ma, ca, x, y :
    /\ SyncedPull(Row(st, h, b, ch, ma, ca), x, y) = Row(st, x, y, ch, ma, ca)
    /\ MergedPull(Row(st, h, b, ch, ma, ca), x) = Row("merged", h, b, ch, x, x)
    /\ ClosePull(Row(st, h, b, ch, ma, ca), x) =
         IF st # "merged" THEN Row("closed", h, b, ch, ma, x) ELSE Row(st, h, b, ch, ma, ca)
    /\ ReopenPull(Row(st, h, b, ch, ma, ca)) =
         IF st # "merged" THEN Row("open", h, b, None, ma, 0) ELSE Row(st, h, b, ch, ma, ca)
    /\ Checked(Row(st, h, b, ch, ma, ca), x) =
         IF h = x.head /\ b = x.base THEN Row(st, h, b, x, ma, ca) ELSE Row(st, h, b, ch, ma, ca)
    /\ PullRow(x, y) = Row("open", x, y, None, 0, 0)
<1> TAKE st, h, b, ch, ma, ca, x, y
<1> DEFINE row == Row(st, h, b, ch, ma, ca)
<1>0. row.state = st /\ row.head = h /\ row.base = b
  BY DEF Row
<1>1. ASSUME NEW r, r = [row EXCEPT !.head = x, !.base = y]
      PROVE  r = Row(st, x, y, ch, ma, ca)
  BY <1>1 DEF Row
<1>2. ASSUME NEW r, r = [row EXCEPT !.state = "merged", !.merged_at = x, !.closed_at = x]
      PROVE  r = Row("merged", h, b, ch, x, x)
  BY <1>2 DEF Row
<1>3. ASSUME NEW r, r = [row EXCEPT !.state = "closed", !.closed_at = x]
      PROVE  r = Row("closed", h, b, ch, ma, x)
  BY <1>3 DEF Row
<1>4. ASSUME NEW r, r = [row EXCEPT !.state = "open", !.closed_at = 0, !.check = None]
      PROVE  r = Row("open", h, b, None, ma, 0)
  BY <1>4 DEF Row
<1>5. ASSUME NEW r, r = [row EXCEPT !.check = x]
      PROVE  r = Row(st, h, b, x, ma, ca)
  BY <1>5 DEF Row
<1>6. PullRow(x, y) = Row("open", x, y, None, 0, 0)
  BY DEF PullRow, Row
<1> HIDE DEF row
<1>7. SyncedPull(row, x, y) = Row(st, x, y, ch, ma, ca)
  BY <1>1 DEF SyncedPull
<1>8. MergedPull(row, x) = Row("merged", h, b, ch, x, x)
  BY <1>2 DEF MergedPull
<1>9. ClosePull(row, x) = IF st # "merged" THEN Row("closed", h, b, ch, ma, x) ELSE row
  BY <1>0, <1>3 DEF ClosePull
<1>10. ReopenPull(row) = IF st # "merged" THEN Row("open", h, b, None, ma, 0) ELSE row
  BY <1>0, <1>4 DEF ReopenPull
<1>11. Checked(row, x) = IF h = x.head /\ b = x.base THEN Row(st, h, b, x, ma, ca) ELSE row
  BY <1>0, <1>5 DEF Checked
<1> QED BY <1>6, <1>7, <1>8, <1>9, <1>10, <1>11 DEF row

LEMMA PullSaysNext ==
  ASSUME NEW n \in Nat, NEW p
  PROVE  LET e == log[n + 1]
             was == PullSays(n, p)
             says == PullSays(n + 1, p)
         IN  /\ e.id # p \/ e.type \notin PullEventTypes => says = was
             /\ e.id = p /\ e.type = "opened" /\ (\A k \in 1..n : log[k].id # p) =>
                  says = PullRow(e.head, e.base)
             /\ e.id = p /\ e.type = "synchronized" => says = SyncedPull(was, e.head, e.base)
             /\ e.id = p /\ e.type = "mergeability_computed" => says = Checked(was, e.check)
             /\ e.id = p /\ e.type = "merged" => says = MergedPull(was, n + 1)
             /\ e.id = p /\ e.type = "closed" => says = ClosePull(was, n + 1)
             /\ e.id = p /\ e.type = "reopened" => says = ReopenPull(was)
<1> DEFINE e == log[n + 1]
           s(k) == Last(k, p, {"opened", "synchronized"})
           m(k) == Last(k, p, {"merged"})
           c(k) == Last(k, p, {"opened", "closed", "reopened"})
           state(k) == IF m(k) > 0 THEN "merged"
                       ELSE IF log[c(k)].type = "closed" THEN "closed" ELSE "open"
           closed(k) == IF m(k) > 0 THEN m(k) ELSE IF log[c(k)].type = "closed" THEN c(k) ELSE 0
           head(k) == log[s(k)].head
           base(k) == log[s(k)].base
           check(k) == CheckOf(k, p)
           fresh == \A k \in 1..n : log[k].id # p
           was == PullSays(n, p)
           says == PullSays(n + 1, p)
<1>1. \A types : Last(n + 1, p, types) =
        IF e.id = p /\ e.type \in types THEN n + 1 ELSE Last(n, p, types)
  BY LastNext
<1>2. /\ s(n + 1) = IF e.id = p /\ e.type \in {"opened", "synchronized"} THEN n + 1 ELSE s(n)
      /\ m(n + 1) = IF e.id = p /\ e.type = "merged" THEN n + 1 ELSE m(n)
      /\ c(n + 1) = IF e.id = p /\ e.type \in {"opened", "closed", "reopened"} THEN n + 1 ELSE c(n)
  BY <1>1
<1>3. m(n) \in Nat /\ n + 1 > 0
  BY LastType
<1>4. fresh => m(n) = 0
  BY LastType
<1>5. AtItsCommits(n + 1, p) = (log[s(n + 1)].head = e.check.head /\ log[s(n + 1)].base = e.check.base)
  BY DEF AtItsCommits
<1>6. /\ e.id = p /\ e.type = "reopened" /\ m(n) = 0 => check(n + 1) = None
      /\ e.id = p /\ e.type = "mergeability_computed"
           /\ head(n) = e.check.head /\ base(n) = e.check.base
           => check(n + 1) = e.check
      /\ e.id # p \/ e.type \notin {"reopened", "mergeability_computed"} => check(n + 1) = check(n)
      /\ e.id = p /\ e.type = "reopened" /\ m(n) # 0 => check(n + 1) = check(n)
      /\ e.id = p /\ e.type = "mergeability_computed"
           /\ ~ (head(n) = e.check.head /\ base(n) = e.check.base) => check(n + 1) = check(n)
      /\ fresh => check(n) = None
  BY <1>2, <1>5, CheckNext
<1>7. /\ was = Row(state(n), head(n), base(n), check(n), m(n), closed(n))
      /\ says = Row(state(n + 1), head(n + 1), base(n + 1), check(n + 1), m(n + 1), closed(n + 1))
  BY PullSaysIs DEF Row
<1>8. /\ state(n) = "merged" <=> m(n) # 0
      /\ e.id # p \/ e.type \notin {"opened", "merged", "closed", "reopened"} =>
           state(n + 1) = state(n) /\ closed(n + 1) = closed(n)
      /\ e.id = p /\ e.type \in {"opened", "closed", "reopened"} /\ m(n) # 0 =>
           state(n + 1) = state(n) /\ closed(n + 1) = closed(n)
      /\ e.id = p /\ e.type \in {"opened", "reopened"} /\ m(n) = 0 =>
           state(n + 1) = "open" /\ closed(n + 1) = 0
      /\ e.id = p /\ e.type = "closed" /\ m(n) = 0 => state(n + 1) = "closed" /\ closed(n + 1) = n + 1
      /\ e.id = p /\ e.type = "merged" => state(n + 1) = "merged" /\ closed(n + 1) = n + 1
  BY <1>2, <1>3
<1>9. /\ head(n + 1) = IF e.id = p /\ e.type \in {"opened", "synchronized"} THEN e.head ELSE head(n)
      /\ base(n + 1) = IF e.id = p /\ e.type \in {"opened", "synchronized"} THEN e.base ELSE base(n)
      /\ m(n + 1) = IF e.id = p /\ e.type = "merged" THEN n + 1 ELSE m(n)
  BY <1>2
<1> HIDE DEF e, s, m, c, state, closed, head, base, check, fresh, was, says
<1>10. CASE e.id # p \/ e.type \notin PullEventTypes
  <2>1. says = was
    BY <1>6, <1>7, <1>8, <1>9, <1>10 DEF PullEventTypes
  <2> QED BY <1>10, <2>1 DEF PullEventTypes, e, was, says
<1>11. CASE e.id = p /\ e.type = "opened"
  <2>1. fresh => says = PullRow(e.head, e.base)
    BY FieldsChanged, <1>6, <1>7, <1>8, <1>9, <1>11, <1>4
  <2> QED BY <1>11, <2>1 DEF PullEventTypes, e, was, says, fresh
<1>12. CASE e.id = p /\ e.type = "synchronized"
  <2>1. says = SyncedPull(was, e.head, e.base)
    BY FieldsChanged, <1>6, <1>7, <1>8, <1>9, <1>12
  <2> QED BY <1>12, <2>1 DEF PullEventTypes, e, was, says
<1>13. CASE e.id = p /\ e.type = "mergeability_computed"
  <2>1. says = Checked(was, e.check)
    BY FieldsChanged, <1>6, <1>7, <1>8, <1>9, <1>13
  <2> QED BY <1>13, <2>1 DEF PullEventTypes, e, was, says
<1>14. CASE e.id = p /\ e.type = "merged"
  <2>1. says = MergedPull(was, n + 1)
    BY FieldsChanged, <1>6, <1>7, <1>8, <1>9, <1>14
  <2> QED BY <1>14, <2>1 DEF PullEventTypes, e, was, says
<1>15. CASE e.id = p /\ e.type = "closed"
  <2>1. says = ClosePull(was, n + 1)
    BY FieldsChanged, <1>6, <1>7, <1>8, <1>9, <1>15
  <2> QED BY <1>15, <2>1 DEF PullEventTypes, e, was, says
<1>16. CASE e.id = p /\ e.type = "reopened"
  <2>1. says = ReopenPull(was)
    BY FieldsChanged, <1>6, <1>7, <1>8, <1>9, <1>16
  <2> QED BY <1>16, <2>1 DEF PullEventTypes, e, was, says
<1> QED
  BY <1>10, <1>11, <1>12, <1>13, <1>14, <1>15, <1>16 DEF PullEventTypes, e

-----------------------------------------------------------------------------
(***************************************************************************)
(* What the first events say stays said                                    *)
(***************************************************************************)
Kept(n) == \A k \in 1..n : log'[k] = log[k]

LEMMA UserSaysStays ==
  ASSUME NEW n \in Nat, NEW u, Kept(n), Last(n, u, {"registered"}) > 0
  PROVE  UserSays(n, u)' = UserSays(n, u)
<1> DEFINE r == Last(n, u, {"registered"})
           p == Last(n, u, {"profile_updated"})
           d == Last(n, u, {"deactivated"})
<1>1. r' = r /\ p' = p /\ d' = d
  BY LastStays DEF Kept
<1>2. r \in 1..n /\ p \in 0..n
  BY LastType
<1>3. UserSays(n, u) = [name |-> log[r].value, profile |-> IF p > r THEN log[p].value ELSE None,
                        state |-> IF d > r THEN "deactivated" ELSE "active"]
  BY DEF UserSays
<1>4. UserSays(n, u)' = [name |-> log'[r'].value, profile |-> IF p' > r' THEN log'[p'].value ELSE None,
                         state |-> IF d' > r' THEN "deactivated" ELSE "active"]
  BY DEF UserSays
<1> HIDE DEF r, p, d
<1>5. log'[r] = log[r] /\ (p > r => log'[p] = log[p])
  BY <1>2 DEF Kept
<1> QED BY <1>1, <1>3, <1>4, <1>5

LEMMA RepoSaysStays ==
  ASSUME NEW n \in Nat, NEW r, Kept(n), Last(n, r, {"created"}) > 0
  PROVE  RepoSays(n, r)' = RepoSays(n, r)
<1> DEFINE c == Last(n, r, {"created"})
           w == Last(n, r, {"created", "renamed"})
           d == Last(n, r, {"deleted"})
<1>1. c' = c /\ w' = w /\ d' = d
  BY LastStays DEF Kept
<1>2. c \in 1..n /\ log[c].id = r /\ log[c].type = "created"
  BY LastType
<1>3. w \in 1..n
  BY <1>2, LastType
<1>4. ASSUME NEW f
      PROVE  Setting(n, r, f)' = Setting(n, r, f)
  <2> DEFINE S == SetBy(n, r, f)
  <2>1. S = {k \in c..n : log[k].id = r /\ log[k].type = "changed" /\ log[k].field = f}
    BY DEF SetBy
  <2>2. S' = {k \in c'..n : log'[k].id = r /\ log'[k].type = "changed" /\ log'[k].field = f}
    BY DEF SetBy
  <2>3. S' = S
    <3> HIDE DEF S, c
    <3> QED BY <1>1, <1>2, <2>1, <2>2 DEF Kept
  <2>4. S # {} => Max(S) \in 1..n
    <3>1. S \subseteq 1..n
      BY <1>2, <2>1
    <3> HIDE DEF S
    <3> SUFFICES ASSUME S # {} PROVE Max(S) \in 1..n
      OBVIOUS
    <3>a. S \subseteq 0..n /\ S \subseteq Nat
      BY <3>1
    <3>2. PICK m \in S : \A k \in S : k <= m
      BY <3>a, LargestPosition
    <3>3. Max(S) = m
      BY <3>a, <3>2, MaxIs
    <3> QED BY <3>1, <3>3
  <2>5. /\ Setting(n, r, f) = IF S = {} THEN None ELSE log[Max(S)].value
        /\ Setting(n, r, f)' = IF S' = {} THEN None ELSE log'[Max(S')].value
    BY DEF Setting, Max
  <2> HIDE DEF S
  <2> QED BY <2>3, <2>4, <2>5 DEF Kept
<1>5. RepoSays(n, r) = [name |-> log[w].value, settings |-> [f \in Fields |-> Setting(n, r, f)],
                        deleted |-> d > c]
  BY RepoSaysIs
<1>6. RepoSays(n, r)' = [name |-> log'[w'].value, settings |-> [f \in Fields |-> Setting(n, r, f)'],
                         deleted |-> d' > c']
  BY DEF RepoSays, Setting, SetBy, Max
<1>7. [f \in Fields |-> Setting(n, r, f)'] = [f \in Fields |-> Setting(n, r, f)]
  BY <1>4
<1> HIDE DEF c, w, d
<1>8. log'[w] = log[w]
  BY <1>3 DEF Kept
<1> QED BY <1>1, <1>5, <1>6, <1>7, <1>8

LEMMA IssueSaysStays ==
  ASSUME NEW n \in Nat, NEW i, Kept(n), Last(n, i, {"opened"}) > 0
  PROVE  /\ IssueSays(n, i)'.title = IssueSays(n, i).title
         /\ IssueSays(n, i)'.state = IssueSays(n, i).state
         /\ IssueSays(n, i)'.closed_at = IssueSays(n, i).closed_at
<1> DEFINE o == Last(n, i, {"opened"})
           t == Last(n, i, {"title_changed"})
           s == Last(n, i, {"opened", "closed", "reopened"})
<1>1. o' = o /\ t' = t /\ s' = s
  BY LastStays DEF Kept
<1>2. o \in 1..n /\ log[o].id = i /\ log[o].type = "opened" /\ t \in 0..n
  BY LastType
<1>3. s \in 1..n
  BY <1>2, LastType
<1>4. /\ IssueSays(n, i).title = (IF t > o THEN log[t].value ELSE log[o].value)
      /\ IssueSays(n, i).state = (IF log[s].type = "closed" THEN "closed" ELSE "open")
      /\ IssueSays(n, i).closed_at = (IF log[s].type = "closed" THEN s ELSE 0)
  BY DEF IssueSays
<1>5. /\ IssueSays(n, i)'.title = (IF t' > o' THEN log'[t'].value ELSE log'[o'].value)
      /\ IssueSays(n, i)'.state = (IF log'[s'].type = "closed" THEN "closed" ELSE "open")
      /\ IssueSays(n, i)'.closed_at = (IF log'[s'].type = "closed" THEN s' ELSE 0)
  BY DEF IssueSays
<1> HIDE DEF o, t, s
<1>6. log'[o] = log[o] /\ log'[s] = log[s] /\ (t > o => log'[t] = log[t])
  BY <1>2, <1>3 DEF Kept
<1> QED BY <1>1, <1>4, <1>5, <1>6

LEMMA PullSaysStays ==
  ASSUME NEW n \in Nat, NEW p, Kept(n), NEW o \in 1..n, log[o].id = p, log[o].type = "opened",
         \A k \in 1..n : log[k].id = p => o <= k
  PROVE  PullSays(n, p)' = PullSays(n, p)
<1> DEFINE s == Last(n, p, {"opened", "synchronized"})
           m == Last(n, p, {"merged"})
           c == Last(n, p, {"opened", "closed", "reopened"})
           F == FirstMergeOf(n, p)
           R == ReopeningOf(n, p)
           H == HeardOf(n, p)
<1>1. s' = s /\ m' = m /\ c' = c
  BY LastStays DEF Kept
<1>2. s \in 1..n /\ c \in 1..n
  BY LastType
<1>3. F' = F /\ F - 1 \in Nat /\ F - 1 <= n
  <2>1. F \in 1..(n + 1)
    BY FirstMergeNext
  <2>2. {k \in 1..n : log'[k].id = p /\ log'[k].type = "merged"}
          = {k \in 1..n : log[k].id = p /\ log[k].type = "merged"}
    BY DEF Kept
  <2>3. F' = F
    BY <2>2 DEF FirstMergeOf, Min
  <2> QED BY <2>1, <2>3
<1>4. R' = R /\ R \in 0..n
  <2>1. PICK f \in Nat : f = F - 1
    BY <1>3
  <2>2. R = Last(f, p, {"reopened"})
    BY <2>1 DEF ReopeningOf
  <2>3. R' = Last(f, p, {"reopened"})'
    BY <1>3, <2>1 DEF ReopeningOf, Last, Max
  <2>4. Last(f, p, {"reopened"})' = Last(f, p, {"reopened"})
    BY <1>3, <2>1, LastStays DEF Kept
  <2> QED BY <2>2, <2>3, <2>4, ReopeningNext
<1>5. ASSUME NEW k \in 1..n, log[k].id = p
      PROVE  AtItsCommits(k, p)' = AtItsCommits(k, p)
  <2> DEFINE l == Last(k, p, {"opened", "synchronized"})
  <2>1. o \in 1..k
    BY <1>5
  <2>2. l \in 1..k /\ k \in Nat
    BY <2>1, LastType
  <2>3. l' = l
    BY <2>2, LastStays DEF Kept
  <2>4. /\ AtItsCommits(k, p) = (log[l].head = log[k].check.head /\ log[l].base = log[k].check.base)
        /\ AtItsCommits(k, p)' =
             (log'[l'].head = log'[k].check.head /\ log'[l'].base = log'[k].check.base)
    BY DEF AtItsCommits
  <2> HIDE DEF l
  <2>5. log'[l] = log[l] /\ log'[k] = log[k]
    BY <2>2 DEF Kept
  <2> QED BY <2>3, <2>4, <2>5
<1>6. H' = H /\ H \subseteq 1..n
  <2>1. H =
          {k \in R + 1..n : log[k].id = p /\ log[k].type = "mergeability_computed"
                            /\ AtItsCommits(k, p)}
    BY DEF HeardOf
  <2>2. H' =
          {k \in R' + 1..n : log'[k].id = p /\ log'[k].type = "mergeability_computed"
                             /\ AtItsCommits(k, p)'}
    BY DEF HeardOf
  <2> HIDE DEF H, R
  <2>3. \A k \in R + 1..n : k \in 1..n /\ log'[k] = log[k]
    BY <1>4 DEF Kept
  <2> QED BY <1>4, <1>5, <2>1, <2>2, <2>3
<1>7. CheckOf(n, p)' = CheckOf(n, p)
  <2>1. /\ CheckOf(n, p) = IF H = {} THEN None ELSE log[Max(H)].check
        /\ CheckOf(n, p)' = IF H' = {} THEN None ELSE log'[Max(H')].check
    BY DEF CheckOf, Max
  <2> HIDE DEF H
  <2>2. H # {} => Max(H) \in 1..n
    <3> SUFFICES ASSUME H # {} PROVE Max(H) \in 1..n
      OBVIOUS
    <3>1. H \subseteq 0..n /\ H \subseteq Nat
      BY <1>6
    <3>2. PICK q \in H : \A k \in H : k <= q
      BY <3>1, LargestPosition
    <3>3. Max(H) = q
      BY <3>1, <3>2, MaxIs
    <3> QED BY <1>6, <3>3
  <2> QED BY <1>6, <2>1, <2>2 DEF Kept
<1>8. PullSays(n, p) =
        Row(IF m > 0 THEN "merged" ELSE IF log[c].type = "closed" THEN "closed" ELSE "open",
            log[s].head, log[s].base, CheckOf(n, p), m,
            IF m > 0 THEN m ELSE IF log[c].type = "closed" THEN c ELSE 0)
  BY PullSaysIs DEF Row
<1>9. PullSays(n, p)' =
        Row(IF m' > 0 THEN "merged" ELSE IF log'[c'].type = "closed" THEN "closed" ELSE "open",
            log'[s'].head, log'[s'].base, CheckOf(n, p)', m',
            IF m' > 0 THEN m' ELSE IF log'[c'].type = "closed" THEN c' ELSE 0)
  BY DEF PullSays, CheckOf, HeardOf, AtItsCommits, ReopeningOf, FirstMergeOf, Row
<1> HIDE DEF s, m, c
<1>10. log'[s] = log[s] /\ log'[c] = log[c]
  BY <1>2 DEF Kept
<1> QED BY <1>1, <1>7, <1>8, <1>9, <1>10

-----------------------------------------------------------------------------
(***************************************************************************)
(* The inductive invariant: what has been applied so far has made the rows *)
(* of the ids it gave birth to, and the comments and reviews it brought,   *)
(* whatever rows were there before.                                        *)
(***************************************************************************)
UsersTold ==
  topic = "users" => \A n \in Nat, u \in Ids :
    n = applied /\ Last(n, u, {"registered"}) > 0 =>
      u \in DOMAIN db.users /\ db.users[u] = UserSays(n, u)

ReposTold ==
  topic = "repos" => \A n \in Nat, r \in Ids :
    n = applied /\ Last(n, r, {"created"}) > 0 =>
      r \in DOMAIN db.repos /\ db.repos[r] = RepoSays(n, r)

IssuesTold ==
  topic = "issues" => \A n \in Nat, i \in Ids :
    n = applied /\ Last(n, i, {"opened"}) > 0 =>
      /\ i \in DOMAIN db.issues
      /\ db.issues[i].title = IssueSays(n, i).title
      /\ db.issues[i].state = IssueSays(n, i).state
      /\ db.issues[i].closed_at = IssueSays(n, i).closed_at

PullsTold ==
  topic = "prs" => \A n \in Nat, p \in Ids :
    n = applied /\ Last(n, p, {"opened"}) > 0 =>
      p \in DOMAIN db.pulls /\ db.pulls[p] = PullSays(n, p)

TalkTold ==
  \A k \in 1..applied :
    /\ log[k].type = "commented" => k \in DOMAIN db.comments
    /\ log[k].type = "reviewed" => k \in DOMAIN db.reviews

\* What the tables hold in the middle of a replay, some event has told before.
ReposBorn ==
  \A r \in DOMAIN db.repos : \E k \in 1..seen : log[k].type = "created" /\ log[k].id = r

ReviewsHeard == \A k \in DOMAIN db.reviews : k \in 1..seen /\ log[k].type = "reviewed"

\* Nobody comments on an issue, or reviews a pull request, that was never opened.
TalkFollows ==
  \A k \in DOMAIN log : log[k].type \in {"commented", "reviewed"} =>
    \E j \in DOMAIN log : log[j].type = "opened" /\ log[j].id = log[k].id

\* The event applied last would change nothing.
Settled == applied > 0 => ApplyDecoded(db, applied) = db

Convergent ==
  /\ UsersTold /\ ReposTold /\ IssuesTold /\ PullsTold /\ TalkTold
  /\ ReposBorn /\ ReviewsHeard /\ TalkFollows /\ Settled

\* A step of any kind keeps the topic; projecting one event keeps the log, and
\* has the effect of its topic.
LEMMA ProjectsOne ==
  ASSUME TypeOK, Counted, Project
  PROVE  \E n \in Nat :
           /\ n = applied /\ n + 1 = applied' /\ Kept(n + 1) /\ n + 1 \in DOMAIN log
           /\ log[n + 1].id \in Ids
           /\ Effect(db, db', log[n + 1], n + 1)
<1>1. PICK n \in Nat : n = applied
  BY DEF TypeOK
<1>2. n + 1 = applied' /\ Kept(n + 1)
  BY <1>1, Projects DEF Kept
<1>3. n + 1 \in DOMAIN log /\ log[n + 1].id \in Ids /\ Effect(db, db', log[n + 1], n + 1)
  BY <1>1, Projects DEF TypeOK
<1> QED BY <1>1, <1>2, <1>3

\* Any other step keeps what the applied events said.
LEMMA OtherSteps ==
  ASSUME TypeOK, Counted, [Next]_vars, ~ Project
  PROVE  /\ topic' = topic
         /\ \/ applied' = 0 /\ (db' = db \/ db' = Empty)
            \/ applied' = applied /\ db' = db
         /\ \A n \in Nat : n = applied' => Kept(n)
<1>1. Replay \/ Commands
  BY StepKinds
<1>2. \A k \in 1..seen : log'[k] = log[k]
  BY SeenStays
<1>3. applied \in Nat /\ seen \in Nat /\ applied <= seen
  BY DEF TypeOK
<1> QED BY <1>1, <1>2, <1>3 DEF Replay, Commands, OnlyCommands, Kept

LEMMA TopicStays ==
  ASSUME TypeOK, Counted, [Next]_vars
  PROVE  topic' = topic
BY StepKinds DEF Project, Replay, Commands, OnlyCommands

LEMMA UsersToldStep ==
  ASSUME TypeOK, Counted, UsersTold, [Next]_vars
  PROVE  UsersTold'
<1> SUFFICES ASSUME topic = "users", NEW m \in Nat, NEW u \in Ids, m = applied',
                    Last(m, u, {"registered"})' > 0
             PROVE  u \in DOMAIN db'.users /\ db'.users[u] = UserSays(m, u)'
  BY TopicStays DEF UsersTold
<1>1. CASE Project
  <2>1. PICK n \in Nat : /\ n = applied /\ n + 1 = applied' /\ Kept(n + 1)
                         /\ Effect(db, db', log[n + 1], n + 1)
    BY <1>1, ProjectsOne
  <2> DEFINE e == log[n + 1]
  <2>2. m = n + 1
    BY <2>1
  <2>3. Last(m, u, {"registered"}) > 0
    BY <2>1, <2>2, LastStays DEF Kept
  <2>4. UserSays(m, u)' = UserSays(m, u)
    BY <2>1, <2>2, <2>3, UserSaysStays
  <2>5. ~ (e.id = u /\ e.type = "registered") =>
          u \in DOMAIN db.users /\ db.users[u] = UserSays(n, u)
    BY <2>1, <2>2, <2>3, LastNext DEF UsersTold
  <2>6. \/ db' = db /\ e.type \in {"unknown", "collaborator"}
        \/ UserStep(db, db', e)
    BY <2>1 DEF Effect, RepoStep, IssueStep, PullStep
  <2>7. /\ e.id # u \/ e.type \notin UserEventTypes => UserSays(m, u) = UserSays(n, u)
        /\ e.id = u /\ e.type = "registered" => UserSays(m, u) = NewUser(e.value)
        /\ e.id = u /\ e.type = "profile_updated" =>
             UserSays(m, u) = [UserSays(n, u) EXCEPT !.profile = e.value]
        /\ e.id = u /\ e.type = "deactivated" =>
             UserSays(m, u) = [UserSays(n, u) EXCEPT !.state = "deactivated"]
    BY <2>2, UserSaysNext
  <2> HIDE DEF e
  <2>8. CASE db' = db /\ e.type \in {"unknown", "collaborator"}
    BY <2>4, <2>5, <2>7, <2>8 DEF UserEventTypes
  <2>9. CASE UserStep(db, db', e)
    <3>1. CASE e.id # u
      BY <2>4, <2>5, <2>7, <2>9, <3>1 DEF UserStep, Inserted, Changed
    <3>2. CASE e.id = u
      BY <2>4, <2>5, <2>7, <2>9, <3>2 DEF UserStep, Inserted, Changed
    <3> QED BY <3>1, <3>2
  <2> QED BY <2>6, <2>8, <2>9
<1>2. CASE ~ Project
  <2>1. Kept(m)
    BY <1>2, OtherSteps
  <2>2. Last(m, u, {"registered"}) > 0
    BY <2>1, LastStays DEF Kept
  <2>3. m > 0
    BY <2>2, LastType
  <2>4. applied' = applied /\ db' = db
    BY <1>2, <2>3, OtherSteps
  <2> QED BY <2>1, <2>2, <2>4, UserSaysStays DEF UsersTold
<1> QED BY <1>1, <1>2

LEMMA ReposToldStep ==
  ASSUME TypeOK, Counted, ReposTold, [Next]_vars
  PROVE  ReposTold'
<1> SUFFICES ASSUME topic = "repos", NEW m \in Nat, NEW r \in Ids, m = applied',
                    Last(m, r, {"created"})' > 0
             PROVE  r \in DOMAIN db'.repos /\ db'.repos[r] = RepoSays(m, r)'
  BY TopicStays DEF ReposTold
<1>1. CASE Project
  <2>1. PICK n \in Nat : /\ n = applied /\ n + 1 = applied' /\ Kept(n + 1)
                         /\ Effect(db, db', log[n + 1], n + 1)
    BY <1>1, ProjectsOne
  <2> DEFINE e == log[n + 1]
  <2>2. m = n + 1
    BY <2>1
  <2>3. Last(m, r, {"created"}) > 0
    BY <2>1, <2>2, LastStays DEF Kept
  <2>4. RepoSays(m, r)' = RepoSays(m, r)
    BY <2>1, <2>2, <2>3, RepoSaysStays
  <2>5. ~ (e.id = r /\ e.type = "created") =>
          r \in DOMAIN db.repos /\ db.repos[r] = RepoSays(n, r)
    BY <2>1, <2>2, <2>3, LastNext DEF ReposTold
  <2>6. \/ db' = db /\ e.type \in {"unknown", "collaborator"}
        \/ RepoStep(db, db', e)
    BY <2>1 DEF Effect, UserStep, IssueStep, PullStep
  <2>7. /\ e.id # r \/ e.type \notin RepoEventTypes => RepoSays(m, r) = RepoSays(n, r)
        /\ e.id = r /\ e.type = "created" => RepoSays(m, r) = NewRepo(e.value)
        /\ e.id = r /\ e.type = "renamed" => RepoSays(m, r) = [RepoSays(n, r) EXCEPT !.name = e.value]
        /\ e.id = r /\ e.type = "changed" =>
             RepoSays(m, r) = [RepoSays(n, r) EXCEPT !.settings[e.field] = e.value]
        /\ e.id = r /\ e.type = "deleted" => RepoSays(m, r) = [RepoSays(n, r) EXCEPT !.deleted = TRUE]
    BY <2>2, RepoSaysNext
  <2> HIDE DEF e
  <2>8. CASE db' = db /\ e.type \in {"unknown", "collaborator"}
    BY <2>4, <2>5, <2>7, <2>8 DEF RepoEventTypes
  <2>9. CASE RepoStep(db, db', e)
    <3>1. CASE e.id # r
      BY <2>4, <2>5, <2>7, <2>9, <3>1 DEF RepoStep, Inserted, Changed
    <3>2. CASE e.id = r
      BY <2>4, <2>5, <2>7, <2>9, <3>2 DEF RepoStep, Inserted, Changed
    <3> QED BY <3>1, <3>2
  <2> QED BY <2>6, <2>8, <2>9
<1>2. CASE ~ Project
  <2>1. Kept(m)
    BY <1>2, OtherSteps
  <2>2. Last(m, r, {"created"}) > 0
    BY <2>1, LastStays DEF Kept
  <2>3. m > 0
    BY <2>2, LastType
  <2>4. applied' = applied /\ db' = db
    BY <1>2, <2>3, OtherSteps
  <2> QED BY <2>1, <2>2, <2>4, RepoSaysStays DEF ReposTold
<1> QED BY <1>1, <1>2

LEMMA IssuesToldStep ==
  ASSUME TypeOK, Counted, IssuesTold, [Next]_vars
  PROVE  IssuesTold'
<1> SUFFICES ASSUME topic = "issues", NEW m \in Nat, NEW i \in Ids, m = applied',
                    Last(m, i, {"opened"})' > 0
             PROVE  /\ i \in DOMAIN db'.issues
                    /\ db'.issues[i].title = IssueSays(m, i)'.title
                    /\ db'.issues[i].state = IssueSays(m, i)'.state
                    /\ db'.issues[i].closed_at = IssueSays(m, i)'.closed_at
  BY TopicStays DEF IssuesTold
<1>1. CASE Project
  <2>1. PICK n \in Nat : /\ n = applied /\ n + 1 = applied' /\ Kept(n + 1)
                         /\ Effect(db, db', log[n + 1], n + 1)
    BY <1>1, ProjectsOne
  <2> DEFINE e == log[n + 1]
             was == IssueSays(n, i)
             says == IssueSays(m, i)
  <2>2. m = n + 1
    BY <2>1
  <2>3. Last(m, i, {"opened"}) > 0
    BY <2>1, <2>2, LastStays DEF Kept
  <2>4. /\ IssueSays(m, i)'.title = says.title /\ IssueSays(m, i)'.state = says.state
        /\ IssueSays(m, i)'.closed_at = says.closed_at
    BY <2>1, <2>2, <2>3, IssueSaysStays
  <2>5. ~ (e.id = i /\ e.type = "opened") =>
          /\ i \in DOMAIN db.issues /\ db.issues[i].title = was.title
          /\ db.issues[i].state = was.state /\ db.issues[i].closed_at = was.closed_at
    BY <2>1, <2>2, <2>3, LastNext DEF IssuesTold
  <2>6. \/ db' = db /\ e.type \in {"unknown", "collaborator"}
        \/ IssueStep(db, db', e, n + 1)
    BY <2>1 DEF Effect, UserStep, RepoStep, PullStep
  <2>7. /\ e.id # i \/ e.type \notin IssueEventTypes =>
             says.title = was.title /\ says.state = was.state /\ says.closed_at = was.closed_at
        /\ e.id = i /\ e.type = "opened" =>
             says.title = e.value /\ says.state = "open" /\ says.closed_at = 0
        /\ e.id = i /\ e.type = "title_changed" =>
             says.title = e.value /\ says.state = was.state /\ says.closed_at = was.closed_at
        /\ e.id = i /\ e.type = "closed" =>
             says.title = was.title /\ says.state = "closed" /\ says.closed_at = n + 1
        /\ e.id = i /\ e.type = "reopened" =>
             says.title = was.title /\ says.state = "open" /\ says.closed_at = 0
    BY <2>2, IssueSaysNext
  <2>t. i \in DOMAIN db.issues => db.issues[i] \in Issues
    BY DEF TypeOK, DbOK, IsTable
  <2> HIDE DEF e, was, says
  <2>8. CASE db' = db /\ e.type \in {"unknown", "collaborator"}
    BY <2>4, <2>5, <2>7, <2>8 DEF IssueEventTypes
  <2>9. CASE IssueStep(db, db', e, n + 1)
    <3>1. CASE e.id # i
      <4>1. i \in DOMAIN db'.issues /\ db'.issues[i] = db.issues[i]
        BY <2>5, <2>9, <3>1, Untouched DEF Inserted, Changed
      <4> QED BY <2>4, <2>5, <2>7, <3>1, <4>1
    <3>2. CASE e.id = i /\ e.type = "opened"
      <4>1. i \in DOMAIN db'.issues /\ db'.issues[i] = IssueRow(e.value)
        BY <2>9, <3>2 DEF IssueStep, Inserted
      <4> QED BY <2>4, <2>7, <3>2, <4>1 DEF IssueRow
    <3>3. CASE e.id = i /\ e.type = "closed"
      <4>1. i \in DOMAIN db'.issues /\ db'.issues[i] = ClosedIssue(db.issues[i], n + 1)
        BY <2>5, <2>9, <3>3 DEF IssueStep, Changed
      <4> QED BY <2>4, <2>5, <2>7, <2>t, <3>3, <4>1 DEF ClosedIssue, Issues
    <3>4. CASE e.id = i /\ e.type = "reopened"
      <4>1. i \in DOMAIN db'.issues /\ db'.issues[i] = ReopenedIssue(db.issues[i])
        BY <2>5, <2>9, <3>4 DEF IssueStep, Changed
      <4> QED BY <2>4, <2>5, <2>7, <2>t, <3>4, <4>1 DEF ReopenedIssue, Issues
    <3>5. CASE e.id = i /\ e.type = "title_changed"
      <4>1. i \in DOMAIN db'.issues /\ db'.issues[i] = [db.issues[i] EXCEPT !.title = e.value]
        BY <2>5, <2>9, <3>5 DEF IssueStep, Changed
      <4> QED BY <2>4, <2>5, <2>7, <2>t, <3>5, <4>1 DEF Issues
    <3>6. CASE e.id = i /\ e.type = "commented"
      <4>1. PICK x : /\ db'.issues[i] = [db.issues[i] EXCEPT !.comment_count = x]
                     /\ i \in DOMAIN db'.issues
        BY <2>5, <2>9, <3>6 DEF IssueStep, Changed
      <4> QED BY <2>4, <2>5, <2>7, <2>t, <3>6, <4>1 DEF Issues, IssueEventTypes
    <3>7. e.type \in {"opened", "closed", "reopened", "title_changed", "commented"}
      BY <2>9 DEF IssueStep
    <3> QED BY <3>1, <3>2, <3>3, <3>4, <3>5, <3>6, <3>7
  <2> QED BY <2>6, <2>8, <2>9
<1>2. CASE ~ Project
  <2>1. Kept(m)
    BY <1>2, OtherSteps
  <2>2. Last(m, i, {"opened"}) > 0
    BY <2>1, LastStays DEF Kept
  <2>3. m > 0
    BY <2>2, LastType
  <2>4. applied' = applied /\ db' = db
    BY <1>2, <2>3, OtherSteps
  <2> QED BY <2>1, <2>2, <2>4, IssueSaysStays DEF IssuesTold
<1> QED BY <1>1, <1>2

\* The opening of a pull request that has one, and that nothing comes before it.
LEMMA OpeningIsFirst ==
  ASSUME TypeOK, FirstMention, NEW n \in Nat, n <= Len(log), NEW p, Last(n, p, {"opened"}) > 0
  PROVE  \E o \in 1..n : /\ log[o].id = p /\ log[o].type = "opened"
                         /\ \A k \in 1..n : log[k].id = p => o <= k
<1> DEFINE o == Last(n, p, {"opened"})
<1>1. o \in 1..n /\ log[o].id = p /\ log[o].type = "opened"
  BY LastType
<1>2. 1..n \subseteq DOMAIN log
  BY DEF TypeOK
<1> HIDE DEF o
<1>3. \A k \in 1..n : log[k].id = p => o <= k
  BY <1>1, <1>2 DEF FirstMention, Births
<1> QED BY <1>1, <1>3

LEMMA PullsToldStep ==
  ASSUME TypeOK, Counted, FirstMention, PullsTold, [Next]_vars
  PROVE  PullsTold'
<1> SUFFICES ASSUME topic = "prs", NEW m \in Nat, NEW p \in Ids, m = applied',
                    Last(m, p, {"opened"})' > 0
             PROVE  p \in DOMAIN db'.pulls /\ db'.pulls[p] = PullSays(m, p)'
  BY TopicStays DEF PullsTold
<1>0. Len(log) \in Nat /\ applied <= Len(log) /\ DOMAIN log = 1..Len(log)
  BY DEF TypeOK
<1>1. CASE Project
  <2>1. PICK n \in Nat : /\ n = applied /\ n + 1 = applied' /\ Kept(n + 1) /\ n + 1 \in DOMAIN log
                         /\ Effect(db, db', log[n + 1], n + 1)
    BY <1>1, ProjectsOne
  <2> DEFINE e == log[n + 1]
             was == PullSays(n, p)
             says == PullSays(m, p)
  <2>2. m = n + 1 /\ m <= Len(log)
    BY <1>0, <2>1
  <2>3. Last(m, p, {"opened"}) > 0
    BY <2>1, <2>2, LastStays DEF Kept
  <2>4. PullSays(m, p)' = says
    <3>1. PICK o \in 1..m : /\ log[o].id = p /\ log[o].type = "opened"
                            /\ \A k \in 1..m : log[k].id = p => o <= k
      BY <2>2, <2>3, OpeningIsFirst
    <3> QED BY <2>1, <2>2, <3>1, PullSaysStays
  <2>5. ~ (e.id = p /\ e.type = "opened") => p \in DOMAIN db.pulls /\ db.pulls[p] = was
    BY <2>1, <2>2, <2>3, LastNext DEF PullsTold
  <2>6. \/ db' = db /\ e.type \in {"unknown", "collaborator"}
        \/ PullStep(db, db', e, n + 1)
    BY <2>1 DEF Effect, UserStep, RepoStep, IssueStep
  <2>7. e.id = p /\ e.type = "opened" => \A k \in 1..n : log[k].id # p
    BY <1>0, <2>1 DEF FirstMention, Births
  <2>8. /\ e.id # p \/ e.type \notin PullEventTypes => says = was
        /\ e.id = p /\ e.type = "opened" => says = PullRow(e.head, e.base)
        /\ e.id = p /\ e.type = "synchronized" => says = SyncedPull(was, e.head, e.base)
        /\ e.id = p /\ e.type = "mergeability_computed" => says = Checked(was, e.check)
        /\ e.id = p /\ e.type = "merged" => says = MergedPull(was, n + 1)
        /\ e.id = p /\ e.type = "closed" => says = ClosePull(was, n + 1)
        /\ e.id = p /\ e.type = "reopened" => says = ReopenPull(was)
    <3> DEFINE next == PullSays(n + 1, p)
    <3>1. /\ e.id # p \/ e.type \notin PullEventTypes => next = was
          /\ e.id = p /\ e.type = "opened" /\ (\A k \in 1..n : log[k].id # p) =>
               next = PullRow(e.head, e.base)
          /\ e.id = p /\ e.type = "synchronized" => next = SyncedPull(was, e.head, e.base)
          /\ e.id = p /\ e.type = "mergeability_computed" => next = Checked(was, e.check)
          /\ e.id = p /\ e.type = "merged" => next = MergedPull(was, n + 1)
          /\ e.id = p /\ e.type = "closed" => next = ClosePull(was, n + 1)
          /\ e.id = p /\ e.type = "reopened" => next = ReopenPull(was)
      BY <2>1, PullSaysNext, Zenon
    <3>2. says = next
      BY <2>2
    <3> HIDE DEF says, next, was
    <3> QED BY <2>7, <3>1, <3>2, Zenon
  <2> HIDE DEF e, was, says
  <2>9. CASE db' = db /\ e.type \in {"unknown", "collaborator"}
    BY <2>4, <2>5, <2>8, <2>9 DEF PullEventTypes
  <2>10. CASE PullStep(db, db', e, n + 1)
    <3>0. "pulls" \in DOMAIN Empty
      BY DEF Empty
    <3>1. CASE e.type = "reviewed"
      <4>1. db'.pulls = db.pulls
        BY <2>10, <3>0, <3>1 DEF PullStep, Same
      <4> QED BY <2>4, <2>5, <2>8, <3>1, <4>1 DEF PullEventTypes
    <3>2. CASE e.type # "reviewed" /\ e.id # p
      <4>1. p \in DOMAIN db.pulls /\ db.pulls[p] = was /\ says = was
        BY <2>5, <2>8, <3>2
      <4>2. \E row : Inserted(db.pulls, db'.pulls, e.id, row) \/ Changed(db.pulls, db'.pulls, e.id, row)
        BY <2>10, <3>2, Zenon DEF PullStep
      <4> QED BY <2>4, <3>2, <4>1, <4>2 DEF Inserted, Changed
    <3>3. CASE e.type = "opened" /\ e.id = p
      <4>1. Inserted(db.pulls, db'.pulls, p, says)
        BY <2>8, <2>10, <3>3 DEF PullStep
      <4> QED BY <2>4, <4>1 DEF Inserted
    <3>4. CASE e.type \notin {"opened", "reviewed"} /\ e.id = p
      <4>1. p \in DOMAIN db.pulls /\ db.pulls[p] = was
        BY <2>5, <3>4
      <4>2. Changed(db.pulls, db'.pulls, p, says)
        BY <2>8, <2>10, <3>4, <4>1 DEF PullStep
      <4> QED BY <2>4, <4>1, <4>2 DEF Changed
    <3> QED BY <3>1, <3>2, <3>3, <3>4
  <2> QED BY <2>6, <2>9, <2>10
<1>2. CASE ~ Project
  <2>1. Kept(m)
    BY <1>2, OtherSteps
  <2>2. Last(m, p, {"opened"}) > 0
    BY <2>1, LastStays DEF Kept
  <2>3. m > 0
    BY <2>2, LastType
  <2>4. applied' = applied /\ db' = db
    BY <1>2, <2>3, OtherSteps
  <2>5. PullSays(m, p)' = PullSays(m, p)
    <3>1. PICK o \in 1..m : /\ log[o].id = p /\ log[o].type = "opened"
                            /\ \A k \in 1..m : log[k].id = p => o <= k
      BY <1>0, <2>2, <2>4, OpeningIsFirst
    <3> QED BY <2>1, <3>1, PullSaysStays
  <2> QED BY <2>2, <2>4, <2>5 DEF PullsTold
<1> QED BY <1>1, <1>2

LEMMA KeyInserted ==
  ASSUME NEW t, NEW n \in Nat, IsTable(t, 1..n, Ids), NEW at \in 1..n, NEW id \in Ids
  PROVE  DOMAIN InsertOnce(t, at, id) = DOMAIN t \cup {at}
BY InsertOnceTable, Zenon

\* A comment adds its position to the comments, a review to the reviews; no
\* other event touches either.
LEMMA TalkProjected ==
  ASSUME TypeOK, Counted, Project
  PROVE  LET e == log[applied + 1]
         IN  /\ DOMAIN db'.comments =
                  DOMAIN db.comments \cup (IF e.type = "commented" THEN {applied + 1} ELSE {})
             /\ DOMAIN db'.reviews =
                  DOMAIN db.reviews \cup (IF e.type = "reviewed" THEN {applied + 1} ELSE {})
<1> DEFINE e == log[applied + 1]
           at == applied + 1
           Added(t, t2, type) == DOMAIN t2 = DOMAIN t \cup (IF e.type = type THEN {at} ELSE {})
<1>1. Effect(db, db', e, at) /\ at \in 1..Len(log) /\ e.id \in Ids /\ Len(log) \in Nat
  BY Projects DEF TypeOK
<1>2. IsTable(db.comments, 1..Len(log), Ids) /\ IsTable(db.reviews, 1..Len(log), Ids)
  BY DEF TypeOK, DbOK
<1>3. DOMAIN InsertOnce(db.comments, at, e.id) = DOMAIN db.comments \cup {at}
  BY <1>1, <1>2, KeyInserted
<1>4. DOMAIN InsertOnce(db.reviews, at, e.id) = DOMAIN db.reviews \cup {at}
  BY <1>1, <1>2, KeyInserted
<1>5. ASSUME NEW w, Same(db, db', w)
      PROVE  /\ "comments" \notin w => db'.comments = db.comments
             /\ "reviews" \notin w => db'.reviews = db.reviews
  BY <1>5 DEF Same, Empty
<1> HIDE DEF e, at
<1> SUFFICES Added(db.comments, db'.comments, "commented") /\ Added(db.reviews, db'.reviews, "reviewed")
  BY DEF e, at
<1>6. CASE db' = db /\ e.type \in {"unknown", "collaborator"}
  BY <1>6
<1>7. CASE UserStep(db, db', e)
  <2>1. Same(db, db', {"users"}) /\ e.type \notin {"commented", "reviewed"}
    BY <1>7 DEF UserStep
  <2> QED BY <1>5, <2>1
<1>8. CASE RepoStep(db, db', e)
  <2>1. Same(db, db', {"repos"}) /\ e.type \notin {"commented", "reviewed"}
    BY <1>8 DEF RepoStep
  <2> QED BY <1>5, <2>1
<1>9. CASE IssueStep(db, db', e, at)
  <2>1. CASE e.type = "commented"
    <3>1. Same(db, db', {"issues", "comments"}) /\ db'.comments = InsertOnce(db.comments, at, e.id)
      BY <1>9, <2>1 DEF IssueStep
    <3> QED BY <1>3, <1>5, <2>1, <3>1
  <2>2. CASE e.type # "commented"
    <3>1. /\ e.type # "reviewed"
          /\ (Same(db, db', {"issues", "counters"}) \/ Same(db, db', {"issues"}))
      BY <1>9, <2>2 DEF IssueStep
    <3> QED BY <1>5, <2>2, <3>1
  <2> QED BY <2>1, <2>2
<1>10. CASE PullStep(db, db', e, at)
  <2>1. CASE e.type = "reviewed"
    <3>1. Same(db, db', {"reviews"}) /\ db'.reviews = InsertOnce(db.reviews, at, e.id)
      BY <1>10, <2>1 DEF PullStep
    <3> QED BY <1>4, <1>5, <2>1, <3>1
  <2>2. CASE e.type # "reviewed"
    <3>1. e.type # "commented" /\ Same(db, db', {"pulls"})
      BY <1>10, <2>2 DEF PullStep
    <3> QED BY <1>5, <2>2, <3>1
  <2> QED BY <2>1, <2>2
<1> QED BY <1>1, <1>6, <1>7, <1>8, <1>9, <1>10 DEF Effect

LEMMA TalkToldStep ==
  ASSUME TypeOK, Counted, TalkTold, [Next]_vars
  PROVE  TalkTold'
<1> SUFFICES ASSUME NEW k \in 1..applied'
             PROVE  /\ log'[k].type = "commented" => k \in DOMAIN db'.comments
                    /\ log'[k].type = "reviewed" => k \in DOMAIN db'.reviews
  BY DEF TalkTold
<1>1. CASE Project
  <2>1. applied' = applied + 1 /\ log' = log /\ applied \in Nat
    BY <1>1, Projects DEF TypeOK
  <2>2. CASE k = applied + 1
    BY <1>1, <2>1, <2>2, TalkProjected
  <2>3. CASE k \in 1..applied
    BY <1>1, <2>1, <2>3, TalkProjected DEF TalkTold
  <2> QED BY <2>1, <2>2, <2>3
<1>2. CASE ~ Project
  <2>1. applied' = applied /\ db' = db /\ applied \in Nat
    BY <1>2, OtherSteps DEF TypeOK
  <2>2. log'[k] = log[k]
    BY <1>2, <2>1, OtherSteps DEF Kept
  <2> QED BY <2>1, <2>2 DEF TalkTold
<1> QED BY <1>1, <1>2

LEMMA ReviewsHeardStep ==
  ASSUME TypeOK, Counted, ReviewsHeard, [Next]_vars
  PROVE  ReviewsHeard'
<1>0. /\ seen \in Nat /\ seen' \in Nat /\ seen <= seen'
      /\ \A k \in 1..seen : log'[k] = log[k]
  BY SeenStays
<1> SUFFICES ASSUME NEW k \in DOMAIN db'.reviews
             PROVE  k \in 1..seen' /\ log'[k].type = "reviewed"
  BY DEF ReviewsHeard
<1>1. CASE k \in DOMAIN db.reviews
  BY <1>0, <1>1 DEF ReviewsHeard
<1>2. CASE Project /\ k = applied + 1 /\ log[applied + 1].type = "reviewed"
  BY <1>2, Projects DEF TypeOK
<1>3. Project => k \in DOMAIN db.reviews \/ (k = applied + 1 /\ log[applied + 1].type = "reviewed")
  BY TalkProjected
<1>4. ~ Project => db' = db \/ db' = Empty
  BY OtherSteps
<1> QED BY <1>1, <1>2, <1>3, <1>4, EmptyTables

LEMMA ReposBornStep ==
  ASSUME TypeOK, Counted, ReposBorn, [Next]_vars
  PROVE  ReposBorn'
<1>0. /\ seen \in Nat /\ seen' \in Nat /\ seen <= seen'
      /\ \A k \in 1..seen : log'[k] = log[k]
  BY SeenStays
<1> SUFFICES ASSUME NEW r \in DOMAIN db'.repos
             PROVE  \E k \in 1..seen' : log'[k].type = "created" /\ log'[k].id = r
  BY DEF ReposBorn
<1>1. CASE r \in DOMAIN db.repos
  BY <1>0, <1>1 DEF ReposBorn
<1>2. CASE Project /\ r = log[applied + 1].id /\ log[applied + 1].type = "created"
  <2>1. applied + 1 \in 1..seen' /\ log' = log
    BY <1>2, Projects DEF TypeOK
  <2> QED BY <1>2, <2>1
<1>3. Project => r \in DOMAIN db.repos \/ (r = log[applied + 1].id /\ log[applied + 1].type = "created")
  <2> SUFFICES ASSUME Project
               PROVE  \/ r \in DOMAIN db.repos
                      \/ (r = log[applied + 1].id /\ log[applied + 1].type = "created")
    OBVIOUS
  <2> DEFINE e == log[applied + 1]
  <2>1. Effect(db, db', e, applied + 1)
    BY Projects
  <2> HIDE DEF e
  <2>2. CASE RepoStep(db, db', e)
    <3>1. \/ e.type = "created" /\ Inserted(db.repos, db'.repos, e.id, NewRepo(e.value))
          \/ \E row : Changed(db.repos, db'.repos, e.id, row)
      BY <2>2, Zenon DEF RepoStep
    <3> QED BY <3>1 DEF Inserted, Changed, e
  <2>3. CASE db' = db \/ UserStep(db, db', e) \/ IssueStep(db, db', e, applied + 1)
             \/ PullStep(db, db', e, applied + 1)
    <3>1. db'.repos = db.repos
      BY <2>3, Untouched
    <3> QED BY <3>1
  <2> QED BY <2>1, <2>2, <2>3 DEF Effect
<1>4. ~ Project => db' = db \/ db' = Empty
  BY OtherSteps
<1> QED BY <1>1, <1>2, <1>3, <1>4, EmptyTables

LEMMA TalkFollowsStep ==
  ASSUME TypeOK, Counted, RowsAreBorn, TalkFollows, [Next]_vars
  PROVE  TalkFollows'
<1>1. CASE Project \/ Replay
  <2>1. log' = log
    BY <1>1 DEF Project, Replay
  <2> QED BY <2>1 DEF TalkFollows
<1>2. CASE Commands
  <2>0. /\ DOMAIN log = 1..Len(log) /\ Len(log) \in Nat
        /\ DOMAIN log' = 1..Len(log') /\ Len(log') \in Nat /\ Len(log) <= Len(log')
        /\ seen \in Nat /\ seen <= Len(log)
    BY <1>2, LogGrows DEF TypeOK
  <2>1. \A k \in 1..Len(log) : log'[k] = log[k]
    BY <1>2, LogGrows
  <2> SUFFICES ASSUME NEW k \in 1..Len(log'), log'[k].type \in {"commented", "reviewed"}
               PROVE  \E j \in 1..Len(log) : log[j].type = "opened" /\ log[j].id = log'[k].id
    <3>1. 1..Len(log) \subseteq 1..Len(log')
      BY <2>0
    <3> QED BY <2>0, <2>1, <3>1 DEF TalkFollows
  <2>2. CASE k \in 1..Len(log)
    <3>1. log'[k] = log[k]
      BY <2>1, <2>2
    <3> QED BY <2>0, <2>2, <3>1 DEF TalkFollows
  <2>3. CASE k > Len(log)
    <3>1. MayFollow(log'[k])
      BY <1>2, <2>3, LogGrows
    <3>2. log'[k].id \in DOMAIN db.issues \/ log'[k].id \in DOMAIN db.pulls
      BY <3>1 DEF MayFollow
    <3>3. \E j \in 1..seen : log[j].type = "opened" /\ log[j].id = log'[k].id
      BY <3>2 DEF RowsAreBorn
    <3> QED BY <2>0, <3>3
  <2> QED BY <2>0, <2>2, <2>3
<1> QED BY <1>1, <1>2, StepKinds

-----------------------------------------------------------------------------
(***************************************************************************)
(* An event delivered once more                                            *)
(***************************************************************************)

\* Tables are equal when they have the same rows, and the database when it has
\* the same tables.
LEMMA EqualTables ==
  ASSUME NEW t, NEW t2, NEW keys, NEW rows, IsTable(t, keys, rows), IsTable(t2, keys, rows),
         DOMAIN t2 = DOMAIN t, \A x \in DOMAIN t : t2[x] = t[x]
  PROVE  t2 = t
BY DEF IsTable

LEMMA EqualDbs ==
  ASSUME NEW d, NEW d2, NEW n, DbOK(d, n), DbOK(d2, n), \A x \in DOMAIN Empty : d2[x] = d[x]
  PROVE  d2 = d
<1>1. DOMAIN d = DOMAIN Empty /\ DOMAIN d2 = DOMAIN Empty
      /\ d = [t \in DOMAIN d |-> d[t]] /\ d2 = [t \in DOMAIN d2 |-> d2[t]]
  BY DEF DbOK
<1> QED BY <1>1

LEMMA InsertedTwice ==
  ASSUME NEW t, NEW t2, NEW t3, NEW keys, NEW rows, IsTable(t2, keys, rows), IsTable(t3, keys, rows),
         NEW id, NEW row, Inserted(t, t2, id, row), Inserted(t2, t3, id, row)
  PROVE  t3 = t2
<1>1. DOMAIN t3 = DOMAIN t2 /\ \A x \in DOMAIN t2 : t3[x] = t2[x]
  BY DEF Inserted
<1> QED BY <1>1, EqualTables

LEMMA ChangedTwice ==
  ASSUME NEW t, NEW t2, NEW t3, NEW keys, NEW rows, IsTable(t2, keys, rows), IsTable(t3, keys, rows),
         NEW id, NEW row, NEW row2, Changed(t, t2, id, row), Changed(t2, t3, id, row2),
         id \in DOMAIN t => row2 = row
  PROVE  t3 = t2
<1>1. DOMAIN t3 = DOMAIN t2 /\ \A x \in DOMAIN t2 : t3[x] = t2[x]
  BY DEF Changed
<1> QED BY <1>1, EqualTables

\* Changing a row once more changes nothing.
LEMMA UserRowTwice ==
  /\ \A row \in Users : \A v :
       [[row EXCEPT !.profile = v] EXCEPT !.profile = v] = [row EXCEPT !.profile = v]
  /\ \A row \in Users :
       [[row EXCEPT !.state = "deactivated"] EXCEPT !.state = "deactivated"]
         = [row EXCEPT !.state = "deactivated"]
BY Zenon DEF Users

LEMMA RepoRowTwice ==
  /\ \A row \in Repos : \A v : [[row EXCEPT !.name = v] EXCEPT !.name = v] = [row EXCEPT !.name = v]
  /\ \A row \in Repos, f \in Fields : \A v :
       [[row EXCEPT !.settings[f] = v] EXCEPT !.settings[f] = v] = [row EXCEPT !.settings[f] = v]
  /\ \A row \in Repos :
       [[row EXCEPT !.deleted = TRUE] EXCEPT !.deleted = TRUE] = [row EXCEPT !.deleted = TRUE]
<1>1. \A row \in Repos : \A v : [[row EXCEPT !.name = v] EXCEPT !.name = v] = [row EXCEPT !.name = v]
  BY DEF Repos
<1>2. ASSUME NEW row \in Repos, NEW f \in Fields, NEW v
      PROVE  [[row EXCEPT !.settings[f] = v] EXCEPT !.settings[f] = v] = [row EXCEPT !.settings[f] = v]
  <2> DEFINE s == [row.settings EXCEPT ![f] = v]
             r == [row EXCEPT !.settings = s]
  <2>1. [row EXCEPT !.settings[f] = v] = r
    OBVIOUS
  <2>2. row.settings \in [Fields -> Values \cup {None}]
    BY DEF Repos
  <2>3. [s EXCEPT ![f] = v] = s
    BY <2>2
  <2> HIDE DEF s
  <2>4. r.settings = s /\ [r EXCEPT !.settings = s] = r
    BY DEF Repos
  <2> HIDE DEF r
  <2>5. [r EXCEPT !.settings[f] = v] = [r EXCEPT !.settings = [r.settings EXCEPT ![f] = v]]
    OBVIOUS
  <2>6. [r EXCEPT !.settings[f] = v] = r
    BY <2>3, <2>4, <2>5
  <2> QED BY <2>1, <2>6
<1>3. \A row \in Repos :
        [[row EXCEPT !.deleted = TRUE] EXCEPT !.deleted = TRUE] = [row EXCEPT !.deleted = TRUE]
  <2> DEFINE t == TRUE
  <2> HIDE DEF t
  <2>1. \A row \in Repos :
          [[row EXCEPT !.deleted = t] EXCEPT !.deleted = t] = [row EXCEPT !.deleted = t]
    BY DEF Repos
  <2> QED BY <2>1 DEF t
<1> QED BY <1>1, <1>2, <1>3

LEMMA IssueRowTwice ==
  ASSUME NEW row \in Issues
  PROVE  /\ \A n : ClosedIssue(ClosedIssue(row, n), n) = ClosedIssue(row, n)
         /\ ReopenedIssue(ReopenedIssue(row)) = ReopenedIssue(row)
         /\ \A v : [[row EXCEPT !.title = v] EXCEPT !.title = v] = [row EXCEPT !.title = v]
         /\ \A n : [[row EXCEPT !.comment_count = n] EXCEPT !.comment_count = n]
                     = [row EXCEPT !.comment_count = n]
<1> DEFINE Issue(t, s, c, k) == [title |-> t, state |-> s, closed_at |-> c, comment_count |-> k]
<1>1. row = Issue(row.title, row.state, row.closed_at, row.comment_count)
  BY DEF Issues
<1>2. \A t, s, c, k, n :
        /\ ClosedIssue(Issue(t, s, c, k), n) = Issue(t, "closed", n, k)
        /\ ReopenedIssue(Issue(t, s, c, k)) = Issue(t, "open", 0, k)
        /\ [Issue(t, s, c, k) EXCEPT !.title = n] = Issue(n, s, c, k)
        /\ [Issue(t, s, c, k) EXCEPT !.comment_count = n] = Issue(t, s, c, n)
  <2> TAKE t, s, c, k, n
  <2>1. ASSUME NEW r, r = [Issue(t, s, c, k) EXCEPT !.state = "closed", !.closed_at = n]
        PROVE  r = Issue(t, "closed", n, k)
    BY <2>1
  <2>2. ASSUME NEW r, r = [Issue(t, s, c, k) EXCEPT !.state = "open", !.closed_at = 0]
        PROVE  r = Issue(t, "open", 0, k)
    BY <2>2
  <2>3. [Issue(t, s, c, k) EXCEPT !.title = n] = Issue(n, s, c, k)
    OBVIOUS
  <2>4. [Issue(t, s, c, k) EXCEPT !.comment_count = n] = Issue(t, s, c, n)
    OBVIOUS
  <2> HIDE DEF Issue
  <2> QED BY <2>1, <2>2, <2>3, <2>4 DEF ClosedIssue, ReopenedIssue
<1> HIDE DEF Issue
<1>3. PICK t, s, c, k : row = Issue(t, s, c, k)
  BY <1>1
<1>4. \A n : ClosedIssue(ClosedIssue(row, n), n) = ClosedIssue(row, n)
  BY <1>2, <1>3
<1>5. ReopenedIssue(ReopenedIssue(row)) = ReopenedIssue(row)
  BY <1>2, <1>3
<1>6. \A v : [[row EXCEPT !.title = v] EXCEPT !.title = v] = [row EXCEPT !.title = v]
  BY <1>2, <1>3
<1>7. \A n : [[row EXCEPT !.comment_count = n] EXCEPT !.comment_count = n]
               = [row EXCEPT !.comment_count = n]
  BY <1>2, <1>3
<1> QED BY <1>4, <1>5, <1>6, <1>7

LEMMA PullRowTwice ==
  ASSUME NEW row \in Pulls
  PROVE  /\ \A h, b : SyncedPull(SyncedPull(row, h, b), h, b) = SyncedPull(row, h, b)
         /\ \A c : Checked(Checked(row, c), c) = Checked(row, c)
         /\ \A n : MergedPull(MergedPull(row, n), n) = MergedPull(row, n)
         /\ \A n : ClosePull(ClosePull(row, n), n) = ClosePull(row, n)
         /\ ReopenPull(ReopenPull(row)) = ReopenPull(row)
<1>1. row = Row(row.state, row.head, row.base, row.check, row.merged_at, row.closed_at)
  BY DEF Pulls, Row
<1>2. PICK st, h, b, ch, ma, ca : row = Row(st, h, b, ch, ma, ca)
  BY <1>1
<1>3. \A x, y : SyncedPull(SyncedPull(row, x, y), x, y) = SyncedPull(row, x, y)
  BY <1>2, FieldsChanged
<1>4. \A x : Checked(Checked(row, x), x) = Checked(row, x)
  BY <1>2, FieldsChanged
<1>5. \A x : MergedPull(MergedPull(row, x), x) = MergedPull(row, x)
  BY <1>2, FieldsChanged
<1>6. \A x : ClosePull(ClosePull(row, x), x) = ClosePull(row, x)
  BY <1>2, FieldsChanged
<1>7. ReopenPull(ReopenPull(row)) = ReopenPull(row)
  BY <1>2, FieldsChanged
<1> QED BY <1>3, <1>4, <1>5, <1>6, <1>7

\* An event that has just been applied changes nothing when it is applied again.
LEMMA EffectTwice ==
  ASSUME NEW n \in Nat, NEW d, NEW d2, NEW d3, NEW e, NEW at \in 1..n, e.id \in Ids,
         DbOK(d, n), DbOK(d2, n), DbOK(d3, n), Effect(d, d2, e, at), Effect(d2, d3, e, at)
  PROVE  d3 = d2
<1>0. DOMAIN Empty = {"users", "repos", "issues", "comments", "counters", "pulls", "reviews"}
  BY DEF Empty
<1>1. /\ IsTable(d2.users, Ids, Users) /\ IsTable(d3.users, Ids, Users)
      /\ IsTable(d2.repos, Ids, Repos) /\ IsTable(d3.repos, Ids, Repos)
      /\ IsTable(d2.issues, Ids, Issues) /\ IsTable(d3.issues, Ids, Issues)
      /\ IsTable(d2.pulls, Ids, Pulls) /\ IsTable(d3.pulls, Ids, Pulls)
  BY DEF DbOK
<1>2. /\ e.id \in DOMAIN d.users => d.users[e.id] \in Users
      /\ e.id \in DOMAIN d.repos => d.repos[e.id] \in Repos
      /\ e.id \in DOMAIN d.issues => d.issues[e.id] \in Issues
      /\ e.id \in DOMAIN d.pulls => d.pulls[e.id] \in Pulls
  BY DEF DbOK, IsTable
<1>3. ASSUME NEW t, IsTable(t, 1..n, Ids)
      PROVE  InsertOnce(InsertOnce(t, at, e.id), at, e.id) = InsertOnce(t, at, e.id)
  <2> DEFINE id == e.id
  <2>1. id \in Ids
    OBVIOUS
  <2> HIDE DEF id
  <2>2. DOMAIN InsertOnce(t, at, id) = DOMAIN t \cup {at}
    BY <1>3, <2>1, KeyInserted
  <2>3. InsertOnce(InsertOnce(t, at, id), at, id) = InsertOnce(t, at, id)
    BY <2>2 DEF InsertOnce
  <2> QED BY <2>3 DEF id
<1>4. ASSUME NEW w, Same(d2, d3, w), \A x \in w : d3[x] = d2[x]
      PROVE  d3 = d2
  <2>1. \A x \in DOMAIN Empty : d3[x] = d2[x]
    BY <1>4 DEF Same
  <2> QED BY <2>1, EqualDbs
<1>5. CASE d2 = d /\ e.type \in {"unknown", "collaborator"}
  BY <1>5 DEF Effect, UserStep, RepoStep, IssueStep, PullStep
<1>6. CASE UserStep(d, d2, e)
  <2>1. UserStep(d2, d3, e)
    BY <1>6 DEF Effect, UserStep, RepoStep, IssueStep, PullStep
  <2>2. CASE e.type = "registered"
    <3>1. /\ Inserted(d.users, d2.users, e.id, NewUser(e.value))
          /\ Inserted(d2.users, d3.users, e.id, NewUser(e.value))
      BY <1>6, <2>1, <2>2 DEF UserStep
    <3>2. d3.users = d2.users
      BY <1>1, <3>1, InsertedTwice
    <3> QED BY <1>4, <2>1, <3>2 DEF UserStep
  <2>3. CASE e.type = "profile_updated"
    <3> DEFINE Row1(u) == [u EXCEPT !.profile = e.value]
    <3>1. /\ Changed(d.users, d2.users, e.id, Row1(d.users[e.id]))
          /\ Changed(d2.users, d3.users, e.id, Row1(d2.users[e.id]))
      BY <1>6, <2>1, <2>3 DEF UserStep
    <3>2. e.id \in DOMAIN d.users => Row1(Row1(d.users[e.id])) = Row1(d.users[e.id])
      BY <1>2, UserRowTwice, Zenon
    <3> HIDE DEF Row1
    <3>3. e.id \in DOMAIN d.users => Row1(d2.users[e.id]) = Row1(d.users[e.id])
      BY <3>1, <3>2 DEF Changed
    <3>4. d3.users = d2.users
      BY <1>1, <3>1, <3>3, ChangedTwice
    <3> QED BY <1>4, <2>1, <3>4 DEF UserStep
  <2>4. CASE e.type = "deactivated"
    <3> DEFINE Row1(u) == [u EXCEPT !.state = "deactivated"]
    <3>1. /\ Changed(d.users, d2.users, e.id, Row1(d.users[e.id]))
          /\ Changed(d2.users, d3.users, e.id, Row1(d2.users[e.id]))
      BY <1>6, <2>1, <2>4 DEF UserStep
    <3>2. e.id \in DOMAIN d.users => Row1(Row1(d.users[e.id])) = Row1(d.users[e.id])
      BY <1>2, UserRowTwice, Zenon
    <3> HIDE DEF Row1
    <3>3. e.id \in DOMAIN d.users => Row1(d2.users[e.id]) = Row1(d.users[e.id])
      BY <3>1, <3>2 DEF Changed
    <3>4. d3.users = d2.users
      BY <1>1, <3>1, <3>3, ChangedTwice
    <3> QED BY <1>4, <2>1, <3>4 DEF UserStep
  <2> QED BY <1>6, <2>2, <2>3, <2>4 DEF UserStep
<1>7. CASE RepoStep(d, d2, e)
  <2>1. RepoStep(d2, d3, e)
    BY <1>7 DEF Effect, UserStep, RepoStep, IssueStep, PullStep
  <2>2. CASE e.type = "created"
    <3>1. /\ Inserted(d.repos, d2.repos, e.id, NewRepo(e.value))
          /\ Inserted(d2.repos, d3.repos, e.id, NewRepo(e.value))
      BY <1>7, <2>1, <2>2 DEF RepoStep
    <3>2. d3.repos = d2.repos
      BY <1>1, <3>1, InsertedTwice
    <3> QED BY <1>4, <2>1, <3>2 DEF RepoStep
  <2>3. CASE e.type = "renamed"
    <3> DEFINE Row1(u) == [u EXCEPT !.name = e.value]
    <3>1. /\ Changed(d.repos, d2.repos, e.id, Row1(d.repos[e.id]))
          /\ Changed(d2.repos, d3.repos, e.id, Row1(d2.repos[e.id]))
      BY <1>7, <2>1, <2>3 DEF RepoStep
    <3>2. e.id \in DOMAIN d.repos => Row1(Row1(d.repos[e.id])) = Row1(d.repos[e.id])
      BY <1>2, RepoRowTwice, Zenon
    <3> HIDE DEF Row1
    <3>3. e.id \in DOMAIN d.repos => Row1(d2.repos[e.id]) = Row1(d.repos[e.id])
      BY <3>1, <3>2 DEF Changed
    <3>4. d3.repos = d2.repos
      BY <1>1, <3>1, <3>3, ChangedTwice
    <3> QED BY <1>4, <2>1, <3>4 DEF RepoStep
  <2>4. CASE e.type = "changed"
    <3> DEFINE Row1(u) == [u EXCEPT !.settings[e.field] = e.value]
    <3>1. /\ Changed(d.repos, d2.repos, e.id, Row1(d.repos[e.id]))
          /\ Changed(d2.repos, d3.repos, e.id, Row1(d2.repos[e.id]))
      <4>1. Changed(d.repos, d2.repos, e.id, Row1(d.repos[e.id]))
        BY <1>7, <2>4 DEF RepoStep
      <4>2. Changed(d2.repos, d3.repos, e.id, Row1(d2.repos[e.id]))
        BY <2>1, <2>4 DEF RepoStep
      <4> QED BY <4>1, <4>2
    <3>2. e.id \in DOMAIN d.repos => Row1(Row1(d.repos[e.id])) = Row1(d.repos[e.id])
      <4>1. e.field \in Fields
        BY <1>7, <2>4 DEF RepoStep
      <4>2. \A row \in Repos : Row1(Row1(row)) = Row1(row)
        BY <4>1, RepoRowTwice, Zenon
      <4> HIDE DEF Row1
      <4> QED BY <1>2, <4>2
    <3> HIDE DEF Row1
    <3>3. e.id \in DOMAIN d.repos => Row1(d2.repos[e.id]) = Row1(d.repos[e.id])
      BY <3>1, <3>2 DEF Changed
    <3>4. d3.repos = d2.repos
      BY <1>1, <3>1, <3>3, ChangedTwice
    <3> QED BY <1>4, <2>1, <3>4 DEF RepoStep
  <2>5. CASE e.type = "deleted"
    <3> DEFINE Row1(u) == [u EXCEPT !.deleted = TRUE]
    <3>1. /\ Changed(d.repos, d2.repos, e.id, Row1(d.repos[e.id]))
          /\ Changed(d2.repos, d3.repos, e.id, Row1(d2.repos[e.id]))
      BY <1>7, <2>1, <2>5 DEF RepoStep
    <3>2. e.id \in DOMAIN d.repos => Row1(Row1(d.repos[e.id])) = Row1(d.repos[e.id])
      BY <1>2, RepoRowTwice, Zenon
    <3> HIDE DEF Row1
    <3>3. e.id \in DOMAIN d.repos => Row1(d2.repos[e.id]) = Row1(d.repos[e.id])
      BY <3>1, <3>2 DEF Changed
    <3>4. d3.repos = d2.repos
      BY <1>1, <3>1, <3>3, ChangedTwice
    <3> QED BY <1>4, <2>1, <3>4 DEF RepoStep
  <2> QED BY <1>7, <2>2, <2>3, <2>4, <2>5 DEF RepoStep
<1>8. CASE IssueStep(d, d2, e, at)
  <2>1. IssueStep(d2, d3, e, at)
    BY <1>8 DEF Effect, UserStep, RepoStep, IssueStep, PullStep
  <2>c. ASSUME e.type \in {"opened", "closed", "reopened"}, d3.issues = d2.issues
        PROVE  d3 = d2
    <3>1. /\ Same(d2, d3, {"issues", "counters"})
          /\ d3.counters = Counts(d3)
          /\ d2.counters = Counts(d2)
      BY <1>8, <2>1, <2>c DEF IssueStep
    <3>2. Counts(d3) = Counts(d2)
      BY <2>c DEF Counts
    <3> QED BY <1>4, <2>c, <3>1, <3>2
  <2>2. CASE e.type = "opened"
    <3>1. /\ Inserted(d.issues, d2.issues, e.id, IssueRow(e.value))
          /\ Inserted(d2.issues, d3.issues, e.id, IssueRow(e.value))
      BY <1>8, <2>1, <2>2 DEF IssueStep
    <3>2. d3.issues = d2.issues
      BY <1>1, <3>1, InsertedTwice
    <3> QED BY <2>2, <2>c, <3>2
  <2>3. CASE e.type = "closed"
    <3>1. Changed(d.issues, d2.issues, e.id, ClosedIssue(d.issues[e.id], at))
          /\ Changed(d2.issues, d3.issues, e.id, ClosedIssue(d2.issues[e.id], at))
      BY <1>8, <2>1, <2>3 DEF IssueStep
    <3>2. e.id \in DOMAIN d.issues =>
            ClosedIssue(ClosedIssue(d.issues[e.id], at), at) = ClosedIssue(d.issues[e.id], at)
      BY <1>2, IssueRowTwice, Zenon
    <3>3. e.id \in DOMAIN d.issues => ClosedIssue(d2.issues[e.id], at) = ClosedIssue(d.issues[e.id], at)
      BY <3>1, <3>2 DEF Changed
    <3>4. d3.issues = d2.issues
      BY <1>1, <3>1, <3>3, ChangedTwice
    <3> QED BY <2>3, <2>c, <3>4
  <2>4. CASE e.type = "reopened"
    <3>1. Changed(d.issues, d2.issues, e.id, ReopenedIssue(d.issues[e.id]))
          /\ Changed(d2.issues, d3.issues, e.id, ReopenedIssue(d2.issues[e.id]))
      BY <1>8, <2>1, <2>4 DEF IssueStep
    <3>2. e.id \in DOMAIN d.issues =>
            ReopenedIssue(ReopenedIssue(d.issues[e.id])) = ReopenedIssue(d.issues[e.id])
      BY <1>2, IssueRowTwice, Zenon
    <3>3. e.id \in DOMAIN d.issues => ReopenedIssue(d2.issues[e.id]) = ReopenedIssue(d.issues[e.id])
      BY <3>1, <3>2 DEF Changed
    <3>4. d3.issues = d2.issues
      BY <1>1, <3>1, <3>3, ChangedTwice
    <3> QED BY <2>4, <2>c, <3>4
  <2>5. CASE e.type = "title_changed"
    <3> DEFINE Row1(i) == [i EXCEPT !.title = e.value]
    <3>1. Changed(d.issues, d2.issues, e.id, Row1(d.issues[e.id]))
          /\ Changed(d2.issues, d3.issues, e.id, Row1(d2.issues[e.id])) /\ Same(d2, d3, {"issues"})
      BY <1>8, <2>1, <2>5 DEF IssueStep
    <3>2. e.id \in DOMAIN d.issues => Row1(Row1(d.issues[e.id])) = Row1(d.issues[e.id])
      BY <1>2, IssueRowTwice, Zenon
    <3> HIDE DEF Row1
    <3>3. e.id \in DOMAIN d.issues => Row1(d2.issues[e.id]) = Row1(d.issues[e.id])
      BY <3>1, <3>2 DEF Changed
    <3>4. d3.issues = d2.issues
      BY <1>1, <3>1, <3>3, ChangedTwice
    <3> QED BY <1>4, <3>1, <3>4
  <2>6. CASE e.type = "commented"
    <3> DEFINE Row1(i, c) == [i EXCEPT !.comment_count = c]
               c2 == Cardinality(Comments(d2, e.id))
               c3 == Cardinality(Comments(d3, e.id))
    <3>1. /\ Changed(d.issues, d2.issues, e.id, Row1(d.issues[e.id], c2))
          /\ Changed(d2.issues, d3.issues, e.id, Row1(d2.issues[e.id], c3))
          /\ Same(d2, d3, {"issues", "comments"})
          /\ d2.comments = InsertOnce(d.comments, at, e.id)
          /\ d3.comments = InsertOnce(d2.comments, at, e.id)
      BY <1>8, <2>1, <2>6 DEF IssueStep
    <3>2. d3.comments = d2.comments
      BY <1>3, <3>1 DEF DbOK
    <3>3. c3 = c2
      BY <3>2 DEF Comments
    <3> HIDE DEF c2, c3
    <3>4. e.id \in DOMAIN d.issues => Row1(Row1(d.issues[e.id], c2), c2) = Row1(d.issues[e.id], c2)
      BY <1>2, IssueRowTwice, Zenon
    <3> HIDE DEF Row1
    <3>5. e.id \in DOMAIN d.issues => Row1(d2.issues[e.id], c3) = Row1(d.issues[e.id], c2)
      BY <3>1, <3>3, <3>4 DEF Changed
    <3>6. d3.issues = d2.issues
      BY <1>1, <3>1, <3>5, ChangedTwice
    <3> QED BY <1>4, <3>1, <3>2, <3>6
  <2> QED BY <1>8, <2>2, <2>3, <2>4, <2>5, <2>6 DEF IssueStep
<1>9. CASE PullStep(d, d2, e, at)
  <2>1. PullStep(d2, d3, e, at)
    BY <1>9 DEF Effect, UserStep, RepoStep, IssueStep, PullStep
  <2>p. ASSUME e.type # "reviewed", d3.pulls = d2.pulls
        PROVE  d3 = d2
    <3>1. Same(d2, d3, {"pulls"})
      BY <2>1, <2>p DEF PullStep
    <3> QED BY <1>4, <2>p, <3>1
  <2>2. CASE e.type = "opened"
    <3>1. Inserted(d.pulls, d2.pulls, e.id, PullRow(e.head, e.base))
          /\ Inserted(d2.pulls, d3.pulls, e.id, PullRow(e.head, e.base))
      BY <1>9, <2>1, <2>2 DEF PullStep
    <3>2. d3.pulls = d2.pulls
      BY <1>1, <3>1, InsertedTwice
    <3> QED BY <2>2, <2>p, <3>2
  <2>3. CASE e.type = "reviewed"
    <3>1. /\ Same(d2, d3, {"reviews"}) /\ d2.reviews = InsertOnce(d.reviews, at, e.id)
          /\ d3.reviews = InsertOnce(d2.reviews, at, e.id)
      BY <1>9, <2>1, <2>3 DEF PullStep
    <3>2. d3.reviews = d2.reviews
      BY <1>3, <3>1 DEF DbOK
    <3> QED BY <1>4, <3>1, <3>2
  <2>4. CASE e.type \notin {"opened", "reviewed"}
    <3> DEFINE Row1(p) == IF e.type = "synchronized" THEN SyncedPull(p, e.head, e.base)
                          ELSE IF e.type = "mergeability_computed" THEN Checked(p, e.check)
                          ELSE IF e.type = "merged" THEN MergedPull(p, at)
                          ELSE IF e.type = "closed" THEN ClosePull(p, at)
                          ELSE ReopenPull(p)
    <3>1. Changed(d.pulls, d2.pulls, e.id, Row1(d.pulls[e.id]))
      BY <1>9, <2>4 DEF PullStep
    <3>2. Changed(d2.pulls, d3.pulls, e.id, Row1(d2.pulls[e.id]))
      BY <2>1, <2>4 DEF PullStep
    <3>3. e.id \in DOMAIN d.pulls => Row1(Row1(d.pulls[e.id])) = Row1(d.pulls[e.id])
      BY <1>2, PullRowTwice
    <3> HIDE DEF Row1
    <3>4. e.id \in DOMAIN d.pulls => Row1(d2.pulls[e.id]) = Row1(d.pulls[e.id])
      BY <3>1, <3>3 DEF Changed
    <3>5. d3.pulls = d2.pulls
      BY <1>1, <3>1, <3>2, <3>4, ChangedTwice
    <3> QED BY <2>4, <2>p, <3>5
  <2> QED BY <2>2, <2>3, <2>4
<1> QED BY <1>5, <1>6, <1>7, <1>8, <1>9 DEF Effect

LEMMA SettledStep ==
  ASSUME TypeOK, Counted, Counted', Settled, [Next]_vars
  PROVE  Settled'
<1>0. topic' = topic /\ applied \in Nat
  BY TopicStays DEF TypeOK
<1> SUFFICES ASSUME applied' > 0, log'[applied'] = log[applied']
             PROVE  ApplyDecoded(db', applied') = db'
  <2>1. applied' > 0 => log'[applied'] = log[applied']
    <3>1. CASE Project
      BY <3>1 DEF Project
    <3>2. CASE ~ Project
      <4>1. applied' \in Nat /\ (applied' > 0 => applied' = applied)
        BY <1>0, <3>2, OtherSteps
      <4> QED BY <1>0, <3>2, <4>1, OtherSteps DEF Kept
    <3> QED BY <3>1, <3>2
  <2>2. log'[applied'] = log[applied'] => ApplyDecoded(db, applied)' = ApplyDecoded(db', applied')
    BY <1>0 DEF ApplyDecoded
  <2> QED BY <2>1, <2>2 DEF Settled
<1>1. CASE Project
  <2>1. /\ applied + 1 \in 1..Len(log) /\ applied' = applied + 1 /\ DbOK(db', Len(log))
        /\ Effect(db, db', log[applied + 1], applied + 1) /\ log[applied + 1].id \in Ids
    BY <1>1, Projects
  <2>2. IsFiniteSet(DOMAIN db'.issues)
    BY DEF Counted
  <2>3. /\ DbOK(ApplyDecoded(db', applied + 1), Len(log))
        /\ Effect(db', ApplyDecoded(db', applied + 1), log[applied + 1], applied + 1)
    BY <2>1, <2>2, ApplyEffect DEF TypeOK
  <2>4. DbOK(db, Len(log)) /\ Len(log) \in Nat
    BY DEF TypeOK
  <2> QED BY <2>1, <2>3, <2>4, EffectTwice
<1>2. CASE ~ Project
  <2>1. applied' = applied /\ db' = db
    BY <1>2, OtherSteps
  <2> QED BY <2>1 DEF Settled
<1> QED BY <1>1, <1>2

-----------------------------------------------------------------------------
(***************************************************************************)
(* The end of the topic                                                    *)
(***************************************************************************)

\* At its end, everything has been applied and seen.
AtTheEnd(n) ==
  /\ n = applied /\ n = seen /\ n = Len(log) /\ DOMAIN log = 1..n
  /\ TypeOK /\ RowsAreBorn /\ CommentsCounted /\ Convergent

\* A birth is of an id the log has heard of.
LEMMA BornIsHeard ==
  ASSUME NEW n \in Nat, AtTheEnd(n), NEW type, NEW x \in Born({type})
  PROVE  x \in Ids /\ Last(n, x, {type}) > 0
<1>1. PICK k \in 1..n : log[k].type = type /\ log[k].id = x
  BY DEF Born, AtTheEnd
<1>2. log[k] \in EventsOf(topic) /\ topic \in Topics
  BY DEF AtTheEnd, TypeOK
<1>3. x \in Ids
  BY <1>1, <1>2, EventFields
<1>4. k <= Last(n, x, {type}) /\ Last(n, x, {type}) \in Nat
  BY <1>1, LastType
<1> QED BY <1>3, <1>4

LEMMA UsersAreTold ==
  ASSUME NEW n \in Nat, AtTheEnd(n), topic = "users"
  PROVE  db.users = [u \in Born({"registered"}) |-> UserSays(n, u)]
<1> DEFINE B == Born({"registered"})
<1>1. \A u \in B : u \in DOMAIN db.users /\ db.users[u] = UserSays(n, u)
  BY BornIsHeard DEF AtTheEnd, Convergent, UsersTold
<1>2. DOMAIN db.users \subseteq B
  BY DEF AtTheEnd, RowsAreBorn, Born
<1>3. IsTable(db.users, Ids, Users)
  BY DEF AtTheEnd, TypeOK, DbOK
<1> HIDE DEF B
<1>4. DOMAIN db.users = B /\ db.users = [u \in B |-> db.users[u]]
  BY <1>1, <1>2, <1>3 DEF IsTable
<1> QED BY <1>1, <1>4 DEF B

LEMMA ReposAreTold ==
  ASSUME NEW n \in Nat, AtTheEnd(n), topic = "repos"
  PROVE  db.repos = [r \in Born({"created"}) |-> RepoSays(n, r)]
<1> DEFINE B == Born({"created"})
<1>1. \A r \in B : r \in DOMAIN db.repos /\ db.repos[r] = RepoSays(n, r)
  BY BornIsHeard DEF AtTheEnd, Convergent, ReposTold
<1>2. DOMAIN db.repos \subseteq B
  BY DEF AtTheEnd, Convergent, ReposBorn, Born
<1>3. IsTable(db.repos, Ids, Repos)
  BY DEF AtTheEnd, TypeOK, DbOK
<1> HIDE DEF B
<1>4. DOMAIN db.repos = B /\ db.repos = [r \in B |-> db.repos[r]]
  BY <1>1, <1>2, <1>3 DEF IsTable
<1> QED BY <1>1, <1>4 DEF B

LEMMA PullsAreTold ==
  ASSUME NEW n \in Nat, AtTheEnd(n), topic = "prs"
  PROVE  db.pulls = [p \in Born({"opened"}) |-> PullSays(n, p)]
<1> DEFINE B == Born({"opened"})
<1>1. \A p \in B : p \in DOMAIN db.pulls /\ db.pulls[p] = PullSays(n, p)
  BY BornIsHeard DEF AtTheEnd, Convergent, PullsTold
<1>2. DOMAIN db.pulls \subseteq B
  BY DEF AtTheEnd, RowsAreBorn, Born
<1>3. IsTable(db.pulls, Ids, Pulls)
  BY DEF AtTheEnd, TypeOK, DbOK
<1> HIDE DEF B
<1>4. DOMAIN db.pulls = B /\ db.pulls = [p \in B |-> db.pulls[p]]
  BY <1>1, <1>2, <1>3 DEF IsTable
<1> QED BY <1>1, <1>4 DEF B

\* The comments are those of the log, so that an issue's count is of them.
LEMMA CommentsAreTold ==
  ASSUME NEW n \in Nat, AtTheEnd(n)
  PROVE  /\ DOMAIN db.comments = {k \in 1..n : log[k].type = "commented"}
         /\ \A k \in DOMAIN db.comments : db.comments[k] = log[k].id
<1>1. IsTable(db.comments, 1..n, Ids)
  BY DEF AtTheEnd, TypeOK, DbOK
<1>2. \A k \in DOMAIN db.comments :
        k \in 1..n /\ log[k].type = "commented" /\ db.comments[k] = log[k].id
  BY <1>1 DEF AtTheEnd, CommentsCounted, IsTable
<1>3. \A k \in 1..n : log[k].type = "commented" => k \in DOMAIN db.comments
  BY DEF AtTheEnd, Convergent, TalkTold
<1> QED BY <1>2, <1>3

LEMMA CountIsTold ==
  ASSUME NEW n \in Nat, AtTheEnd(n), NEW i \in DOMAIN db.issues
  PROVE  db.issues[i].comment_count = IssueSays(n, i).comment_count
<1> DEFINE S == {k \in 1..n : log[k].id = i /\ log[k].type = "commented"}
<1>1. db.issues[i].comment_count = Cardinality(Comments(db, i))
  <2>1. applied + 1..seen = {}
    BY DEF AtTheEnd
  <2> QED BY <2>1 DEF AtTheEnd, CommentsCounted, Recounted
<1>2. {c \in DOMAIN db.comments : db.comments[c] = i} = S
  BY CommentsAreTold
<1>3. IssueSays(n, i).comment_count = Page(S, PageMax)
  BY DEF IssueSays
<1>4. S \in SUBSET Nat /\ IsFiniteSet(S) /\ PageMax \in Nat
  <2>1. S \in SUBSET (1..n) /\ S \in SUBSET Nat
    OBVIOUS
  <2> HIDE DEF S
  <2>2. IsFiniteSet(1..n)
    BY FS_Interval
  <2> QED BY <2>1, <2>2, FS_Subset, PageAssumption
<1> HIDE DEF S
<1>5. Comments(db, i) = {c \in S : Cardinality({b \in S : b < c}) < PageMax}
  BY <1>2 DEF Comments
<1>6. Cardinality({c \in S : Cardinality({b \in S : b < c}) < PageMax}) = Page(S, PageMax)
  BY <1>4, FirstPage
<1> QED BY <1>1, <1>3, <1>5, <1>6

LEMMA IssuesAreTold ==
  ASSUME NEW n \in Nat, AtTheEnd(n), topic = "issues"
  PROVE  db.issues = [i \in Born({"opened"}) |-> IssueSays(n, i)]
<1> DEFINE B == Born({"opened"})
<1>1. IsTable(db.issues, Ids, Issues)
  BY DEF AtTheEnd, TypeOK, DbOK
<1>2. ASSUME NEW i \in B
      PROVE  i \in DOMAIN db.issues /\ db.issues[i] = IssueSays(n, i)
  <2> DEFINE says == IssueSays(n, i)
             row == db.issues[i]
  <2>1. /\ i \in DOMAIN db.issues /\ row.title = says.title /\ row.state = says.state
        /\ row.closed_at = says.closed_at
    BY BornIsHeard DEF AtTheEnd, Convergent, IssuesTold
  <2>2. row.comment_count = says.comment_count
    BY <2>1, CountIsTold
  <2>3. row = [title |-> row.title, state |-> row.state, closed_at |-> row.closed_at,
               comment_count |-> row.comment_count]
    BY <1>1, <2>1 DEF IsTable, Issues
  <2>4. says = [title |-> says.title, state |-> says.state, closed_at |-> says.closed_at,
                comment_count |-> says.comment_count]
    BY DEF IssueSays
  <2> HIDE DEF says, row
  <2>5. row = says
    BY <2>1, <2>2, <2>3, <2>4
  <2> QED BY <2>1, <2>5 DEF says, row
<1>3. DOMAIN db.issues \subseteq B
  BY DEF AtTheEnd, RowsAreBorn, Born
<1> HIDE DEF B
<1>4. DOMAIN db.issues = B /\ db.issues = [i \in B |-> db.issues[i]]
  BY <1>1, <1>2, <1>3 DEF IsTable
<1> QED BY <1>2, <1>4 DEF B

LEMMA TalkIsTold ==
  ASSUME NEW n \in Nat, AtTheEnd(n)
  PROVE  DOMAIN db.comments = Posted("commented") /\ DOMAIN db.reviews = Posted("reviewed")
<1>1. ASSUME NEW k \in 1..n, log[k].type \in {"commented", "reviewed"}
      PROVE  log[k].id \in Born({"opened"})
  BY <1>1 DEF AtTheEnd, Convergent, TalkFollows, Born
<1>2. /\ \A j : j \in Posted("commented") <=> j \in 1..n /\ log[j].type = "commented"
      /\ \A j : j \in Posted("reviewed") <=> j \in 1..n /\ log[j].type = "reviewed"
  BY <1>1 DEF Posted, AtTheEnd
<1>3. \A j : j \in DOMAIN db.comments <=> j \in 1..n /\ log[j].type = "commented"
  BY CommentsAreTold
<1>4. \A j : j \in DOMAIN db.reviews <=> j \in 1..n /\ log[j].type = "reviewed"
  BY DEF AtTheEnd, Convergent, ReviewsHeard, TalkTold
<1>5. DOMAIN db.comments = Posted("commented")
  BY <1>2, <1>3
<1>6. DOMAIN db.reviews = Posted("reviewed")
  BY <1>2, <1>4
<1> QED BY <1>5, <1>6

LEMMA ConvergentConverges ==
  ASSUME IInv, Convergent
  PROVE  Converges
<1>1. ASSUME applied = Len(log)
      PROVE  /\ topic = "users"  => db.users  = [u \in Born({"registered"}) |-> UserSays(applied, u)]
             /\ topic = "repos"  => db.repos  = [r \in Born({"created"}) |-> RepoSays(applied, r)]
             /\ topic = "issues" => /\ db.issues = [i \in Born({"opened"}) |-> IssueSays(applied, i)]
                                    /\ DOMAIN db.comments = Posted("commented")
             /\ topic = "prs"    => /\ db.pulls = [p \in Born({"opened"}) |-> PullSays(applied, p)]
                                    /\ DOMAIN db.reviews = Posted("reviewed")
  <2>1. applied \in Nat /\ AtTheEnd(applied)
    BY <1>1 DEF AtTheEnd, IInv, TypeOK
  <2> QED BY <2>1, UsersAreTold, ReposAreTold, IssuesAreTold, PullsAreTold, TalkIsTold
<1> QED BY <1>1 DEF Converges, Convergent, Settled

LEMMA InitConvergent ==
  ASSUME Init
  PROVE  Convergent
<1>1. applied = 0 /\ log = <<>> /\ seen = 0 /\ db = Empty /\ DOMAIN log = {}
  BY DEF Init
<1>2. \A n \in Nat : \A x, types : n = applied => ~ (Last(n, x, types) > 0)
  <2> TAKE n \in Nat
  <2> TAKE x, types
  <2>1. n = 0 => ~ (Last(n, x, types) > 0)
    BY LastType
  <2> QED BY <1>1, <2>1
<1>3. UsersTold /\ ReposTold /\ IssuesTold /\ PullsTold
  BY <1>2 DEF UsersTold, ReposTold, IssuesTold, PullsTold
<1>4. TalkTold /\ ReposBorn /\ ReviewsHeard /\ TalkFollows /\ Settled
  BY <1>1, EmptyTables DEF TalkTold, ReposBorn, ReviewsHeard, TalkFollows, Settled
<1> QED BY <1>3, <1>4 DEF Convergent

LEMMA StepConvergent ==
  ASSUME IInv, Convergent, [Next]_vars
  PROVE  Convergent'
<1>1. TypeOK /\ Counted /\ Counted' /\ FirstMention /\ RowsAreBorn
  BY StepInvariant DEF IInv
<1>2. UsersTold' /\ ReposTold' /\ IssuesTold' /\ PullsTold'
  BY <1>1, UsersToldStep, ReposToldStep, IssuesToldStep, PullsToldStep DEF Convergent
<1>3. TalkTold' /\ ReposBorn' /\ ReviewsHeard'
  BY <1>1, TalkToldStep, ReposBornStep, ReviewsHeardStep DEF Convergent
<1>4. TalkFollows' /\ Settled'
  BY <1>1, TalkFollowsStep, SettledStep DEF Convergent
<1> QED BY <1>2, <1>3, <1>4 DEF Convergent

\* When the projector reaches the end of its topic the rows are what the events
\* say, however often the tables were made again, over their old rows or after
\* dropping them; and an event delivered once more leaves the tables as they are.
THEOREM RowsConverge == Spec => []Converges
<1>1. Init => IInv /\ Convergent
  BY InitInvariant, InitConvergent
<1>2. (IInv /\ Convergent) /\ [Next]_vars => (IInv /\ Convergent)'
  BY StepInvariant, StepConvergent
<1>3. IInv /\ Convergent => Converges
  BY ConvergentConverges
<1> QED BY <1>1, <1>2, <1>3, PTL DEF Spec
=============================================================================
