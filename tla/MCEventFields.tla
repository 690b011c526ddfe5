--------------------------- MODULE MCEventFields ---------------------------
(* A small instance of EventFields for TLC. *)
EXTENDS EventFields, TLC

Leaf(x)       == [kind |-> "leaf", is |-> x]
MapOf(f)      == [kind |-> "map", items |-> f]
ListOf(s)     == [kind |-> "list", items |-> s]
F(key, value) == [key |-> key, value |-> value]

\* One array with a secret and an identifier of the caller's own, and one with two
\* containers and a field with a reserved name.
MCArgs == << <<F("user_id", Leaf("x")), F("password", Leaf("s"))>>,
             <<F("logger_name", Leaf("x")), F("a", [box |-> "t"]), F("b", [box |-> "m"])>> >>
Hidden(x) == MapOf("Password" :> x)
Mixed(x)  == MapOf("password" :> x @@ "a" :> ListOf(<<Hidden(x)>>))
MCBoxes   == "m" :> Mixed(Leaf("s"))
             @@ "t" :> [kind |-> "typed", items |-> "password" :> Leaf("s")]

MCPrefixed == "logger_name" :> "field.logger_name" @@ "error" :> "field.error"
MCRank     == "a" :> 1 @@ "b" :> 2 @@ "logger_name" :> 3 @@ "password" :> 4 @@ "user_id" :> 5
MCContexts == {{"user_id"}}
Symmetry   == Permutations(Goroutines)
MCErrors   == {Leaf("e")}
Chain      == <<"redact", "user_id">>
Outputs    == <<"text", "json", "async">>

\* What the fields, the containers and the errors hold, redacted or not.
MCValues ==
  LET held == {Leaf("x"), Leaf("s"), Leaf("user_id")} \cup MCErrors
              \cup UNION {{MCBoxes[b], Changed(MCBoxes[b])} : b \in DOMAIN MCBoxes}
  IN held \cup {Redacted(k, v) : k \in DOMAIN MCRank, v \in held}

MCTrimmed == " token " :> "token" @@ " TOKEN " :> "TOKEN"
MCLowered == "Password" :> "password" @@ "TOKEN" :> "token"

\* Values up to three levels deep; those of the fields of above are among them.
Shallow  == {Leaf("x"), [kind |-> "typed", items |-> "password" :> Leaf("s")]}
Middle   == Shallow \cup {MapOf(k :> v) : k \in {"password", " token ", "a"}, v \in Shallow}
                    \cup {ListOf(<<v, w>>) : v \in Shallow, w \in Shallow} \cup {MapOf(<<>>), ListOf(<<>>)}
Deep     == Middle \cup {MapOf("Password" :> v @@ "a" :> w) : v \in Middle, w \in Middle}
                   \cup {ListOf(<<v, MapOf("a" :> w)>>) : v \in Middle, w \in Middle}
                   \cup {ListOf(<<ListOf(<<v>>)>>) : v \in Middle}
Plain    == Shallow \cup {Leaf(l) : l \in {"s", "e", "user_id", "changed"}}
            \cup {Mask, Changed(MCBoxes["t"])}
Inner    == Middle \cup {Changed(MCBoxes["m"])} \cup {Hidden(x) : x \in Plain}
            \cup {MapOf("password" :> x @@ "a" :> y) : x \in Plain, y \in Plain}
Single   == {MapOf("a" :> v) : v \in Middle} \cup {ListOf(<<v>>) : v \in Inner}
MCNesting == <<Plain, Inner, Single, Deep \cup {Mixed(x) : x \in Plain}>>

\* The walk and the paths of a value agree on all of these.
ASSUME RedactsByPath
=============================================================================
