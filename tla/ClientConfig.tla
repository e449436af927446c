---------------------------- MODULE ClientConfig ----------------------------
(***************************************************************************)
(* What the constructors of the six SDKs, and the Laravel provider in      *)
(* front of PHP's, make of their options.  Construction sends nothing.     *)
(*                                                                         *)
(* An option is "none" (absent or null), "empty", "blank" (white space) or *)
(* "set"; a base URL may also be "relative", without scheme and host.      *)
(* Scopes, user agents and time-outs have defaults and are left out, as is *)
(* the trailing slash, which everybody cuts off.                           *)
(***************************************************************************)

Strings == {"none", "empty", "blank", "set"}
Options == [base : Strings \cup {"relative"}, static : Strings, id : Strings, secret : Strings]

\* A client, by the bearer token it will send (a configured one, or what it
\* exchanges its credentials for) and by whether its requests have a host.
Client(bearer, base) == [bearer |-> bearer, reachable |-> base = "set"]
Refused == [bearer |-> "refused", reachable |-> FALSE]
Bearers == Strings \cup {"exchanged"}
Clients == {Client(b, u) : b \in Bearers, u \in {"set", "blank"}}

\* A static token goes before credentials everywhere.
Resolve(o, HasBase, HasToken, HasCredentials) ==
    CASE ~HasBase -> Refused
      [] HasBase /\ HasToken -> Client(o.static, o.base)
      [] HasBase /\ ~HasToken /\ HasCredentials -> Client("exchanged", o.base)
      [] OTHER -> Refused

Given(value) == value \notin {"none", "empty"}
NotBlank(value) == value \notin {"none", "empty", "blank"}

\* Slip: one of the two credentials is enough.
EmptyIsAbsentEither(o) ==
    Resolve(o, Given(o.base), Given(o.static), Given(o.id) \/ Given(o.secret))

\* Go, Python and Node: what is empty counts as absent.
EmptyIsAbsent(o) ==
    Resolve(o, Given(o.base), Given(o.static), Given(o.id) /\ Given(o.secret))

GoNew(o) == EmptyIsAbsent(o)
PythonInit(o) == EmptyIsAbsent(o)
NodeConstructor(o) == EmptyIsAbsent(o)

\* Slip: the token is looked at with isEmpty.
JavaBuildEmpty(o) ==
    Resolve(o, NotBlank(o.base), Given(o.static), NotBlank(o.id) /\ NotBlank(o.secret))

\* Java: what is blank counts as absent.
JavaBuild(o) ==
    Resolve(o, NotBlank(o.base), NotBlank(o.static), NotBlank(o.id) /\ NotBlank(o.secret))

\* .NET: the same, of trimmed strings, and the URL must be absolute.
DotnetConstructor(o) ==
    Resolve(o, o.base = "set", NotBlank(o.static), NotBlank(o.id) /\ NotBlank(o.secret))

\* PHP: only null is absent, except for the URL.
PhpConstruct(o) ==
    Resolve(o, Given(o.base), o.static # "none", o.id # "none" /\ o.secret # "none")

NullableString(value) == IF NotBlank(value) THEN value ELSE "none"

\* Slip: the static token is handed on as it is.
LaravelOptionsRaw(o) ==
    [base |-> NullableString(o.base), static |-> o.static,
     id |-> NullableString(o.id), secret |-> NullableString(o.secret)]

\* The Laravel provider trims, and makes null of what is left empty.
LaravelOptions(o) ==
    [base |-> NullableString(o.base), static |-> NullableString(o.static),
     id |-> NullableString(o.id), secret |-> NullableString(o.secret)]

ClientOf(sdk, o) ==
    CASE sdk = "go" -> GoNew(o)     [] sdk = "python" -> PythonInit(o)
      [] sdk = "node" -> NodeConstructor(o) [] sdk = "java" -> JavaBuild(o)
      [] sdk = "dotnet" -> DotnetConstructor(o) [] sdk = "php" -> PhpConstruct(o)
      [] sdk = "laravel" -> PhpConstruct(LaravelOptions(o))
=============================================================================
