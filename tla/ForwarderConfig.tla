-------------------------- MODULE ForwarderConfig --------------------------
(***************************************************************************)
(* What the forwarder makes of its text inputs: load_config() of           *)
(* primary-pc-forwarder/src/config.cpp and parse_ws_url() of               *)
(* relay_client.cpp, as operators.                                         *)
(*                                                                         *)
(* A text is a sequence of tokens: a name, a numeral, a scheme, a single   *)
(* punctuation mark, or " " for blanks.  Two tokens that would run         *)
(* together into another one (a name after a numeral) are not adjacent.    *)
(***************************************************************************)
EXTENDS Integers, Sequences, SequencesExt

CONSTANTS
  Token,    \* the tokens of texts
  Numeral,  \* the numerals that fit an int, as a function to their values
  Lower,    \* names with capital letters, as a function to the small ones
  Url       \* descriptions of the relay URLs a user means to write

Mark == {" ", "=", "#", ";", "[", "]", ":", "/"}
Text == {s \in Seq(Token) : \A i \in 1 .. Len(s) - 1 : s[i] # " " \/ s[i + 1] # " "}

ASSUME TokenAssumption == Mark \union {"ws://", "wss://"} \subseteq Token
ASSUME NumeralAssumption ==
  /\ DOMAIN Numeral \subseteq Token \ Mark
  /\ \A t \in DOMAIN Numeral : Numeral[t] \in Int

FirstOf(s, token) == SelectInSeq(s, LAMBDA t : t = token)
LastOf(s, token)  == SelectLastInSeq(s, LAMBDA t : t = token)
From(s, i)  == SubSeq(s, i, Len(s))
UpTo(s, i)  == SubSeq(s, 1, i)

\* std::stoi skips blanks, reads the numeral behind them and throws if there is
\* none; what follows the numeral is ignored.
Unspaced(s) == IF s # <<>> /\ Head(s) = " " THEN Tail(s) ELSE s
Numeric(s)  == Unspaced(s) # <<>> /\ Head(Unspaced(s)) \in DOMAIN Numeral
Stoi(s)     == Numeral[Head(Unspaced(s))]

\* Mutant: the field is as wide as int.
Uint16Whole(n) == n

\* static_cast<uint16_t>
Uint16Values == 65536
Uint16(n) == n % Uint16Values
-----------------------------------------------------------------------------
(* load_config() *)

Default ==
  [target_ip |-> <<"192.168.1.100">>, target_port |-> 5555, log_level |-> 2,
   use_relative_deltas |-> TRUE, relay_url |-> <<>>, relay_key |-> <<>>,
   use_relay |-> FALSE, relay_verify_tls |-> TRUE]

\* The names of the fields can be written.
ASSUME KeyAssumption == DOMAIN Default \subseteq Token

\* Only names have capitals, and those the code compares with have none.
ASSUME LowerAssumption ==
  /\ DOMAIN Lower \subseteq Token \ (Mark \union DOMAIN Default \union {"true"})
  /\ \A t \in DOMAIN Lower : Lower[t] \notin DOMAIN Lower \union Mark

Texts   == {"target_ip", "relay_url", "relay_key"}
Numbers == {"target_port", "log_level"}
Flags   == {"use_relative_deltas", "use_relay", "relay_verify_tls"}

Trim(s) ==
  LET ink == {i \in DOMAIN s : s[i] # " "}
  IN  IF ink = {} THEN <<>> ELSE SubSeq(s, Min(ink), Max(ink))

Lowered(t) == IF t \in DOMAIN Lower THEN Lower[t] ELSE t

IEquals(s, t) == [i \in DOMAIN s |-> Lowered(s[i])] = [i \in DOMAIN t |-> Lowered(t[i])]

\* Empty lines, comments, section headers, and lines without '='.
Skipped(line) ==
  line = <<>> \/ line[1] \in {"#", ";", "["} \/ FirstOf(line, "=") = 0

\* Mutant: the key ends at the last '='.
KeyToLast(line) == Trim(UpTo(line, LastOf(line, "=") - 1))

Key(line)   == Trim(UpTo(line, FirstOf(line, "=") - 1))
Value(line) == Trim(From(line, FirstOf(line, "=") + 1))

Sets(line, field) == ~Skipped(line) /\ IEquals(Key(line), <<field>>)

Converted(field, value) ==
  CASE field \in Texts         -> value
    [] field \in Flags         -> IEquals(value, <<"true">>) \/ value = <<"1">>
    [] field = "target_port"   -> Uint16(Stoi(value))
    [] field = "log_level"     -> Stoi(value)

\* What one round of the loop over the lines makes of a field.
AfterLine(field, old, raw) ==
  IF Sets(Trim(raw), field) THEN Converted(field, Value(Trim(raw))) ELSE old

\* A field after the first 0, 1, 2... rounds of the loop.
Rounds(field, file) ==
  LET after[i \in 0 .. Len(file)] ==
        IF i = 0 THEN Default[field] ELSE AfterLine(field, after[i - 1], file[i])
  IN  after

\* A file that cannot be opened is read like an empty one.
LoadConfig(file) == [field \in DOMAIN Default |-> Rounds(field, file)[Len(file)]]

\* std::stoi throws, and nothing catches it.
LoadThrows(file) ==
  \E i \in DOMAIN file : LET line == Trim(file[i]) IN
     \E field \in Numbers : Sets(line, field) /\ ~Numeric(Value(line))
-----------------------------------------------------------------------------
(* parse_ws_url() *)

HasScheme(u) == u # <<>> /\ Head(u) \in {"ws://", "wss://"}

Slash(u)    == FirstOf(Tail(u), "/")
HostPort(u) == IF Slash(u) = 0 THEN Tail(u) ELSE UpTo(Tail(u), Slash(u) - 1)
Path(u)     == IF Slash(u) = 0 THEN <<"/">> ELSE From(Tail(u), Slash(u))

Bracketed(hp) == hp # <<>> /\ Head(hp) = "["
Unclosed(hp)  == Bracketed(hp) /\ FirstOf(hp, "]") = 0

\* Mutant: the last colon separates the port in an IPv6 literal, too.
ColonAnywhere(hp) == LastOf(hp, ":")

\* Where the port begins: behind the bracket of an IPv6 literal if a colon is
\* there, behind the last colon otherwise; 0 if there is no port.
Colon(hp) ==
  IF ~Bracketed(hp) THEN LastOf(hp, ":")
  ELSE LET next == FirstOf(hp, "]") + 1
       IN  IF next <= Len(hp) /\ hp[next] = ":" THEN next ELSE 0

Host(hp) ==
  IF Bracketed(hp) THEN SubSeq(hp, 2, FirstOf(hp, "]") - 1)
  ELSE IF Colon(hp) = 0 THEN hp ELSE UpTo(hp, Colon(hp) - 1)

PortText(hp) == From(hp, Colon(hp) + 1)

\* std::stoi on the port throws before an empty host is refused.
UrlThrows(u) ==
  /\ HasScheme(u) /\ ~Unclosed(HostPort(u))
  /\ Colon(HostPort(u)) # 0 /\ ~Numeric(PortText(HostPort(u)))

UrlRefused(u) ==
  HasScheme(u) =>
    \/ Unclosed(HostPort(u))
    \/ ~UrlThrows(u) /\ Host(HostPort(u)) = <<>>

ParsedUrl(u) ==
  LET hp == HostPort(u) IN
  [use_tls |-> Head(u) = "wss://",
   host    |-> Host(hp),
   path    |-> Path(u),
   port    |-> IF Colon(hp) # 0 THEN Uint16(Stoi(PortText(hp)))
               ELSE IF Head(u) = "wss://" THEN 443 ELSE 80]
-----------------------------------------------------------------------------
(* References: what the two mean, independently of how they work. *)

\* A host without the marks that delimit it, a port that is one, a path from
\* its slash on.
ASSUME UrlAssumption ==
  \A d \in Url :
    /\ d.use_tls \in BOOLEAN
    /\ d.host \in Seq(Token \ {"/", "[", "]"}) \ {<<>>}
    /\ d.port # "" => d.port \in DOMAIN Numeral /\ Numeral[d.port] \in 0 .. Uint16Values - 1
    /\ d.path \in Seq(Token) /\ (d.path # <<>> => Head(d.path) = "/")

Blanks == {<<>>, <<" ">>}
Spelling(name) == {name} \union {t \in DOMAIN Lower : Lower[t] = name}

\* "Lines of the form `key = value` are recognised" (config.h:21).
Says(line, field, value) ==
  /\ value = <<>> \/ (Head(value) # " " /\ Last(value) # " ")
  /\ \E before, after, left, right \in Blanks, name \in Spelling(field) :
       line = before \o <<name>> \o after \o <<"=">> \o left \o value \o right

SaysSomething(line, field) ==
  \E before, after \in Blanks, name \in Spelling(field) :
     IsPrefix(before \o <<name>> \o after \o <<"=">>, line)

\* A value that is one numeral in the range of the field.
Plain(field, value) ==
  /\ Len(value) = 1 /\ Head(value) \in DOMAIN Numeral
  /\ field = "target_port" => Numeral[Head(value)] \in 0 .. Uint16Values - 1

\* A value means itself, a number, or whether it is true or 1.
Means(field, value, result) ==
  \/ field \in Texts /\ result = value
  \/ field \in Flags /\ result = (value \in {<<"1">>} \union {<<t>> : t \in Spelling("true")})
  \/ field \in Numbers /\ (Plain(field, value) => result = Numeral[Head(value)])

\* The last line that says something of a field counts.
Written(file, field, result) ==
  LET saying == {i \in DOMAIN file : SaysSomething(file[i], field)} IN
  IF saying = {} THEN result = Default[field]
  ELSE LET line == file[Max(saying)] IN
       \E i \in 1 .. Len(line) + 1, j \in {Len(line) - 1, Len(line)} :
          LET value == SubSeq(line, i, j)
          IN  Says(line, field, value) /\ Means(field, value, result)

\* scheme://host[:port][/path], with an IPv6 literal in brackets.
UrlText(d) ==
     <<IF d.use_tls THEN "wss://" ELSE "ws://">>
  \o (IF FirstOf(d.host, ":") # 0 THEN <<"[">> \o d.host \o <<"]">> ELSE d.host)
  \o (IF d.port = "" THEN <<>> ELSE <<":", d.port>>)
  \o d.path

UrlMeaning(d) ==
  [use_tls |-> d.use_tls, host |-> d.host,
   path |-> IF d.path = <<>> THEN <<"/">> ELSE d.path,
   port |-> IF d.port # "" THEN Numeral[d.port] ELSE IF d.use_tls THEN 443 ELSE 80]
=============================================================================
