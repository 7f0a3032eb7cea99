--------------------------- MODULE StartupParams ---------------------------
(***************************************************************************)
(* What becomes of the parameters of a startup packet: decoded and merged  *)
(* with the settings of the `options` string (conn.rs                      *)
(* handle_startup_packet, startup_config_parse_util.rs), used for the      *)
(* login, and sent on in the proxy's own startup packet to the backend     *)
(* (pg_client.rs write_startup_message).                                   *)
(*                                                                         *)
(* A text is a sequence of lexemes.  "\\" is one backslash and " " one     *)
(* separator, "=" one character; "-c" and "--" are two, any other lexeme   *)
(* is a word without special characters.                                   *)
(***************************************************************************)
EXTENDS Naturals, Sequences, FiniteSets, FiniteSetsExt, SequencesExt

CONSTANTS
  Lexemes,     \* what texts are made of
  Layouts,     \* the packets a client may send, with a place for the options
  OptionsHere, \* that place
  OptionTexts  \* bound: the options strings

ASSUME ParamsConstants ==
  /\ Layouts \subseteq [strings : Seq(Seq(Lexemes)), fragment : BOOLEAN]
  /\ OptionTexts \subseteq Seq(Lexemes)

VARIABLES
  strings,     \* the zero-terminated strings of the packet
  fragment,    \* bytes follow the last terminator
  phase,       \* packet, login, linking, sent, refused
  params,      \* Conn.params
  user, database, replication_mode,
  sent         \* the parameters of the proxy's startup packet

vars == <<strings, fragment, phase, params, user, database, replication_mode, sent>>

Backslash == "\\"
NoText == <<>>
Empty == [n \in {} |-> NoText]

Insert(map, key, value) ==
  [n \in DOMAIN map \cup {key} |-> IF n = key THEN value ELSE map[n]]

Extend(map, other) ==
  [n \in DOMAIN map \cup DOMAIN other |-> IF n \in DOMAIN other THEN other[n] ELSE map[n]]

Without(map, key) == [n \in DOMAIN map \ {key} |-> map[n]]

Get(map, key, default) == IF key \in DOMAIN map THEN map[key] ELSE default

Init ==
  /\ \E l \in Layouts, o \in OptionTexts :
       /\ strings = [i \in DOMAIN l.strings |->
                       IF l.strings[i] = OptionsHere THEN o ELSE l.strings[i]]
       /\ fragment = l.fragment
  /\ phase = "packet"
  /\ params = Empty
  /\ user = NoText /\ database = NoText /\ replication_mode = "off"
  /\ sent = Empty
-----------------------------------------------------------------------------
(* The options string. *)

\* Variant for mutation: an escape lasts until the next backslash.
SplitLexemeSticky(s, c) ==
  IF s.escaped /\ c # Backslash THEN [s EXCEPT !.curr = Append(@, c)]
  ELSE IF c = Backslash THEN [s EXCEPT !.escaped = ~@]
  ELSE IF c = " " THEN [s EXCEPT !.curr = NoText,
                                 !.tokens = IF s.curr = NoText THEN @ ELSE Append(@, s.curr)]
  ELSE [s EXCEPT !.curr = Append(@, c)]

\* The body of the loop of split_option_tokens.
SplitLexeme(s, c) ==
  IF s.escaped THEN [s EXCEPT !.escaped = FALSE, !.curr = Append(@, c)]
  ELSE IF c = Backslash THEN [s EXCEPT !.escaped = TRUE]
  ELSE IF c = " " THEN [s EXCEPT !.curr = NoText,
                                 !.tokens = IF s.curr = NoText THEN @ ELSE Append(@, s.curr)]
  ELSE [s EXCEPT !.curr = Append(@, c)]

\* The locals of split_option_tokens after each lexeme.
SplitStates(text) ==
  LET state[n \in 0 .. Len(text)] ==
        IF n = 0 THEN [tokens |-> <<>>, curr |-> NoText, escaped |-> FALSE]
        ELSE SplitLexeme(state[n - 1], text[n])
  IN state

split_option_tokens(text) ==
  LET s == SplitStates(text)[Len(text)]
  IN IF s.curr = NoText THEN s.tokens ELSE Append(s.tokens, s.curr)

EqualSigns(text) == {i \in DOMAIN text : text[i] = "="}

\* Variant for mutation: the text is split at its last equals sign.
SplitAtLast(text) == Max(EqualSigns(text))

\* split_once('=').
SplitAt(text) == Min(EqualSigns(text))

Key(text) == SubSeq(text, 1, SplitAt(text) - 1)
Value(text) == SubSeq(text, SplitAt(text) + 1, Len(text))

\* split_key_value returns Ok.
IsKeyValue(text) == EqualSigns(text) # {} /\ Key(text) # NoText /\ Value(text) # NoText

\* key.replace("-", "_").
Underscored(text) ==
  [i \in DOMAIN text |-> CASE text[i] = "--" -> "__" [] text[i] = "-c" -> "_c" [] OTHER -> text[i]]

\* One token in the loop of parse_options; `awaiting` is the second half of
\* the "-c" arm, which takes the token after it.
ParseToken(s, token) ==
  LET body == IF s.awaiting THEN token ELSE Tail(token)
      key  == IF ~s.awaiting /\ token[1] = "--" THEN Underscored(Key(body)) ELSE Key(body)
  IN IF ~s.awaiting /\ token = <<"-c">> THEN [s EXCEPT !.awaiting = TRUE]
     ELSE IF ~s.ok \/ ~(s.awaiting \/ token[1] \in {"-c", "--"}) \/ ~IsKeyValue(body)
     THEN [s EXCEPT !.ok = FALSE, !.awaiting = FALSE]
     ELSE [s EXCEPT !.awaiting = FALSE, !.parsed = Insert(@, key, Value(body))]

\* The locals of parse_options after each token.
ParseStates(tokens) ==
  LET state[n \in 0 .. Len(tokens)] ==
        IF n = 0 THEN [awaiting |-> FALSE, ok |-> TRUE, parsed |-> Empty]
        ELSE ParseToken(state[n - 1], tokens[n])
  IN state

\* parse_options: a trailing "-c" has no token to take.
parse_options(text) ==
  LET tokens == split_option_tokens(text)
      s      == ParseStates(tokens)[Len(tokens)]
  IN [ok |-> s.ok /\ ~s.awaiting, parsed |-> s.parsed]
-----------------------------------------------------------------------------
(* handle_startup_packet. *)

\* The loop reads a name and a value in turn until an empty name.
Terminators == {i \in DOMAIN strings : i % 2 = 1 /\ strings[i] = NoText}

\* The terminator is there, and nothing behind it.
LayoutOk == Terminators # {} /\ Min(Terminators) = Len(strings) /\ ~fragment

\* self.params when the loop is done: the last of several equal names counts.
Decoded ==
  LET last  == Min(Terminators)
      names == {i \in 1 .. last - 1 : i % 2 = 1}
  IN [n \in {strings[i] : i \in names} |-> strings[Max({i \in names : strings[i] = n}) + 1]]

\* Variant for mutation: a replication setting in the options is kept.
MergedAll(map, parsed) == Without(Extend(map, parsed), <<"options">>)

\* The options override the packet's own parameters, `replication` excepted.
Merged(map, parsed) == Without(Extend(map, Without(parsed, <<"replication">>)), <<"options">>)

\* Variant for mutation: the user is read before the options are merged.
LoginUserEarly(map, merged) == Get(map, <<"user">>, NoText)

LoginUser(map, merged) == Get(merged, <<"user">>, NoText)

\* Variant for mutation: an empty database name is taken as it is.
DatabaseAsGiven(merged, u) == Get(merged, <<"database">>, u)

\* An absent or empty database is the user's.
DatabaseOf(merged, u) ==
  IF Get(merged, <<"database">>, NoText) = NoText THEN u ELSE merged[<<"database">>]

\* parse_replication_mode; "refused" stands for Err.
ReplicationMode(value) ==
  CASE value \in {NoText, <<"off">>} -> "off"
    [] value = <<"on">>              -> "physical"
    [] value = <<"database">>        -> "logical"
    [] OTHER                         -> "refused"

Refuse ==
  /\ phase' = "refused"
  /\ UNCHANGED <<params, user, database, replication_mode>>

Decode ==
  /\ phase = "packet"
  /\ IF ~LayoutOk THEN Refuse
     ELSE LET opts   == IF <<"options">> \in DOMAIN Decoded
                        THEN parse_options(Decoded[<<"options">>])
                        ELSE [ok |-> TRUE, parsed |-> Empty]
              merged == Merged(Decoded, opts.parsed)
              u      == LoginUser(Decoded, merged)
              mode   == ReplicationMode(Get(merged, <<"replication">>, NoText))
          IN IF ~opts.ok \/ u = NoText \/ mode = "refused" THEN Refuse
             ELSE /\ params' = merged
                  /\ user' = u
                  /\ database' = DatabaseOf(merged, u)
                  /\ replication_mode' = mode
                  /\ phase' = "login"
  /\ UNCHANGED <<strings, fragment, sent>>

\* handle_authentication for `user`.
LoginAccepted ==
  /\ phase = "login"
  /\ phase' = "linking"
  /\ UNCHANGED <<strings, fragment, params, user, database, replication_mode, sent>>

LoginRejected ==
  /\ phase = "login"
  /\ phase' = "refused"
  /\ UNCHANGED <<strings, fragment, params, user, database, replication_mode, sent>>

\* What write_startup_message adds for a name that startup_params does not have.
Defaults ==
  Insert(Insert(Insert(Empty, <<"user">>, user), <<"database">>, database),
         <<"application_name">>, <<"wirechaos">>)

\* write_startup_message with startup_params = params.
WriteStartup ==
  /\ phase = "linking"
  /\ sent' = Extend(Defaults, params)
  /\ phase' = "sent"
  /\ UNCHANGED <<strings, fragment, params, user, database, replication_mode>>

Next == Decode \/ LoginAccepted \/ LoginRejected \/ WriteStartup

Spec == Init /\ [][Next]_vars
-----------------------------------------------------------------------------
(* Properties. *)

\* Position p is escaped when an odd number of backslashes ends before it.
Escaped(text, p) ==
  Max({k \in 0 .. p - 1 : \A j \in p - k .. p - 1 : text[j] = Backslash}) % 2 = 1

\* What goes into tokens: all but the separators and backslashes that are not
\* escaped.  The text is cut at those separators.
Kept(text) == {p \in DOMAIN text : text[p] \in {" ", Backslash} => Escaped(text, p)}
Cuts(text) == {p \in DOMAIN text : text[p] = " " /\ ~Escaped(text, p)}

\* Where tokens begin: a cut lies before, and nothing that is kept in between.
Firsts(text) ==
  LET kept == Kept(text)
      cuts == Cuts(text)
  IN {p \in kept : \A q \in kept : q < p => \E r \in cuts : q < r /\ r < p}

\* The number of the token a position is kept in, and its place there.
TokenOf(text) ==
  LET firsts == Firsts(text)
  IN [p \in Kept(text) |-> Cardinality({q \in firsts : q <= p})]
PlaceOf(text) ==
  LET token == TokenOf(text)
  IN [p \in DOMAIN token |->
        Cardinality({q \in DOMAIN token : q <= p /\ token[q] = token[p]})]

\* These are the tokens of the text: so many, so long, and each position kept
\* is where it belongs.
IsSplit(text, tokens) ==
  LET token == TokenOf(text)
      place == PlaceOf(text)
  IN /\ Len(tokens) = Cardinality(Firsts(text))
     /\ \A k \in DOMAIN tokens :
          Len(tokens[k]) = Cardinality({p \in DOMAIN token : token[p] = k})
     /\ \A p \in DOMAIN token : tokens[token[p]][place[p]] = text[p]

\* Token k is the argument of a "-c" before it.  An argument holds an equals
\* sign, so that no argument is itself taken for "-c".
IsArgument(tokens, k) == k > 1 /\ tokens[k - 1] = <<"-c">>
IsFlag(tokens, k) == tokens[k] = <<"-c">> /\ ~IsArgument(tokens, k)
Setting(tokens, k) == IF IsArgument(tokens, k) THEN tokens[k] ELSE Tail(tokens[k])
IsFirstEquals(text, e) == text[e] = "=" /\ \A i \in 1 .. e - 1 : text[i] # "="
FirstEquals(text) == CHOOSE e \in DOMAIN text : IsFirstEquals(text, e)
SettingName(tokens, k) ==
  LET setting == Setting(tokens, k)
      name    == SubSeq(setting, 1, FirstEquals(setting) - 1)
  IN IF ~IsArgument(tokens, k) /\ tokens[k][1] = "--" THEN Underscored(name) ELSE name
SettingValue(tokens, k) ==
  LET setting == Setting(tokens, k)
  IN SubSeq(setting, FirstEquals(setting) + 1, Len(setting))

\* The tokens that are settings.
SettingsOf(tokens) == {k \in DOMAIN tokens : ~IsFlag(tokens, k)}

\* A setting has a name and a value around its first equals sign, neither of
\* them empty.
IsSetting(tokens, k) ==
  /\ IsArgument(tokens, k) \/ tokens[k][1] \in {"-c", "--"}
  /\ \E e \in 2 .. Len(Setting(tokens, k)) - 1 : IsFirstEquals(Setting(tokens, k), e)

\* Every token is "-c" before an argument, or a setting.
OptionsOk(tokens) ==
  \A k \in DOMAIN tokens : IF IsFlag(tokens, k) THEN k < Len(tokens) ELSE IsSetting(tokens, k)

\* The packet has an options string that is parsed.
HasOptions == LayoutOk /\ <<"options">> \in DOMAIN Decoded
OptionTokens == IF HasOptions THEN split_option_tokens(Decoded[<<"options">>]) ELSE <<>>

\* The splitting loop with its one-character memory yields the tokens the
\* escaping rule defines, for runs of backslashes, escaped separators and a
\* backslash at the end.  A packet whose options are not well-formed is refused, and in the packet to
\* the backend every parameter has the value of the last option that sets it
\* or, without one, of the last pair of the packet; `options` itself, also one
\* hidden in the options, is not sent on (conn.rs handle_startup_packet,
\* startup_config_parse_util.rs parse_options).
SettingsMatch ==
  LET tokens == OptionTokens
  IN /\ HasOptions => IsSplit(Decoded[<<"options">>], tokens)
     /\ phase \notin {"packet", "refused"} => OptionsOk(tokens)
     /\ phase = "sent" =>
          /\ <<"options">> \notin DOMAIN sent
          /\ \A n \in DOMAIN Decoded \cup {SettingName(tokens, k) : k \in SettingsOf(tokens)} :
               n \notin {<<"options">>, <<"replication">>} =>
                 /\ n \in DOMAIN sent
                 /\ LET set == {k \in SettingsOf(tokens) : SettingName(tokens, k) = n}
                    IN sent[n] = IF set = {} THEN Decoded[n] ELSE SettingValue(tokens, Max(set))

\* The session the backend opens is for the user whose password was checked
\* and the database the proxy recorded, wherever the names came from
\* (conn.rs handle_startup_packet, pg_client.rs write_startup_message).  A
\* backend takes an empty database name for the user's.
OneIdentity ==
  phase = "sent" =>
    /\ sent[<<"user">>] = user
    /\ (IF sent[<<"database">>] = NoText THEN sent[<<"user">>] ELSE sent[<<"database">>]) = database

\* Replication is asked for by the packet's own parameter only: neither form
\* of option, however escaped, sets what is sent on (conn.rs
\* handle_startup_packet, `parsed.remove("replication")`).
ReplicationExplicit ==
  phase = "sent" =>
    LET own == Get(Decoded, <<"replication">>, NoText)
    IN /\ Get(sent, <<"replication">>, NoText) = own
       /\ replication_mode = ReplicationMode(own)
=============================================================================
