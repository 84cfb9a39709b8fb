--------------------------- MODULE Authentication ---------------------------
(***************************************************************************)
(* Who may use the server: the settings authentication is configured from  *)
(* (EnvironmentUtils, OidcConfiguration), the provider's keys it loads     *)
(* when it starts (JwtAuthHandler::configure, JwksCache), and how it       *)
(* judges a request (JwtAuthHandler::before_handle).  Strings the code     *)
(* takes apart are sequences of symbols.                                   *)
(***************************************************************************)
EXTENDS Naturals, Sequences, SequencesExt

Unset == <<"unset">>

\* load_dotenv: a line that names a variable; Unset if it does not.
LineEntry(line) ==
  LET text == IF line # <<>> /\ Last(line) = "\r" THEN Front(line) ELSE line
      eqs  == {i \in 1..Len(text) : text[i] = "="}
      eq   == CHOOSE i \in eqs : \A j \in eqs : i <= j
  IN  IF text = <<>> \/ Head(text) = "#" \/ eqs = {} THEN [key |-> Unset, value |-> Unset]
      ELSE [key |-> SubSeq(text, 1, eq - 1), value |-> SubSeq(text, eq + 1, Len(text))]

\* A variable that is set, even to nothing, is not overwritten.
LoadDotenv(env, lines) ==
  FoldLeft(LAMBDA e, line :
             LET l == LineEntry(line)
             IN  IF l.key \in DOMAIN e /\ e[l.key] = Unset
                   THEN [e EXCEPT ![l.key] = l.value] ELSE e,
           env, lines)

GetEnv(env, name) == IF env[name] = <<>> THEN Unset ELSE env[name]

IsSpace(s) == s = " "

TrimSpace(text) ==
  LET solid == {i \in 1..Len(text) : ~IsSpace(text[i])}
  IN  IF solid = {} THEN <<>>
      ELSE SubSeq(text, CHOOSE i \in solid : \A j \in solid : i <= j,
                        CHOOSE i \in solid : \A j \in solid : j <= i)

\* split_env: the fields between the commas, trimmed, without the empty ones.
RECURSIVE SplitEnv(_)
SplitEnv(text) ==
  LET commas == {i \in 1..Len(text) : text[i] = ","}
      comma  == IF commas = {} THEN Len(text) + 1 ELSE CHOOSE i \in commas : \A j \in commas : i <= j
      token  == TrimSpace(SubSeq(text, 1, comma - 1))
  IN  IF text = <<>> THEN <<>>
      ELSE (IF token = <<>> THEN <<>> ELSE <<token>>)
             \o SplitEnv(SubSeq(text, comma + 1, Len(text)))

DisableAuth == <<"D">>
WellKnown == <<"W">>
Audiences == <<"A">>

Throws == [starts |-> FALSE]

\* Faulty: starts without authentication when the provider's address is missing.
Create_Lenient(env) ==
  LET enabled   == GetEnv(env, DisableAuth) \notin {<<"true">>, <<"1">>} /\ GetEnv(env, WellKnown) # Unset
      audiences == SplitEnv(GetEnv(env, Audiences))
  IN  IF enabled /\ (GetEnv(env, Audiences) = Unset \/ audiences = <<>>) THEN Throws
      ELSE [starts |-> TRUE, enabled |-> enabled]

\* OidcConfiguration::create: authentication is on unless it is switched off, and then
\* the server does not start without the provider's address and an audience.
Create(env) ==
  LET enabled   == GetEnv(env, DisableAuth) \notin {<<"true">>, <<"1">>}
      audiences == SplitEnv(GetEnv(env, Audiences))
  IN  IF enabled /\ (Unset \in {GetEnv(env, WellKnown), GetEnv(env, Audiences)} \/ audiences = <<>>)
        THEN Throws
        ELSE [starts |-> TRUE, enabled |-> enabled]
-----------------------------------------------------------------------------
Usable(k) == k.kid # "" /\ k.use = "sig" /\ k.kty = "RSA" /\ k.complete

Add(cache, k) ==
  IF k.kid \in DOMAIN cache THEN cache
  ELSE [kid \in DOMAIN cache \cup {k.kid} |-> IF kid = k.kid THEN k ELSE cache[kid]]

\* loadJwksJson, as refreshJwks calls it: a document without keys empties the cache; an
\* entry whose numbers are no key makes the whole document fail, and the cache is kept.
LoadJwks(doc, cache) ==
  CASE doc.is = "nothing" -> cache
    [] doc.is = "no keys" -> <<>>
    [] doc.is = "keys" ->
         IF \E i \in DOMAIN doc.keys : Usable(doc.keys[i]) /\ doc.keys[i].pem = "invalid" THEN cache
         ELSE FoldLeft(LAMBDA c, k : IF Usable(k) THEN Add(c, k) ELSE c, <<>>, doc.keys)

\* configure: the provider's configuration first, then its keys; what fails is logged,
\* and the server starts without them.
Configure(oidc, wellKnown, doc) ==
  IF ~oidc.enabled THEN [enabled |-> FALSE, initialized |-> FALSE, cache |-> <<>>]
  ELSE IF wellKnown # "ok" THEN [enabled |-> TRUE, initialized |-> FALSE, cache |-> <<>>]
  ELSE [enabled |-> TRUE, initialized |-> TRUE, cache |-> LoadJwks(doc, <<>>)]

AllowedAlgs == {"RS256", "PS256"}
VerifiableAlgs == {"RS256", "RS384", "RS512", "PS256", "PS384", "PS512"}

\* verifier.verify: the signature, and what the library makes of iss, aud and exp.
Verifies(pem, token) == token.signer = pem /\ token.claims

\* tryVerify: the error, "" if there is none.
TryVerify(cache, token) ==
  IF token.kid \notin DOMAIN cache THEN "Unknown key id kid"
  ELSE LET key == cache[token.kid]
       IN  IF key.use # "sig" THEN "jwk not for signing"
           ELSE IF key.kty # "RSA" THEN "Unsupported key type"
           ELSE IF key.alg # "" /\ key.alg # token.alg THEN "jwk alg mismatch"
           ELSE IF token.alg \notin VerifiableAlgs THEN "Unsupported algorithm"
           ELSE IF ~Verifies(key.pem, token) THEN "Token verification failed"
           ELSE ""

\* authenticate: the retry asks for an error that tryVerify does not return.
Authenticate(auth, token, published) ==
  IF token.form # "jwt" \/ ~auth.initialized THEN "refused"
  ELSE IF ~token.sub THEN "error"
  ELSE IF token.kid = "" \/ token.alg = "" \/ token.alg \notin AllowedAlgs THEN "refused"
  ELSE LET err == TryVerify(auth.cache, token)
       IN  IF err = "" \/ (err = "Unknown kid" /\ TryVerify(LoadJwks(published, auth.cache), token) = "")
             THEN "handled" ELSE "refused"

\* before_handle
BeforeHandle(auth, request, published) ==
  IF request.method = "options" \/ ~auth.enabled \/ request.url \in {"health", "login"}
    THEN "handled"
    ELSE Authenticate(auth, request.token, published)
=============================================================================
