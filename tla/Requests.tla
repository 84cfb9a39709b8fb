------------------------------ MODULE Requests ------------------------------
(***************************************************************************)
(* The two REST handlers that take a JSON body, of sessions and of the     *)
(* login: how the body becomes a request (dto/), what the handler does     *)
(* with it and what it answers.                                            *)
(*                                                                         *)
(* A body is [is |-> "garbled"], [is |-> "array"] or an object with its    *)
(* `fields', which map a name to a value with its JSON type; every value   *)
(* is a sequence of symbols.                                               *)
(***************************************************************************)
EXTENDS UsdFileLocator

TypeError == <<"type error">>

\* nlohmann::json: a field that may be missing (`value'), and one that may not (`at').
Value(fields, key, type, default) ==
  IF key \notin DOMAIN fields THEN default
  ELSE IF fields[key].type = type THEN fields[key].is ELSE TypeError

At(fields, key, type) == Value(fields, key, type, TypeError)

Modes == {<<"single_edit">>, <<"single_runtime">>, <<"collaborative_edit">>, <<"collaborative_runtime">>}

\* SessionMode: anything that is not the name of a mode becomes the first one.
ModeOf(fields) ==
  IF "mode" \in DOMAIN fields /\ fields["mode"].type = "string" /\ fields["mode"].is \in Modes
    THEN fields["mode"].is ELSE <<"single_edit">>

CreateSessionRequest(fields) ==
  [usd_file |-> Value(fields, "usd_file", "string", <<>>), mode |-> ModeOf(fields),
   auto_commit |-> Value(fields, "auto_commit", "bool", <<"false">>)]

LoginRequest(fields) ==
  [username |-> At(fields, "username", "string"), password |-> At(fields, "password", "string")]

\* parse_json_dto, given what from_json makes of an object: anything else, and a field
\* that is missing or of the wrong type, is answered with 400.
Parses(body, dto) == body.is = "object" /\ \A key \in DOMAIN dto : dto[key] # TypeError

FieldsOf(body) == IF body.is = "object" THEN body.fields ELSE [key \in {} |-> <<>>]
-----------------------------------------------------------------------------
(* SessionController and SessionManager::Create.  `opens' says what becomes of   *)
(* the root layer, the sidecar and the stage: they open, one of them does not, or *)
(* a call throws on the way to the answer.                                       *)

CreateSession(body, disk, opens) ==
  LET dto == CreateSessionRequest(FieldsOf(body))
      r   == Resolve(dto.usd_file, disk)
  IN  IF ~Parses(body, dto) \/ dto.usd_file = <<>> THEN Response(400)
      ELSE IF r.status # "Ok" THEN Response(404)
      ELSE IF opens = "fails" THEN Response(409)
      ELSE IF opens = "throws" THEN Response(500)
      ELSE [code |-> 201, session |-> dto @@ [file |-> r.file]]

-----------------------------------------------------------------------------
(* AuthController::Login.  The provider's answer has a status code, a body, and *)
(* whether the transfer succeeded.                                              *)

\* HttpClient::post.
Ok(answer) == answer.transferred /\ answer.code \in 200..299

\* OAuthTokenResponse: an optional field of the wrong type is left out.
Optional(fields, key, type) ==
  IF Value(fields, key, type, TypeError) = TypeError THEN {} ELSE {key}

\* LoginResponse: what the client is shown of the provider's answer.
LoginResponse(fields) ==
  LET shown == {"access_token"} \cup Optional(fields, "expires_in", "int")
                 \cup Optional(fields, "refresh_token", "string") \cup Optional(fields, "scope", "string")
  IN  [key \in shown |-> fields[key].is]
        @@ [key \in {"token_type"} |->
              IF Optional(fields, key, "string") = {} THEN <<"Bearer">> ELSE fields[key].is]

Answer(code, throttler) == [code |-> code, throttler |-> throttler]

\* Faulty: every error of the provider counts as a failed login.
Login_Outage(configured, body, provider) ==
  LET dto == LoginRequest(FieldsOf(body))
  IN  IF ~configured THEN Answer(503, "untouched")
      ELSE IF ~Parses(body, dto) \/ dto.username = <<>> \/ dto.password = <<>> THEN Answer(400, "untouched")
      ELSE IF ~Ok(provider) THEN Answer(401, "RecordFailure")
      ELSE IF At(FieldsOf(provider.body), "access_token", "string") = TypeError
      THEN Answer(502, "untouched")
      ELSE Answer(200, "RecordSuccess") @@ [shows |-> LoginResponse(FieldsOf(provider.body))]

Login(configured, body, provider) ==
  LET dto == LoginRequest(FieldsOf(body))
  IN  IF ~configured THEN Answer(503, "untouched")
      ELSE IF ~Parses(body, dto) \/ dto.username = <<>> \/ dto.password = <<>> THEN Answer(400, "untouched")
      ELSE IF ~Ok(provider) /\ provider.code \in 400..499 THEN Answer(401, "RecordFailure")
      ELSE IF ~Ok(provider) \/ At(FieldsOf(provider.body), "access_token", "string") = TypeError
      THEN Answer(502, "untouched")
      ELSE Answer(200, "RecordSuccess") @@ [shows |-> LoginResponse(FieldsOf(provider.body))]
=============================================================================
