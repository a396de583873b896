---------------------------- MODULE Environment -----------------------------
(***************************************************************************)
(* packages/config: what the API, the worker and the AI service make of    *)
(* one environment file, and what they do with the values they accept.  A  *)
(* value is "absent", "blank" (the variable is there and empty) or "set";  *)
(* a secret is "short" (below 32 characters) or "long"; a flag is any word *)
(* booleanFromEnv may meet, "garbled" standing for those it does not know. *)
(***************************************************************************)
Processes == {"api", "worker", "ai"}
Given   == {"absent", "blank", "set"}
Secrets == {"absent", "blank", "short", "long"}
Words   == {"absent", "yes", "no", "garbled"}

EnvFile ==
  [NODE_ENV : {"development", "test", "staging", "production"}, PORT : {"fixed", "zero", "junk"},
   CORS_ORIGIN : {"list", "*"}, DATABASE_URL : Given, REDIS_URL : Given,
   SESSION_SECRET : Secrets, SERVICE_JWT_SECRET : Secrets, COOKIE_SECURE : Words,
   PAYMENTS_ENABLED : Words, PAYMENT_PROVIDER : {"escrow", "mpesa"},
   ESCROW : Given \cup {"partial"}, ESCROW_ALLOW_TEST_DOUBLE : Words,
   MPESA_ENABLED : Words, MPESA : Given,
   MEDIA_DRIVER : {"local", "s3"}, S3 : Given \cup {"partial", "aliases"},
   AI_SERVICE_BASE_URL : Given, API_BASE_URL : Given,
   AI_PROVIDER : {"absent", "deterministic", "openai"}, AI_KEY : Given]

\* normalizeDeploymentEnv: the credentials of the store may have their AWS names.
Normalized(file) == [file EXCEPT !.S3 = IF @ = "aliases" THEN "set" ELSE @]
Protected(file) == file.NODE_ENV \in {"staging", "production"}

\* The optional strings of each schema: they may be absent, and are refused when blank.
Optional ==
  [api    |-> {"DATABASE_URL", "REDIS_URL", "SESSION_SECRET", "SERVICE_JWT_SECRET", "ESCROW",
               "MPESA", "S3", "AI_SERVICE_BASE_URL"},
   worker |-> {"DATABASE_URL", "SERVICE_JWT_SECRET", "ESCROW", "MPESA", "AI_SERVICE_BASE_URL"},
   ai     |-> {"REDIS_URL", "SERVICE_JWT_SECRET", "API_BASE_URL", "AI_KEY"}]
Parses(s, file) == file.PORT # "junk" /\ \A key \in Optional[s] : file[key] # "blank"
ProductionGuards(file) == file.NODE_ENV = "production" => file.PORT # "zero"

PaymentGuards_AnyKey(file) ==                     \* mutant: some of the keys will do
  IF file.PAYMENT_PROVIDER = "escrow"
  THEN file.ESCROW \in {"partial", "set"} /\ file.ESCROW_ALLOW_TEST_DOUBLE # "yes"
  ELSE file.MPESA_ENABLED = "yes" => file.MPESA = "set"
PaymentGuards(file) ==
  IF file.PAYMENT_PROVIDER = "escrow"
  THEN file.ESCROW = "set" /\ file.ESCROW_ALLOW_TEST_DOUBLE # "yes"
  ELSE file.MPESA_ENABLED = "yes" => file.MPESA = "set"
ApiGuards(file) ==
  Protected(file) =>
    /\ file.DATABASE_URL = "set"
    /\ file.SESSION_SECRET = "long" /\ file.SERVICE_JWT_SECRET = "long"
    /\ file.COOKIE_SECURE = "yes"
    /\ file.PAYMENTS_ENABLED = "yes" => PaymentGuards(file)
    /\ file.MEDIA_DRIVER = "s3" => file.S3 = "set"
AiGuards(file) ==
  Protected(file) => file.SERVICE_JWT_SECRET = "long" /\ file.API_BASE_URL = "set"
SafeCors(file) == file.NODE_ENV = "production" => file.CORS_ORIGIN # "*"

\* loadEnv, with assertSafeCorsOrigin in the API.
Accepts(s, raw) ==
  LET file == Normalized(raw) IN
  /\ Parses(s, file) /\ ProductionGuards(file)
  /\ s = "api" => ApiGuards(file) /\ SafeCors(file)
  /\ s = "ai" => AiGuards(file)

\* What the transforms put in place of a value that is not there; the three services have the
\* same defaults.
OrDefault(secret, file) ==
  IF secret # "absent" THEN secret ELSE IF file.NODE_ENV = "test" THEN "test" ELSE "dev"
ServiceSecret(file) == OrDefault(file.SERVICE_JWT_SECRET, file)
SessionSecret(file) == OrDefault(file.SESSION_SECRET, file)
SecureCookies(file) ==
  IF file.COOKIE_SECURE \in {"yes", "no"} THEN file.COOKIE_SECURE = "yes" ELSE Protected(file)

\* What becomes of a payment in the worker: it goes to the provider or to the test double, its
\* attempt is marked FAILED, or (M-Pesa, when it is enabled) nothing.
Charge(file) ==
  IF file.PAYMENT_PROVIDER = "escrow"
  THEN IF file.ESCROW = "set" THEN "live"
       ELSE IF file.ESCROW_ALLOW_TEST_DOUBLE = "yes" THEN "double" ELSE "refused"
  ELSE IF file.MPESA_ENABLED = "yes" THEN "nothing" ELSE "refused"

\* The model behind the embeddings: of documents in the worker, of everything else in the AI service.
Embedder(s, file) ==
  IF \/ file.AI_PROVIDER # "openai" \/ file.NODE_ENV = "test"
     \/ s = "worker" /\ file.AI_SERVICE_BASE_URL = "absent"
  THEN "deterministic" ELSE file.AI_PROVIDER
=============================================================================
