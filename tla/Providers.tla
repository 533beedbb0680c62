----------------------------- MODULE Providers -----------------------------
(***************************************************************************)
(* Where the credentials of one request come from: the request builder     *)
(* (request_builder.cpp), the loaders of the cloud backends                *)
(* (backends/*_credentials.cpp, aws_profile.cpp, hugging_face.cpp) and the *)
(* way each backend puts what was found on the request (s3.cpp, source.cpp,*)
(* gcs.cpp, azure.cpp).                                                    *)
(*                                                                         *)
(* A world is what the program finds when the request is prepared: the     *)
(* backend of the object, the options the configuration gives a value for, *)
(* whether the configuration was taken from the environment (discover),    *)
(* whether the application installed a callback, and the one file a loader *)
(* may read - its state, and the entries of the section it looks for.      *)
(* The AWS config and credentials files, which the code merges, are one.   *)
(*                                                                         *)
(* A loader asks its sources one by one.  A source answers "found" (the    *)
(* loader returns credentials), "fails" (it returns an error) or "next";   *)
(* a source that talks to a server or runs a command may answer either of  *)
(* two ways.  Signatures, JSON and URLs are left out: what matters is which*)
(* source ends up signing.                                                 *)
(***************************************************************************)
EXTENDS Naturals, Sequences

CONSTANTS
    Settings,   \* for each backend, the sets of options a configuration gives
    Files       \* for each backend, the file its loader meets

Clouds == {"s3", "source", "gcs", "azure"}
Backends == Clouds \cup {"hf", "http"}

(* What a file can be: absent, in a directory that cannot be inspected, not *)
(* readable, readable without the section asked for, or holding it.         *)
FileStates == {"missing", "denied", "unreadable", "other", "present"}

(* The entries of a file that its loader has a use for.                     *)
AwsEntries == {"sso", "role", "source_profile", "web_token", "process", "key_id",
               "secret"}
EntriesRead == [s3 |-> AwsEntries, source |-> AwsEntries, gcs |-> {"adc_type"},
                azure |-> {}, hf |-> {"token"}, http |-> {}]

ASSUME FilesAreFiles ==
    \A b \in Backends : \A f \in Files[b] :
        /\ f.state \in FileStates
        /\ f.entries \subseteq EntriesRead[b]
        /\ f.state # "present" => f.entries = {}

VARIABLES
    world,      \* what the program finds
    at,         \* "resolve", "callback", "load", "prepare" or "done"
    position,   \* the next source of the loader
    places,     \* kinds of places that were looked into
    loaded,     \* ResolvedCredentials: the source and the fields it gave
    request     \* PreparedRequest, or the error

providersVars == <<world, at, position, places, loaded, request>>

Set(options) == world.settings \cap options # {}
Has(option) == option \in world.settings

Nothing == [source |-> "none", fields |-> {}]
Pending == [state |-> "pending"]
Failed == [state |-> "failed"]

(* The sources of each loader, in the order its code tries them.            *)
Chain == [s3     |-> <<"keys", "profile", "web_identity", "profile_keys",
                       "container", "imds">>,
          source |-> <<"keys", "profile", "profile_keys">>,
          gcs    |-> <<"token", "hmac", "refresh", "adc", "private_key",
                       "metadata">>,
          azure  |-> <<"storage", "principal", "selector", "app_service",
                       "imds">>,
          hf     |-> <<"token", "token_file">>]

ProvidersInit ==
    /\ \E b \in Backends, d \in BOOLEAN, c \in BOOLEAN :
         \E s \in Settings[b], f \in Files[b] :
           world = [backend |-> b, settings |-> s, discover |-> d,
                    callback |-> c /\ b \in Clouds,
                    file |-> f.state, entries |-> f.entries]
    /\ at = "resolve"
    /\ position = 1
    /\ places = {}
    /\ loaded = Nothing
    /\ request = Pending

-----------------------------------------------------------------------------
(* Files.                                                                  *)

(* Two options that must come together.                                    *)
Pair(given, first, second) ==
    IF {first, second} \subseteq given THEN {"found"}
    ELSE IF {first, second} \cap given # {} THEN {"fails"}
    ELSE {"next"}

(* path_exists and read_text_file on a path: an error unless the file can  *)
(* be inspected and read; one that does not exist is the caller's affair.  *)
Unreadable == world.file \in {"denied", "unreadable"}

(* default_aws_path, default_gcloud_adc_path, hugging_face_token_path: the *)
(* place a file is looked for, named by an option or under the home        *)
(* directory, which only a configuration made from the environment knows.  *)
PathOptions == [s3     |-> {"file"}, source |-> {"file"},
                gcs    |-> {"adc_file", "cloudsdk"},
                hf     |-> {"token_path", "hf_home"}]

FilePlace ==
    IF Set(PathOptions[world.backend]) THEN {"named"}
    ELSE IF world.discover THEN {"home"} ELSE {}

Entries == IF FilePlace = {} THEN {} ELSE world.entries

(* read_aws_profile and the check of its result.                           *)
read_aws_profile ==
    IF FilePlace = {} THEN
        IF world.backend = "source" \/ Has("profile") THEN {"fails"} ELSE {"next"}
    ELSE IF Unreadable \/ (world.file = "missing" /\ Has("file")) THEN {"fails"}
    ELSE IF world.file # "present" /\ (world.backend = "source" \/ Has("profile"))
    THEN {"fails"}
    ELSE {"next"}

(* A role and a token of the options or of the profile.                    *)
Role == Has("role") \/ "role" \in Entries
WebToken == Has("web_token") \/ "web_token" \in Entries

\* Mutant: when the exchange fails the next source is tried.
aws_web_identity_or_next ==
    IF Role /\ WebToken THEN {"found", "next"}
    ELSE IF Role THEN {"fails"} ELSE {"next"}

aws_web_identity ==
    IF Role /\ WebToken THEN {"found", "fails"}
    ELSE IF Role THEN {"fails"} ELSE {"next"}

(* credentials_from_aws_profile, and what each loader makes of a profile    *)
(* that holds no key.                                                      *)
credentials_from_aws_profile ==
    IF Entries \cap {"sso", "role", "source_profile", "web_token"} # {} THEN {"fails"}
    ELSE IF "process" \in Entries THEN {"found", "fails"}
    ELSE IF Pair(Entries, "key_id", "secret") = {"next"} /\ world.backend = "source"
    THEN {"fails"}
    ELSE Pair(Entries, "key_id", "secret")

container ==
    IF Has("container_unsafe") THEN {"fails"}
    ELSE IF Has("container") THEN {"found", "fails"} ELSE {"next"}

\* Mutant: it is asked whatever the configuration was made from.
AsksMetadataAlways == ~Has("metadata_off")

(* A metadata service is asked when discovery is on or an option opts in.  *)
AsksMetadata ==
    /\ ~Has("metadata_off")
    /\ \/ world.discover
       \/ Has("endpoint")
       \/ Has("metadata_on")

metadata ==
    IF ~AsksMetadata THEN {"next"}
    ELSE IF Has("endpoint") THEN {"found", "fails"} ELSE {"found", "next"}

aws_imds == IF Has("bad_timeout") THEN {"fails"} ELSE metadata

-----------------------------------------------------------------------------
(* Google Cloud Storage.                                                   *)

token == IF Has("token") THEN {"found"} ELSE {"next"}

gcs_refresh ==
    IF ~Has("refresh") THEN {"next"}
    ELSE IF {"client_id", "client_secret"} \subseteq world.settings
    THEN {"found", "fails"} ELSE {"fails"}

gcs_adc ==
    IF FilePlace = {} \/ (world.file = "missing" /\ ~Has("adc_file")) THEN {"next"}
    ELSE IF "adc_type" \in world.entries THEN {"found", "fails"} ELSE {"fails"}

gcs_private_key ==
    IF ~Set({"private_key", "private_key_file", "email"}) THEN {"next"}
    ELSE IF {"private_key", "private_key_file"} \subseteq world.settings THEN {"fails"}
    ELSE IF Has("email") /\ Set({"private_key", "private_key_file"})
    THEN {"found", "fails"} ELSE {"fails"}

-----------------------------------------------------------------------------
(* Azure.  The storage options are put on the request by prepare_azure;    *)
(* the loader only sees whether there are any.  A connection string names  *)
(* an account, and with it a key, a shared access signature or neither.    *)

Connections == {"connection_key", "connection_sas", "connection_bare"}
Storage == Connections \cup {"sas", "bearer", "key"}

azure_storage == IF Set(Storage) THEN {"found"} ELSE {"next"}

azure_principal ==
    IF {"tenant", "client"} \subseteq world.settings /\ Set({"secret", "federated"})
    THEN {"found", "fails"} ELSE {"next"}

(* Two ways to select a managed identity; a client ID counts for both the   *)
(* application and the identity.                                           *)
azure_selector ==
    LET chosen == <<Has("object_id"), Set({"imds_client", "client"}), Has("res_id")>>
    IN  IF \E i, j \in 1..3 : i # j /\ chosen[i] /\ chosen[j]
        THEN {"fails"} ELSE {"next"}

azure_app_service == IF Has("identity") THEN {"found", "fails"} ELSE {"next"}

(* A missing or empty token file is anonymous access, an unreadable one an *)
(* error.                                                                  *)
hf_token_file ==
    IF FilePlace = {} \/ world.file = "missing" THEN {"next"}
    ELSE IF Unreadable THEN {"fails"}
    ELSE IF "token" \in world.entries THEN {"found"} ELSE {"next"}

-----------------------------------------------------------------------------
(* The loaders as tables.                                                  *)

Says(source) ==
    CASE source = "keys"         -> Pair(world.settings, "key_id", "secret")
      [] source = "hmac"         -> Pair(world.settings, "key_id", "secret")
      [] source = "profile"      -> read_aws_profile
      [] source = "web_identity" -> aws_web_identity
      [] source = "profile_keys" -> credentials_from_aws_profile
      [] source = "container"    -> container
      [] source = "imds"         -> IF world.backend = "s3" THEN aws_imds ELSE metadata
      [] source = "metadata"     -> metadata
      [] source = "token"        -> token
      [] source = "refresh"      -> gcs_refresh
      [] source = "adc"          -> gcs_adc
      [] source = "private_key"  -> gcs_private_key
      [] source = "storage"      -> azure_storage
      [] source = "principal"    -> azure_principal
      [] source = "selector"     -> azure_selector
      [] source = "app_service"  -> azure_app_service
      [] source = "token_file"   -> hf_token_file

(* The places a source looks into: the home directory, the address every    *)
(* machine of a cloud answers on, or one the configuration names.          *)
Looks(source) ==
    CASE source \in {"profile", "adc", "token_file"} -> FilePlace
      [] source \in {"imds", "metadata"} ->
             IF ~AsksMetadata \/ (world.backend = "s3" /\ Has("bad_timeout")) THEN {}
             ELSE IF Has("endpoint") THEN {"named"} ELSE {"well_known"}
      [] OTHER -> IF Says(source) = {"next"} THEN {} ELSE {"named"}

(* The fields of the credentials a source gives.                           *)
Fields(source) ==
    IF source = "storage" THEN world.settings \cap {"sas", "bearer", "key"}
    ELSE IF source \in {"keys", "web_identity", "profile_keys", "container", "hmac"}
            \/ (source = "imds" /\ world.backend = "s3")
    THEN {"key"}
    ELSE {"bearer"}

-----------------------------------------------------------------------------
(* The request builder.                                                    *)

(* A Source object is read anonymously unless something asks otherwise.    *)
SourceOptions == {"key_id", "secret", "profile", "file"}

credentials_configured == world.callback \/ Set(SourceOptions)

no_sign ==
    IF Set({"no_sign_yes", "no_sign_no"}) THEN Has("no_sign_yes")
    ELSE world.backend = "source" /\ ~credentials_configured

resolve_credentials ==
    /\ at = "resolve"
    /\ at' = IF world.backend = "http" THEN "prepare"
             ELSE IF world.backend = "hf"
             THEN IF Has("bad_endpoint") THEN "prepare" ELSE "load"
             ELSE IF no_sign THEN "prepare"
             ELSE IF world.callback THEN "callback" ELSE "load"
    /\ UNCHANGED <<world, position, places, loaded, request>>

(* copy_callback_credentials: the callback fails or fills in any fields.    *)
Callback ==
    /\ at = "callback"
    /\ \/ at' = "done" /\ request' = Failed /\ UNCHANGED loaded
       \/ /\ \E fields \in SUBSET {"sas", "bearer", "key", "account"} :
                loaded' = [source |-> "callback", fields |-> fields]
          /\ at' = "prepare"
          /\ UNCHANGED request
    /\ UNCHANGED <<world, position, places>>

(* One source of load_aws_credentials, load_source_credentials,            *)
(* load_gcs_credentials, load_azure_credentials or hugging_face_token.     *)
Load ==
    /\ at = "load"
    /\ position <= Len(Chain[world.backend])
    /\ LET source == Chain[world.backend][position]
       IN  /\ places' = places \cup Looks(source)
           /\ \/ /\ "next" \in Says(source)
                 /\ position' = position + 1
                 /\ UNCHANGED <<at, loaded, request>>
              \/ /\ "found" \in Says(source)
                 /\ loaded' = [source |-> source, fields |-> Fields(source)]
                 /\ at' = "prepare"
                 /\ UNCHANGED <<position, request>>
              \/ /\ "fails" \in Says(source)
                 /\ at' = "done"
                 /\ request' = Failed
                 /\ UNCHANGED <<position, loaded>>
    /\ UNCHANGED world

(* No source had anything: empty credentials go to prepare_request.         *)
Exhausted ==
    /\ at = "load"
    /\ position > Len(Chain[world.backend])
    /\ at' = "prepare"
    /\ UNCHANGED <<world, position, places, loaded, request>>

-----------------------------------------------------------------------------
(* The backends.  A signature takes the first of the fields a backend can  *)
(* use; Azure fills empty fields from the storage options first.           *)

(* The fields and the account of prepare_azure.                             *)
Stored == (world.settings \cap {"sas", "bearer", "key"})
              \cup (IF Has("connection_key") THEN {"key"} ELSE {})
              \cup (IF Has("connection_sas") THEN {"sas"} ELSE {})
Account == Set({"account"} \cup Connections)
              \/ "account" \in loaded.fields

Usable ==
    CASE world.backend = "azure" ->
            LET fields == (loaded.fields \ {"account"}) \cup Stored
            IN  IF Account THEN fields ELSE fields \ {"key"}
      [] world.backend = "gcs" -> loaded.fields \cap {"bearer", "key"}
      [] world.backend = "hf" -> loaded.fields
      [] world.backend = "http" -> {}
      [] OTHER -> loaded.fields \cap {"key"}

Preference == <<"sas", "bearer", "key">>

Chosen == LET first == CHOOSE i \in 1..3 :
                          /\ Preference[i] \in Usable
                          /\ \A j \in 1..(i - 1) : Preference[j] \notin Usable
          IN  Preference[first]

(* Whose field it is.                                                      *)
Owner == IF Chosen \in loaded.fields THEN loaded.source ELSE "storage"

(* The endpoint cannot be formed: its option is malformed, or Azure has     *)
(* neither an account nor an endpoint.                                     *)
NoEndpoint == \/ Has("bad_endpoint")
              \/ world.backend = "azure" /\ ~Account /\ ~Has("service_root")

Anonymous == world.backend = "http" \/ (world.backend \in Clouds /\ no_sign)
                 \/ (world.backend = "hf" /\ loaded = Nothing)

(* prepare_request, add_configured_headers and apply_http_options.  A key   *)
(* that is no base64, or one the digest rejects, fails when it is used.     *)
materialize_range ==
    /\ at = "prepare"
    /\ at' = "done"
    /\ \/ Usable # {} /\ Chosen = "key" /\ ~Anonymous /\ request' = Failed
       \/ request' =
         IF NoEndpoint \/ Has("managed_header") THEN Failed
         ELSE IF Anonymous
         THEN [state |-> "sent", by |-> "nobody", with |-> "nothing",
               follow_redirects |-> TRUE, same_origin |-> Has("header")]
         ELSE IF Usable = {} THEN Failed
         ELSE [state |-> "sent", by |-> Owner, with |-> Chosen,
               follow_redirects |-> world.backend = "hf",
               same_origin |-> Has("header")]
    /\ UNCHANGED <<world, position, places, loaded>>

ProvidersNext == resolve_credentials \/ Callback \/ Load \/ Exhausted \/ materialize_range

ProvidersSpec == ProvidersInit /\ [][ProvidersNext]_providersVars

-----------------------------------------------------------------------------
(* Properties.                                                             *)

Sent == request.state = "sent"

(* What the configuration, or a file it leads to, says of a source: enough *)
(* to expect that source to be used or to be told that it cannot be.       *)
Mentions(source) ==
    CASE source \in {"keys", "hmac"} -> Set({"key_id", "secret"})
      [] source = "profile" -> Has("profile") /\ world.file # "present"
      [] source = "web_identity" -> Role
      [] source = "profile_keys" -> Entries # {}
      [] source = "container" -> Set({"container", "container_unsafe"})
      [] source = "token" -> Has("token")
      [] source = "refresh" -> Has("refresh")
      [] source = "adc" -> Has("adc_file") \/ Entries # {}
      [] source = "private_key" -> Set({"private_key", "private_key_file", "email"})
      [] source = "storage" -> Set(Storage)
      [] source = "principal" -> {"tenant", "client"} \subseteq world.settings
                                     /\ Set({"secret", "federated"})
      [] source = "app_service" -> Has("identity")
      [] source = "token_file" -> world.file = "present" /\ Set({"token_path", "hf_home"})
      [] OTHER -> FALSE

(* A signed request is signed by the callback when there is one, and       *)
(* otherwise by a source no later than any the configuration mentions: a   *)
(* source that was asked for and cannot answer ends the request, it never  *)
(* gives way to the next one.  Azure lets storage options complete what a   *)
(* callback returned (the loaders' order, s3_credentials.cpp:91,            *)
(* gcs_credentials.cpp:245, azure_credentials.cpp:19).                      *)
EarlierSourceWins ==
    Sent /\ request.by # "nobody" =>
       IF world.backend \in Clouds /\ world.callback
       THEN request.by = "callback" \/ (world.backend = "azure" /\ request.by = "storage")
       ELSE LET chain == Chain[world.backend]
            IN  \E i \in 1..Len(chain) :
                   /\ chain[i] = request.by
                   /\ \A j \in 1..(i - 1) : ~Mentions(chain[j])

(* A cloud request goes out without a signature only if that was asked for, *)
(* by the no-sign option or, for Source, by giving no credentials at all,   *)
(* and then nothing was consulted.                                         *)
UnsignedOnPurpose ==
    (Sent /\ world.backend \in Clouds /\ request.by = "nobody") =>
       /\ places = {}
       /\ \/ Has("no_sign_yes")
          \/ /\ world.backend = "source"
             /\ ~world.callback
             /\ ~Set(SourceOptions \cup {"no_sign_no"})

(* What a request carries goes to one place: signed for a cloud, it follows *)
(* no redirect; with configured headers, none that leaves the origin        *)
(* (CONFIGURATION.md:208-213).                                              *)
StaysAtHome ==
    Sent =>
       /\ (world.backend \in Clouds /\ request.by # "nobody") =>
             ~request.follow_redirects
       /\ (request.follow_redirects /\ Has("header")) => request.same_origin

(* A configuration made without the environment looks under no home         *)
(* directory and asks no metadata service unless an option opts back in     *)
(* (CONFIGURATION.md:8-11), whichever sources came before.                  *)
HermeticIsClosed ==
    ~world.discover =>
       /\ "home" \notin places
       /\ "well_known" \in places => Has("metadata_on")

(* Nothing happens that the configuration did not ask for: no unsigned      *)
(* request by accident, no credentials carried elsewhere, no discovery in a *)
(* hermetic client (request_builder.cpp:52, s3_credentials.cpp:199).        *)
OnlyAsAsked == UnsignedOnPurpose /\ StaysAtHome /\ HermeticIsClosed
=============================================================================
