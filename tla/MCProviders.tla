---------------------------- MODULE MCProviders ----------------------------
(* Every combination of at most AtMost options of each backend, and of one  *)
(* less together with those that all backends have, with every state of the *)
(* file its loader may read.                                                *)
EXTENDS Providers, Functions

CONSTANT AtMost

Common == {"no_sign_yes", "no_sign_no", "bad_endpoint", "header", "managed_header"}

OptionsOf ==
    [s3     |-> {"key_id", "secret", "profile", "file", "role", "web_token",
                 "container", "container_unsafe", "bad_timeout", "metadata_on",
                 "metadata_off"},
     source |-> {"key_id", "secret", "profile", "file"},
     gcs    |-> {"token", "key_id", "secret", "refresh", "client_id",
                 "client_secret", "adc_file", "cloudsdk", "private_key",
                 "private_key_file", "email", "endpoint", "metadata_on",
                 "metadata_off"},
     azure  |-> Storage \cup {"account", "service_root", "tenant", "client",
                 "secret", "federated", "object_id", "imds_client", "res_id",
                 "identity", "endpoint"},
     hf     |-> {"token", "token_path", "hf_home"},
     http   |-> {}]

EntriesOf ==
    [s3     |-> {"sso", "role", "web_token", "process", "key_id", "secret"},
     source |-> {"sso", "source_profile", "process", "key_id", "secret"},
     gcs    |-> {"adc_type"}, azure |-> {}, hf |-> {"token"}, http |-> {}]

(* The subsets of S with at most n elements.                               *)
UpTo(n, S) == {{}} \cup {Range(pick) : pick \in [1..n -> S]}

(* Two values of one switch exclude each other.                            *)
Consistent(settings) ==
    /\ ~({"no_sign_yes", "no_sign_no"} \subseteq settings)
    /\ ~({"metadata_on", "metadata_off"} \subseteq settings)
    /\ \A c, d \in settings \cap Connections : c = d
    /\ ~({"container", "container_unsafe"} \subseteq settings)

(* The file an object's loader can meet; Azure's and HTTP's read none.      *)
MCFiles ==
    [b \in Backends |->
        IF b \in {"azure", "http"}
        THEN {[state |-> "missing", entries |-> {}]}
        ELSE {[state |-> f, entries |-> {}] : f \in FileStates \ {"present"}}
                 \cup {[state |-> "present", entries |-> e] :
                          e \in UpTo(2, EntriesOf[b])}]

MCSettings ==
    [b \in Backends |->
        {s \in UpTo(AtMost, OptionsOf[b]) \cup UpTo(AtMost - 1, OptionsOf[b] \cup Common) :
            Consistent(s)}]
=============================================================================
