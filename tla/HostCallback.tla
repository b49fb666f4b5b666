---------------------------- MODULE HostCallback ----------------------------
(***************************************************************************)
(* The host function a Wasm guest calls (runtimes/callback.rs): what it    *)
(* does with a call before any channel is involved.  A call is a record    *)
(*                                                                         *)
(*   [binding, namespace, operation : the three strings of a waPC call,    *)
(*    wellFormed : whether serde can parse the payload as the type that    *)
(*                 the operation expects,                                  *)
(*    resource   : the Kubernetes apiVersion/kind named in the payload]    *)
(*                                                                         *)
(* The call is logged, routed to the callback handler as a request of some *)
(* CallbackRequestType, or refused with an error.                          *)
(***************************************************************************)

\* Operations of the "kubewarden" binding that become a callback request:
\* <<namespace, operation, type of the request>>.  The five Sigstore requests
\* are chosen by the payload and handled alike, so they share one type here.
Routes ==
  { <<"oci", "v1/verify", "SigstoreVerify">>,
    <<"oci", "v2/verify", "SigstoreVerify">>,
    <<"oci", "v1/manifest_digest", "OciManifestDigest">>,
    <<"oci", "v1/oci_manifest", "OciManifest">>,
    <<"oci", "v1/oci_manifest_config", "OciManifestAndConfig">>,
    <<"net", "v1/dns_lookup_host", "DNSLookupHost">>,
    <<"crypto", "v1/is_certificate_trusted", "CryptoIsCertificateTrusted">>,
    <<"kubernetes", "list_resources_by_namespace", "KubernetesListResourceNamespace">>,
    <<"kubernetes", "list_resources_all", "KubernetesListResourceAll">>,
    <<"kubernetes", "get_resource", "KubernetesGetResource">>,
    <<"kubernetes", "can_i", "KubernetesCanI">> }

\* The deprecated ClusterContext: the "kubernetes" binding takes the resource
\* from the namespace of the call and reads no payload and no operation.
ClusterContext ==
  { <<"ingresses", "networking.k8s.io/v1/Ingress">>,
    <<"namespaces", "v1/Namespace">>,
    <<"services", "v1/Service">> }

\* Requests only the Rego runtimes make, to build and to check an inventory.
RegoRequestTypes ==
  { "KubernetesListResourceAll", "KubernetesGetResourcePluralName",
    "HasKubernetesListResourceAllResultChangedSinceInstant" }

RequestTypes == { r[3] : r \in Routes } \cup RegoRequestTypes

\* Requests that need a Kubernetes client.
KubernetesTypes ==
  RegoRequestTypes \cup
    { "KubernetesListResourceNamespace", "KubernetesGetResource", "KubernetesCanI" }

\* Requests whose evaluation panics on some arguments: a url prefix that does not
\* parse, in one of the five Sigstore verifications.
PanickingTypes == {"SigstoreVerify"}

\* Operations whose handler first looks the resource up in the allow list.
GrantNeeded ==
  { "KubernetesListResourceNamespace", "KubernetesListResourceAll",
    "KubernetesGetResource" }

\* Answered on the spot; a payload that is not a log event is not an error.
IsLog(c) ==
  c.binding = "kubewarden" /\ c.namespace = "tracing" /\ c.operation = "log"

Route(c) == { r \in Routes : r[1] = c.namespace /\ r[2] = c.operation }

\* The requests call c puts on the channel for a policy that may read the
\* resources in allowed: one, or none when the call is refused.
RequestsOf(c, allowed) ==
  { [type |-> r[3], resource |-> c.resource] :
      r \in { r \in Route(c) : /\ c.binding = "kubewarden"
                               /\ c.wellFormed
                               /\ r[3] \in GrantNeeded => c.resource \in allowed } }
  \cup
  { [type |-> "KubernetesListResourceAll", resource |-> r[2]] :
      r \in { r \in ClusterContext : c.binding = "kubernetes" /\ r[1] = c.namespace } }

=============================================================================
