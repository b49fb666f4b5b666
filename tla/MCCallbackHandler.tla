-------------------------- MODULE MCCallbackHandler --------------------------
(***************************************************************************)
(* Two guests on a channel that fills up and a runtime with one thread.    *)
(* Guest g1 may read v1/Pod, g2 nothing.                                  *)
(***************************************************************************)
EXTENDS CallbackHandler

CONSTANTS g1, g2

Call(b, n, o, w, r) ==
  [binding |-> b, namespace |-> n, operation |-> o, wellFormed |-> w, resource |-> r]

MCResources == {"v1/Pod", "v1/Service", "networking.k8s.io/v1/Ingress", "v1/Namespace"}
MCAllowed == [g \in Guests |-> IF g = g1 THEN {"v1/Pod"} ELSE {}]
MCCalls ==
  { Call("kubewarden", "tracing", "log", FALSE, "v1/Pod"),
    Call("kubewarden", "net", "v1/dns_lookup_host", TRUE, "v1/Pod"),
    Call("kubewarden", "kubernetes", "list_resources_all", TRUE, "v1/Pod"),
    Call("kubewarden", "kubernetes", "can_i", TRUE, "v1/Pod"),
    Call("kubewarden", "oci", "v1/verify", FALSE, "v1/Pod"),
    Call("kubewarden", "oci", "v2/verify", TRUE, "v1/Pod"),
    Call("kubernetes", "services", "", FALSE, "v1/Pod") }

\* wait_until_ready on a reflector has no timeout.
MCMayHang == {"KubernetesListResourceAll", "KubernetesListResourceNamespace"}
=============================================================================
