----------------------------- MODULE Extensions -----------------------------
(***************************************************************************)
(* The registry of VAC extensions, api/vac_extensions.py.  An integrator   *)
(* claims a namespace by registering an extension in it, and is then the   *)
(* only one that may submit credentials of that extension.  register looks *)
(* for another holder of the namespace and for the id, and inserts; the    *)
(* unique keys are the id and (namespace, version), not the namespace, so  *)
(* what the look promises holds for calls that do not overlap.  The two    *)
(* looks are one step here: what is committed between them is seen by the  *)
(* second, or refused by the unique id, and the call ends either way.      *)
(*                                                                         *)
(* Integrators are active ones.  No endpoint changes or removes a row, so  *)
(* that status is always 'active'.                                         *)
(***************************************************************************)
EXTENDS ApiRequests

CONSTANTS Integrators,    \* integrator_registry
          Prefixed,       \* integrator -> the namespaces that its id or domain is a prefix of
          Domainless,     \* integrators with no domain
          Reserved,       \* namespaces with a reserved prefix
          ExtensionIds,   \* extension_ids: [namespace, suffix]; suffix is <<n>>, or <<>> when
                          \* the id has no _v<N> or N is no number
          ExtensionCalls, \* calls of the two endpoints
          CredentialIds   \* ids of the credentials that are submitted

NoExtension == [none |-> "extension"]
NoTag == [none |-> "tag"]

VARIABLES registered,   \* vac_extension_registry: extension_id -> row
          tagged,       \* partner_attestations with an extension_id, by credential_id
          extending     \* the calls

xvars == <<registered, tagged, extending>>

ExtensionInit ==
  /\ registered = [x \in ExtensionIds |-> NoExtension]
  /\ tagged = [k \in CredentialIds |-> NoTag]
  /\ extending = [c \in ExtensionCalls |-> [at |-> "new"]]

\* The version in an extension_id.
VersionOf(x) == IF x.suffix = <<>> THEN 1 ELSE x.suffix[1]

\* The rows of a namespace.
InNamespace(n) == {x \in ExtensionIds : x.namespace = n /\ registered[x] # NoExtension}

-----------------------------------------------------------------------------
\* _validate_namespace.  The empty domain is a prefix of every namespace.
ValidateNamespace(i, n) == n \notin Reserved /\ (n \in Prefixed[i] \/ i \in Domainless)

\* Mutant: only the id is looked for.
RegisterLookById(c, i, x) ==
  /\ Ask("extension")
  /\ extending[c].at = "new"
  /\ ValidateNamespace(i, x.namespace)
  /\ registered[x] = NoExtension
  /\ extending' = [extending EXCEPT ![c] =
       [at |-> "insert", by |-> i, id |-> x, seen |-> InNamespace(x.namespace)]]
  /\ UNCHANGED <<registered, tagged>>

\* register_extension up to the INSERT; `seen` remembers the rows of the namespace.
RegisterLook(c, i, x) ==
  /\ Ask("extension")
  /\ extending[c].at = "new"
  /\ ValidateNamespace(i, x.namespace)
  /\ \A y \in InNamespace(x.namespace) : registered[y].by = i
  /\ registered[x] = NoExtension
  /\ extending' = [extending EXCEPT ![c] =
       [at |-> "insert", by |-> i, id |-> x, seen |-> InNamespace(x.namespace)]]
  /\ UNCHANGED <<registered, tagged>>

\* The INSERT; a row with the id, or with the namespace and version, is a 500.
RegisterExtension(c) ==
  /\ extending[c].at = "insert"
  /\ LET call  == extending[c]
         taken == \E y \in InNamespace(call.id.namespace) : VersionOf(y) = VersionOf(call.id)
     IN  /\ registered' = IF taken THEN registered
                          ELSE [registered EXCEPT ![call.id] = [by |-> call.by, seen |-> call.seen]]
         /\ extending' = [extending EXCEPT ![c].at = IF taken THEN "refused" ELSE "registered"]
  /\ UNCHANGED <<tagged, left>>

\* attest_extension up to the INSERT: the caller registered the extension.
AttestLook(c, i, x, k) ==
  /\ Ask("extension")
  /\ extending[c].at = "new"
  /\ registered[x] # NoExtension /\ registered[x].by = i
  /\ extending' = [extending EXCEPT ![c] = [at |-> "store", by |-> i, id |-> x, credential |-> k]]
  /\ UNCHANGED <<registered, tagged>>

\* ON CONFLICT (credential_id) DO NOTHING; the answer is 'stored' in both cases.
AttestExtension(c) ==
  /\ extending[c].at = "store"
  /\ LET call == extending[c]
     IN  tagged' = IF tagged[call.credential] # NoTag THEN tagged
                   ELSE [tagged EXCEPT ![call.credential] = [extension |-> call.id, by |-> call.by]]
  /\ extending' = [extending EXCEPT ![c].at = "stored"]
  /\ UNCHANGED <<registered, left>>

ExtensionNext ==
  \E c \in ExtensionCalls :
    \/ \E i \in Integrators, x \in ExtensionIds :
         RegisterLook(c, i, x) \/ \E k \in CredentialIds : AttestLook(c, i, x, k)
    \/ RegisterExtension(c) \/ AttestExtension(c)

-----------------------------------------------------------------------------
ExtensionTypeOK ==
  /\ \A x \in ExtensionIds : registered[x] # NoExtension =>
       registered[x].by \in Integrators /\ registered[x].seen \subseteq ExtensionIds
  /\ \A k \in CredentialIds : tagged[k] # NoTag =>
       tagged[k].extension \in ExtensionIds /\ tagged[k].by \in Integrators
  /\ \A c \in ExtensionCalls :
       extending[c].at \in {"new", "insert", "refused", "registered", "store", "stored"}

\* A namespace has two holders only when their registrations overlapped, neither
\* having seen the other's row; even then no version of it is held by both, and the
\* credentials of an extension are those of the one integrator that registered it.
NamespaceSharedOnlyByRace ==
  /\ \A x, y \in ExtensionIds :
       /\ x # y /\ x.namespace = y.namespace
       /\ registered[x] # NoExtension /\ registered[y] # NoExtension
       /\ registered[x].by # registered[y].by
       => /\ x \notin registered[y].seen /\ y \notin registered[x].seen
          /\ VersionOf(x) # VersionOf(y)
  /\ \A k \in CredentialIds : tagged[k] # NoTag =>
       LET holder == registered[tagged[k].extension]
       IN  holder # NoExtension /\ holder.by = tagged[k].by

=============================================================================
