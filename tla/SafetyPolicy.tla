----------------------------- MODULE SafetyPolicy -----------------------------
(***************************************************************************)
(* What a session policy permits: src/tools/safety.ts.  A policy is         *)
(* compiled once, when the tools are created; compiledBrowserDomainAllowed  *)
(* then decides about the destinations of navigations, for the guard of     *)
(* NavigationGuard, and enforceBrowserSafety about every call.              *)
(*                                                                         *)
(* An address is what new URL makes of a string.  A host is the sequence    *)
(* of its labels, in lower case; a final dot is a last label that is empty. *)
(* A port is 0 when the address names none.                                 *)
(***************************************************************************)
EXTENDS Naturals, Sequences, FiniteSets

CONSTANT Labels   \* the labels of host names; "" is one of them

ASSUME EmptyLabel == "" \in Labels

Schemes == {"http", "https", "other"}
Hosts == Seq(Labels)
Addresses == [scheme : Schemes, host : Hosts, port : Nat]

Patterns == [protocol : {"http", "https"}, hostname : Hosts, port : Nat, wildcard : BOOLEAN]
DomainPolicies == [allow : SUBSET Patterns, deny : SUBSET Patterns]

DefaultPort(scheme) == IF scheme = "https" THEN 443 ELSE 80
EffectivePort(url) == IF url.port # 0 THEN url.port ELSE DefaultPort(url.scheme)

Stripped(host) ==
  IF host # <<>> /\ host[Len(host)] = "" THEN SubSeq(host, 1, Len(host) - 1) ELSE host

(* Faulty: the host name itself counts as one that ends with it.            *)
EndsWithOrIs(host, suffix) ==
  /\ Len(suffix) <= Len(host)
  /\ SubSeq(host, Len(host) - Len(suffix) + 1, Len(host)) = suffix

(* hostname.endsWith("." + suffix): a label has no dot in it, so the dot is *)
(* the boundary in front of the suffix, and some label stands before it.    *)
EndsWith(host, suffix) ==
  /\ Len(suffix) < Len(host)
  /\ SubSeq(host, Len(host) - Len(suffix) + 1, Len(host)) = suffix

PatternMatches(pattern, url) ==
  /\ url.scheme = pattern.protocol
  /\ EffectivePort(url) = pattern.port
  /\ IF pattern.wildcard THEN EndsWith(Stripped(url.host), pattern.hostname)
     ELSE Stripped(url.host) = pattern.hostname

DomainAllowed(policy, url) ==
  /\ url.scheme \in {"http", "https"}
  /\ ~ \E pattern \in policy.deny : PatternMatches(pattern, url)
  /\ policy.allow # {} => \E pattern \in policy.allow : PatternMatches(pattern, url)

-----------------------------------------------------------------------------
(* Compilation of a rule.  "stray" is a star elsewhere than as the leftmost *)
(* label, "extra" a path, credentials, a query or a fragment.  A stray star *)
(* is only looked for in a rule that does not begin with "*.": after one,   *)
(* new URL takes it for a label like any other, which no real host has.     *)
(* The rules of a list are compiled one by one and the first that is        *)
(* invalid throws.                                                          *)
Rules == [wildcard : BOOLEAN, url : Addresses, stray : BOOLEAN, extra : BOOLEAN]

Valid(rule) ==
  /\ rule.stray => rule.wildcard
  /\ ~rule.extra
  /\ rule.url.scheme \in {"http", "https"}
  /\ Stripped(rule.url.host) # <<>>

Compiled(rule) ==
  [protocol |-> rule.url.scheme, hostname |-> Stripped(rule.url.host),
   port |-> EffectivePort(rule.url), wildcard |-> rule.wildcard]

-----------------------------------------------------------------------------
(* enforceBrowserSafety.  Of a call it looks at the class of its tool       *)
(* ("none" for a tool without one) and, for browser_goto, at the requested  *)
(* destination, which may be no address at all.                             *)
Categories == {"navigation", "pointer", "keyboard", "form", "file-upload", "page-lifecycle"}
Classes == Categories \cup {"read", "batch", "none"}
Decisions == {"allow", "deny", "ask"}
NoAddress == [scheme |-> "other", host |-> <<>>, port |-> 0]

GateCalls == [class : Classes, goto : BOOLEAN, requested : Addresses]
SessionPolicies ==
  [mode : {"read-write", "read-only"}, actions : [Categories -> Decisions \cup {"unset"}],
   ruled : BOOLEAN, domains : DomainPolicies, approver : BOOLEAN]

(* What the host's callback does; without a callback there is no decision.  *)
Answers == {"approved", "declined", "malformed", "threw"}

Decision(policy, category) ==
  IF policy.actions[category] # "unset" THEN policy.actions[category]
  ELSE IF category # "navigation" /\ policy.approver THEN "ask" ELSE "allow"

Misdirected(policy, call) ==
  call.goto /\ policy.ruled /\ ~DomainAllowed(policy.domains, call.requested)

Interacts(call) == call.class \notin {"navigation", "read", "batch", "none"}

Gate(policy, call, answer) ==
  CASE call.class = "none" -> "policy_denied"
    [] call.class \in {"read", "batch"} -> "allowed"
    [] call.class \in Categories /\ Misdirected(policy, call) -> "domain_denied"
    [] OTHER ->
         IF policy.mode = "read-only" /\ Interacts(call) THEN "read_only"
         ELSE CASE Decision(policy, call.class) = "allow" -> "allowed"
                [] Decision(policy, call.class) = "deny" -> "policy_denied"
                [] Decision(policy, call.class) = "ask" ->
                     IF policy.approver /\ answer = "approved" THEN "approved"
                     ELSE "approval_denied"

Passes(policy, call, answer) == Gate(policy, call, answer) \in {"allowed", "approved"}
=============================================================================
