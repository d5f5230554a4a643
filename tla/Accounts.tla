------------------------------ MODULE Accounts ------------------------------
(***************************************************************************)
(* The accounts: their sessions, the login throttle, their addresses,      *)
(* their administration, the Google accounts linked to them, and what they *)
(* may call.  A behaviour follows one topic; what the topics take from     *)
(* each other (an account locked, a password reset, a permission held) is  *)
(* in the module that needs it.                                            *)
(***************************************************************************)
EXTENDS Sessions, Throttle, Addresses, Staff, Bindings, Routes

VARIABLE topic

vars == <<topic, clients, request, sessionVars, throttleVars, addressVars, staffVars,
          bindingVars, routeVars>>

Topics == {"sessions", "throttle", "addresses", "staff", "bindings", "routes"}

Init ==
  /\ topic \in Topics
  /\ clients \in {{1}, {1, 2}}
  /\ request = [c \in clients |-> Rest]
  /\ SessionsInit /\ ThrottleInit /\ AddressesInit /\ StaffInit /\ BindingsInit /\ RoutesInit
  /\ topic # "routes" => caller.account = "none"
  /\ topic = "routes" => Alone

OnSessions ==
  /\ topic = "sessions" /\ SessionsNext
  /\ UNCHANGED <<topic, throttleVars, addressVars, staffVars, bindingVars, routeVars>>

OnThrottle(step) ==
  /\ topic = "throttle" /\ step /\ UNCHANGED clients
  /\ UNCHANGED <<topic, sessionVars, addressVars, staffVars, bindingVars, routeVars>>

OnAddresses ==
  /\ topic = "addresses" /\ AddressesNext
  /\ UNCHANGED <<topic, sessionVars, throttleVars, staffVars, bindingVars, routeVars>>

OnStaff ==
  /\ topic = "staff" /\ StaffNext
  /\ UNCHANGED <<topic, sessionVars, throttleVars, addressVars, bindingVars, routeVars>>

OnBindings ==
  /\ topic = "bindings" /\ BindingsNext
  /\ UNCHANGED <<topic, sessionVars, throttleVars, addressVars, staffVars, routeVars>>

OnRoutes ==
  /\ topic = "routes" /\ RoutesNext
  /\ UNCHANGED <<topic, clients, request, sessionVars, throttleVars, addressVars, staffVars,
                 bindingVars>>

Next ==
  OnSessions \/ OnThrottle(ThrottleNext) \/ OnAddresses \/ OnStaff \/ OnBindings \/ OnRoutes

\* Time passes, whatever the clients do.
Spec == Init /\ [][Next]_vars /\ WF_vars(OnThrottle(Pass))

=============================================================================
