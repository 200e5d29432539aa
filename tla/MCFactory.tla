------------------------------ MODULE MCFactory ------------------------------
(* An instance of WampFactory for TLC: two addresses of one interface, and the
   address that is left when a realm spells none.  The realm "r" is such a
   realm.                                                                  *)
EXTENDS WampFactory

MCRealmOf == [a \in Addresses |-> CASE a = "one" -> "local:I:one"
                                    [] a = "two" -> "local:I:two"
                                    [] a = "blank" -> "::"]
MCAddressOf == [r \in Realms |-> CASE r = "local:I:one" -> "one"
                                   [] r = "local:I:two" -> "two"
                                   [] OTHER -> "blank"]
MCInterfaceOf == [a \in Addresses |-> IF a = "blank" THEN "" ELSE "I"]
=============================================================================
