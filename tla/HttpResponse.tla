----------------------------- MODULE HttpResponse -----------------------------
(***************************************************************************)
(* What a service answers and what the client methods make of it.  A       *)
(* response is a status, the "error" member of the body and the rest of    *)
(* the body.                                                               *)
(***************************************************************************)

Ok(body) == [status |-> 200, error |-> "none", body |-> body]
Error(status, code) == [status |-> status, error |-> code, body |-> <<>>]

\* HttpServer answers an exception that no handler maps with 500.
InternalError == Error(500, "internal server error")

\* A method that returns a value checks it against the request.  Any other
\* status makes a RemoteApiError, a failed check a RemoteProtocolError.
Expect(status, a, valid) ==
    IF a.status # status THEN "api_error" ELSE IF valid THEN "value" ELSE "protocol_error"

\* A method that returns an optional takes a 404 with its own code for absence.
Lookup(a, code, valid) ==
    IF a.status = 404 /\ a.error = code THEN "absent" ELSE Expect(200, a, valid)

=============================================================================
