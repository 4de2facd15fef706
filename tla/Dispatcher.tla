----------------------------- MODULE Dispatcher -----------------------------
(***************************************************************************)
(* rpc::detail::Dispatcher and rpc::detail::Response as functions          *)
(* (src/src/dispatcher.cpp, src/src/detail/response.cpp): what dispatching *)
(* one message returns, given whether its function is bound and how the    *)
(* bound function ends.                                                    *)
(*                                                                         *)
(* Error and result objects are abstracted to where they come from.        *)
(***************************************************************************)
EXTENDS Naturals

(* A message by the size of its msgpack array: four, three, any other. *)
Kinds == {"call", "notification", "other"}

(* How a bound function ends: with a value, refused by enforce_arg_count(),
   with a std::exception, with an exception of another type, or through
   this_handler().respond_error() or this_handler().respond(). *)
Endings == {"value", "client_error", "std_exception", "other_exception",
            "respond_error", "respond"}

Errors  == {"none", "client_error", "threw", "not_found", "handler"}
Results == {"none", "value", "special"}

(* The error_ and result_ of a response to message id. *)
Response(id, err, res) == [empty |-> FALSE, id |-> id, err |-> err, res |-> res]

make_result(id, res)   == Response(id, "none", res)

(* Fault for a mutation run: id_ keeps the value of the default constructor. *)
make_error_without_id(id, err) == Response(0, err, "none")

make_error(id, err)    == Response(id, err, "none")
empty_response(id)     == [Response(id, "none", "none") EXCEPT !.empty = TRUE]

(* The exception leaves dispatch(). *)
Thrown(id) == Response(id, "thrown", "none")

capture_error(r)  == [r EXCEPT !.err = "handler"]
capture_result(r) == [r EXCEPT !.res = "special"]

(* The two exceptions of this_handler() are caught and fall through to the
   error for an unknown function. *)
dispatch_call(id, bound, ending, suppress) ==
  CASE ~bound                         -> make_error(id, "not_found")
    [] bound /\ ending = "value"        -> make_result(id, "value")
    [] bound /\ ending = "client_error" -> make_error(id, "client_error")
    [] bound /\ ending \in {"std_exception", "other_exception"} ->
         IF suppress THEN make_error(id, "threw") ELSE Thrown(id)
    [] bound /\ ending \in {"respond_error", "respond"} ->
         make_error(id, "not_found")

(* Nothing is sent for a notification, but an exception of any other type
   is rethrown, a wrong number of arguments included. *)
dispatch_notification(id, bound, ending, suppress) ==
  IF bound /\ ~suppress
       /\ ending \in {"client_error", "std_exception", "other_exception"}
  THEN Thrown(id)
  ELSE empty_response(id)

dispatch(kind, id, bound, ending, suppress) ==
  CASE kind = "call"         -> dispatch_call(id, bound, ending, suppress)
    [] kind = "notification" -> dispatch_notification(id, bound, ending, suppress)
    [] kind = "other"        -> empty_response(id)

(* The order in which the session's task decides what to send: an error set
   in the handler, then a special response, then what dispatch() returned. *)
Precedence(r, error_, resp_) ==
  IF error_ THEN capture_error(r)
  ELSE IF resp_ THEN capture_result(r)
  ELSE r

=============================================================================
