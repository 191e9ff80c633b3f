------------------------------ MODULE PgErrors ------------------------------
(***************************************************************************)
(* The error taxonomy of the pg_mcp extension (errors.rs).  An McpError is *)
(* represented by the name of its variant; the message it carries is kept  *)
(* only as far as the code looks into it: "authz" for one that             *)
(* is_authz_message accepts, "expired" for one that is_expired_session     *)
(* accepts, "plain" for any other.                                         *)
(***************************************************************************)
EXTENDS Integers

Messages == {"plain", "authz", "expired"}

\* The variants of McpError, each with the SQLSTATE sqlstate() gives it.
sqlstate ==
    [InvalidParams |-> "22023", InvalidOption |-> "22023", Rpc |-> "22023",
     MethodNotFound |-> "0A000", NotImplemented |-> "0A000",
     FeatureNotSupported |-> "0A000", Internal |-> "XX000",
     TooManyArguments |-> "54023", NotNullViolation |-> "23502",
     DatatypeMismatch |-> "42804", InvalidSchemaName |-> "3F000",
     Forbidden |-> "42501", Transport |-> "08006", UndefinedObject |-> "42704",
     NoAuthMapping |-> "28000", ToolError |-> "P0001"]

McpError ==
    {"InvalidParams", "MethodNotFound", "Forbidden", "Transport",
     "UndefinedObject", "NoAuthMapping", "ToolError", "InvalidOption",
     "NotImplemented", "Internal", "FeatureNotSupported", "TooManyArguments",
     "NotNullViolation", "DatatypeMismatch", "InvalidSchemaName", "Rpc"}

\* The condition error_code() reports each variant with, and the SQLSTATE
\* PostgreSQL gives that condition (errcodes.txt).
error_code ==
    [InvalidParams |-> "invalid_parameter_value", InvalidOption |-> "invalid_parameter_value",
     Rpc |-> "invalid_parameter_value", MethodNotFound |-> "feature_not_supported",
     NotImplemented |-> "feature_not_supported",
     FeatureNotSupported |-> "feature_not_supported", Internal |-> "internal_error",
     TooManyArguments |-> "too_many_arguments", NotNullViolation |-> "not_null_violation",
     DatatypeMismatch |-> "datatype_mismatch", InvalidSchemaName |-> "invalid_schema_name",
     Forbidden |-> "insufficient_privilege", Transport |-> "connection_failure",
     UndefinedObject |-> "undefined_object",
     NoAuthMapping |-> "invalid_authorization_specification", ToolError |-> "raise_exception"]

ConditionCode ==
    [invalid_parameter_value |-> "22023", feature_not_supported |-> "0A000",
     internal_error |-> "XX000", too_many_arguments |-> "54023",
     not_null_violation |-> "23502", datatype_mismatch |-> "42804",
     invalid_schema_name |-> "3F000", insufficient_privilege |-> "42501",
     connection_failure |-> "08006", undefined_object |-> "42704",
     invalid_authorization_specification |-> "28000", raise_exception |-> "P0001"]

\* raise and raise_ctx report through error_code; sqlstate is what the rest of
\* the code and its tests go by.  The two tables say the same.
ASSUME CodesAgree == \A e \in McpError : ConditionCode[error_code[e]] = sqlstate[e]

is_authz_message(msg) == msg = "authz"

is_expired_session(msg) == msg = "expired"

\* The variant a JSON-RPC error object becomes: three codes are protocol-level
\* failures, and the message decides only for codes the protocol does not fix.
from_rpc(code, msg) ==
    CASE code = -32602 -> "InvalidParams"
      [] code = -32601 -> "MethodNotFound"
      [] code \in {-32600, -32700, -32603} -> "Internal"
      [] OTHER -> IF is_authz_message(msg) THEN "Forbidden" ELSE "Rpc"

\* The variant of a non-2xx status (404 never reaches it).
from_http_status(status) ==
    CASE status \in {401, 403} -> "Forbidden"
      [] status = 400 -> "InvalidParams"
      [] status = 405 -> "MethodNotFound"
      [] OTHER -> "Transport"
=============================================================================
