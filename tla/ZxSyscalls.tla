----------------------------- MODULE ZxSyscalls -----------------------------
(***************************************************************************)
(* The handle contract of every system call declared in                    *)
(* src/arch/x64/sysroot/include/zircon/syscalls/definitions.h.             *)
(*                                                                         *)
(* The header is a generated list of `extern` prototypes.  What it says    *)
(* about behaviour is carried by the parameter annotations:                *)
(*   ZX_SYSCALL_PARAM_ATTR(handle_use)             the call borrows it     *)
(*   ZX_SYSCALL_PARAM_ATTR(handle_release_always)  consumed, any outcome   *)
(*   ZX_SYSCALL_PARAM_ATTR(handle_release)         consumed on success     *)
(*   ZX_SYSCALL_PARAM_ATTR(handle_acquire)         produced on success     *)
(* by the C type of the out parameters (a non-const `zx_handle_t*` listed  *)
(* in __NONNULL is a single handle the call writes back) and by            *)
(* __NO_RETURN.  Each prototype becomes one record Decl(...); the data of  *)
(* a parameter (its value, a buffer, a length) is abstracted away, only    *)
(* how many handles of each kind the call takes or gives is kept.          *)
(***************************************************************************)
EXTENDS Naturals, FiniteSets, Sequences

(* One prototype: its name, the number of parameters tagged handle_use,   *)
(* handle_release_always, handle_release and handle_acquire, the number   *)
(* of typed single-handle out parameters, and whether it is __NO_RETURN.  *)
Decl(n, u, ra, rl, aq, o, nr) ==
  [name |-> n, use |-> u, releaseAlways |-> ra, release |-> rl,
   acquire |-> aq, outs |-> o, noReturn |-> nr]

\* Lines 5-157: zx_clock_get .. _zx_object_wait_many.
ClockSystemHandleDecls ==
  { Decl("zx_clock_get", 0, 0, 0, 0, 0, FALSE),
    Decl("_zx_clock_get", 0, 0, 0, 0, 0, FALSE),
    Decl("zx_clock_get_new", 0, 0, 0, 0, 0, FALSE),
    Decl("_zx_clock_get_new", 0, 0, 0, 0, 0, FALSE),
    Decl("zx_clock_get_monotonic", 0, 0, 0, 0, 0, FALSE),
    Decl("_zx_clock_get_monotonic", 0, 0, 0, 0, 0, FALSE),
    Decl("zx_nanosleep", 0, 0, 0, 0, 0, FALSE),
    Decl("_zx_nanosleep", 0, 0, 0, 0, 0, FALSE),
    Decl("zx_ticks_get", 0, 0, 0, 0, 0, FALSE),
    Decl("_zx_ticks_get", 0, 0, 0, 0, 0, FALSE),
    Decl("zx_ticks_per_second", 0, 0, 0, 0, 0, FALSE),
    Decl("_zx_ticks_per_second", 0, 0, 0, 0, 0, FALSE),
    Decl("zx_deadline_after", 0, 0, 0, 0, 0, FALSE),
    Decl("_zx_deadline_after", 0, 0, 0, 0, 0, FALSE),
    Decl("zx_clock_adjust", 1, 0, 0, 0, 0, FALSE),
    Decl("_zx_clock_adjust", 1, 0, 0, 0, 0, FALSE),
    Decl("zx_system_get_dcache_line_size", 0, 0, 0, 0, 0, FALSE),
    Decl("_zx_system_get_dcache_line_size", 0, 0, 0, 0, 0, FALSE),
    Decl("zx_system_get_num_cpus", 0, 0, 0, 0, 0, FALSE),
    Decl("_zx_system_get_num_cpus", 0, 0, 0, 0, 0, FALSE),
    Decl("zx_system_get_version", 0, 0, 0, 0, 0, FALSE),
    Decl("_zx_system_get_version", 0, 0, 0, 0, 0, FALSE),
    Decl("zx_system_get_physmem", 0, 0, 0, 0, 0, FALSE),
    Decl("_zx_system_get_physmem", 0, 0, 0, 0, 0, FALSE),
    Decl("zx_system_get_features", 0, 0, 0, 0, 0, FALSE),
    Decl("_zx_system_get_features", 0, 0, 0, 0, 0, FALSE),
    Decl("zx_cache_flush", 0, 0, 0, 0, 0, FALSE),
    Decl("_zx_cache_flush", 0, 0, 0, 0, 0, FALSE),
    Decl("zx_handle_close", 0, 1, 0, 0, 0, FALSE),
    Decl("_zx_handle_close", 0, 1, 0, 0, 0, FALSE),
    Decl("zx_handle_close_many", 0, 0, 0, 0, 0, FALSE),
    Decl("_zx_handle_close_many", 0, 0, 0, 0, 0, FALSE),
    Decl("zx_handle_duplicate", 1, 0, 0, 1, 1, FALSE),
    Decl("_zx_handle_duplicate", 1, 0, 0, 1, 1, FALSE),
    Decl("zx_handle_replace", 0, 1, 0, 1, 1, FALSE),
    Decl("_zx_handle_replace", 0, 1, 0, 1, 1, FALSE),
    Decl("zx_object_wait_one", 1, 0, 0, 0, 0, FALSE),
    Decl("_zx_object_wait_one", 1, 0, 0, 0, 0, FALSE),
    Decl("zx_object_wait_many", 0, 0, 0, 0, 0, FALSE),
    Decl("_zx_object_wait_many", 0, 0, 0, 0, 0, FALSE) }

\* Lines 159-303: zx_object_wait_async .. _zx_channel_read.
ObjectChannelDecls ==
  { Decl("zx_object_wait_async", 2, 0, 0, 0, 0, FALSE),
    Decl("_zx_object_wait_async", 2, 0, 0, 0, 0, FALSE),
    Decl("zx_object_signal", 1, 0, 0, 0, 0, FALSE),
    Decl("_zx_object_signal", 1, 0, 0, 0, 0, FALSE),
    Decl("zx_object_signal_peer", 1, 0, 0, 0, 0, FALSE),
    Decl("_zx_object_signal_peer", 1, 0, 0, 0, 0, FALSE),
    Decl("zx_object_get_property", 1, 0, 0, 0, 0, FALSE),
    Decl("_zx_object_get_property", 1, 0, 0, 0, 0, FALSE),
    Decl("zx_object_set_property", 1, 0, 0, 0, 0, FALSE),
    Decl("_zx_object_set_property", 1, 0, 0, 0, 0, FALSE),
    Decl("zx_object_set_cookie", 2, 0, 0, 0, 0, FALSE),
    Decl("_zx_object_set_cookie", 2, 0, 0, 0, 0, FALSE),
    Decl("zx_object_get_cookie", 2, 0, 0, 0, 0, FALSE),
    Decl("_zx_object_get_cookie", 2, 0, 0, 0, 0, FALSE),
    Decl("zx_object_get_info", 1, 0, 0, 0, 0, FALSE),
    Decl("_zx_object_get_info", 1, 0, 0, 0, 0, FALSE),
    Decl("zx_object_get_child", 1, 0, 0, 0, 1, FALSE),
    Decl("_zx_object_get_child", 1, 0, 0, 0, 1, FALSE),
    Decl("zx_object_set_profile", 2, 0, 0, 0, 0, FALSE),
    Decl("_zx_object_set_profile", 2, 0, 0, 0, 0, FALSE),
    Decl("zx_channel_create", 0, 0, 0, 2, 2, FALSE),
    Decl("_zx_channel_create", 0, 0, 0, 2, 2, FALSE),
    Decl("zx_channel_read", 1, 0, 0, 0, 0, FALSE),
    Decl("_zx_channel_read", 1, 0, 0, 0, 0, FALSE) }

\* Lines 305-451: zx_channel_read_etc .. _zx_thread_start.
ChannelSocketThreadDecls ==
  { Decl("zx_channel_read_etc", 1, 0, 0, 0, 0, FALSE),
    Decl("_zx_channel_read_etc", 1, 0, 0, 0, 0, FALSE),
    Decl("zx_channel_write", 1, 0, 0, 0, 0, FALSE),
    Decl("_zx_channel_write", 1, 0, 0, 0, 0, FALSE),
    Decl("zx_channel_call", 1, 0, 0, 0, 0, FALSE),
    Decl("_zx_channel_call", 1, 0, 0, 0, 0, FALSE),
    Decl("zx_socket_create", 0, 0, 0, 2, 2, FALSE),
    Decl("_zx_socket_create", 0, 0, 0, 2, 2, FALSE),
    Decl("zx_socket_write", 1, 0, 0, 0, 0, FALSE),
    Decl("_zx_socket_write", 1, 0, 0, 0, 0, FALSE),
    Decl("zx_socket_read", 1, 0, 0, 0, 0, FALSE),
    Decl("_zx_socket_read", 1, 0, 0, 0, 0, FALSE),
    Decl("zx_socket_share", 2, 0, 0, 0, 0, FALSE),
    Decl("_zx_socket_share", 2, 0, 0, 0, 0, FALSE),
    Decl("zx_socket_accept", 1, 0, 0, 1, 1, FALSE),
    Decl("_zx_socket_accept", 1, 0, 0, 1, 1, FALSE),
    Decl("zx_socket_shutdown", 1, 0, 0, 0, 0, FALSE),
    Decl("_zx_socket_shutdown", 1, 0, 0, 0, 0, FALSE),
    Decl("zx_thread_exit", 0, 0, 0, 0, 0, TRUE),
    Decl("_zx_thread_exit", 0, 0, 0, 0, 0, TRUE),
    Decl("zx_thread_create", 1, 0, 0, 1, 1, FALSE),
    Decl("_zx_thread_create", 1, 0, 0, 1, 1, FALSE),
    Decl("zx_thread_start", 1, 0, 0, 0, 0, FALSE),
    Decl("_zx_thread_start", 1, 0, 0, 0, 0, FALSE) }

\* Lines 453-599: zx_thread_read_state .. _zx_task_suspend_token.
ThreadProcessJobDecls ==
  { Decl("zx_thread_read_state", 1, 0, 0, 0, 0, FALSE),
    Decl("_zx_thread_read_state", 1, 0, 0, 0, 0, FALSE),
    Decl("zx_thread_write_state", 1, 0, 0, 0, 0, FALSE),
    Decl("_zx_thread_write_state", 1, 0, 0, 0, 0, FALSE),
    Decl("zx_thread_set_priority", 0, 0, 0, 0, 0, FALSE),
    Decl("_zx_thread_set_priority", 0, 0, 0, 0, 0, FALSE),
    Decl("zx_process_exit", 0, 0, 0, 0, 0, TRUE),
    Decl("_zx_process_exit", 0, 0, 0, 0, 0, TRUE),
    Decl("zx_process_create", 1, 0, 0, 2, 2, FALSE),
    Decl("_zx_process_create", 1, 0, 0, 2, 2, FALSE),
    Decl("zx_process_start", 2, 1, 0, 0, 0, FALSE),
    Decl("_zx_process_start", 2, 1, 0, 0, 0, FALSE),
    Decl("zx_process_read_memory", 1, 0, 0, 0, 0, FALSE),
    Decl("_zx_process_read_memory", 1, 0, 0, 0, 0, FALSE),
    Decl("zx_process_write_memory", 1, 0, 0, 0, 0, FALSE),
    Decl("_zx_process_write_memory", 1, 0, 0, 0, 0, FALSE),
    Decl("zx_job_create", 1, 0, 0, 1, 1, FALSE),
    Decl("_zx_job_create", 1, 0, 0, 1, 1, FALSE),
    Decl("zx_job_set_policy", 1, 0, 0, 0, 0, FALSE),
    Decl("_zx_job_set_policy", 1, 0, 0, 0, 0, FALSE),
    Decl("zx_task_bind_exception_port", 2, 0, 0, 0, 0, FALSE),
    Decl("_zx_task_bind_exception_port", 2, 0, 0, 0, 0, FALSE),
    Decl("zx_task_suspend", 1, 0, 0, 1, 1, FALSE),
    Decl("_zx_task_suspend", 1, 0, 0, 1, 1, FALSE),
    Decl("zx_task_suspend_token", 1, 0, 0, 1, 1, FALSE),
    Decl("_zx_task_suspend_token", 1, 0, 0, 1, 1, FALSE) }

\* Lines 601-747: zx_task_resume_from_exception .. _zx_port_wait.
TaskEventFutexPortDecls ==
  { Decl("zx_task_resume_from_exception", 2, 0, 0, 0, 0, FALSE),
    Decl("_zx_task_resume_from_exception", 2, 0, 0, 0, 0, FALSE),
    Decl("zx_task_kill", 1, 0, 0, 0, 0, FALSE),
    Decl("_zx_task_kill", 1, 0, 0, 0, 0, FALSE),
    Decl("zx_event_create", 0, 0, 0, 1, 1, FALSE),
    Decl("_zx_event_create", 0, 0, 0, 1, 1, FALSE),
    Decl("zx_eventpair_create", 0, 0, 0, 2, 2, FALSE),
    Decl("_zx_eventpair_create", 0, 0, 0, 2, 2, FALSE),
    Decl("zx_futex_wait", 1, 0, 0, 0, 0, FALSE),
    Decl("_zx_futex_wait", 1, 0, 0, 0, 0, FALSE),
    Decl("zx_futex_wake", 0, 0, 0, 0, 0, FALSE),
    Decl("_zx_futex_wake", 0, 0, 0, 0, 0, FALSE),
    Decl("zx_futex_requeue", 1, 0, 0, 0, 0, FALSE),
    Decl("_zx_futex_requeue", 1, 0, 0, 0, 0, FALSE),
    Decl("zx_futex_wake_single_owner", 0, 0, 0, 0, 0, FALSE),
    Decl("_zx_futex_wake_single_owner", 0, 0, 0, 0, 0, FALSE),
    Decl("zx_futex_requeue_single_owner", 1, 0, 0, 0, 0, FALSE),
    Decl("_zx_futex_requeue_single_owner", 1, 0, 0, 0, 0, FALSE),
    Decl("zx_futex_get_owner", 0, 0, 0, 0, 0, FALSE),
    Decl("_zx_futex_get_owner", 0, 0, 0, 0, 0, FALSE),
    Decl("zx_futex_wait_deprecated", 0, 0, 0, 0, 0, FALSE),
    Decl("_zx_futex_wait_deprecated", 0, 0, 0, 0, 0, FALSE),
    Decl("zx_futex_requeue_deprecated", 0, 0, 0, 0, 0, FALSE),
    Decl("_zx_futex_requeue_deprecated", 0, 0, 0, 0, 0, FALSE),
    Decl("zx_port_create", 0, 0, 0, 1, 1, FALSE),
    Decl("_zx_port_create", 0, 0, 0, 1, 1, FALSE),
    Decl("zx_port_queue", 1, 0, 0, 0, 0, FALSE),
    Decl("_zx_port_queue", 1, 0, 0, 0, 0, FALSE),
    Decl("zx_port_wait", 1, 0, 0, 0, 0, FALSE),
    Decl("_zx_port_wait", 1, 0, 0, 0, 0, FALSE) }

\* Lines 749-897: zx_port_cancel .. _zx_vmar_allocate_old.
PortTimerVmoVmarDecls ==
  { Decl("zx_port_cancel", 2, 0, 0, 0, 0, FALSE),
    Decl("_zx_port_cancel", 2, 0, 0, 0, 0, FALSE),
    Decl("zx_timer_create", 0, 0, 0, 1, 1, FALSE),
    Decl("_zx_timer_create", 0, 0, 0, 1, 1, FALSE),
    Decl("zx_timer_set", 1, 0, 0, 0, 0, FALSE),
    Decl("_zx_timer_set", 1, 0, 0, 0, 0, FALSE),
    Decl("zx_timer_cancel", 1, 0, 0, 0, 0, FALSE),
    Decl("_zx_timer_cancel", 1, 0, 0, 0, 0, FALSE),
    Decl("zx_vmo_create", 0, 0, 0, 1, 1, FALSE),
    Decl("_zx_vmo_create", 0, 0, 0, 1, 1, FALSE),
    Decl("zx_vmo_read", 1, 0, 0, 0, 0, FALSE),
    Decl("_zx_vmo_read", 1, 0, 0, 0, 0, FALSE),
    Decl("zx_vmo_write", 1, 0, 0, 0, 0, FALSE),
    Decl("_zx_vmo_write", 1, 0, 0, 0, 0, FALSE),
    Decl("zx_vmo_get_size", 1, 0, 0, 0, 0, FALSE),
    Decl("_zx_vmo_get_size", 1, 0, 0, 0, 0, FALSE),
    Decl("zx_vmo_set_size", 1, 0, 0, 0, 0, FALSE),
    Decl("_zx_vmo_set_size", 1, 0, 0, 0, 0, FALSE),
    Decl("zx_vmo_op_range", 1, 0, 0, 0, 0, FALSE),
    Decl("_zx_vmo_op_range", 1, 0, 0, 0, 0, FALSE),
    Decl("zx_vmo_clone", 1, 0, 0, 1, 1, FALSE),
    Decl("_zx_vmo_clone", 1, 0, 0, 1, 1, FALSE),
    Decl("zx_vmo_set_cache_policy", 1, 0, 0, 0, 0, FALSE),
    Decl("_zx_vmo_set_cache_policy", 1, 0, 0, 0, 0, FALSE),
    Decl("zx_vmo_replace_as_executable", 1, 1, 0, 1, 1, FALSE),
    Decl("_zx_vmo_replace_as_executable", 1, 1, 0, 1, 1, FALSE),
    Decl("zx_vmar_allocate_old", 1, 0, 0, 1, 1, FALSE),
    Decl("_zx_vmar_allocate_old", 1, 0, 0, 1, 1, FALSE) }

\* Lines 899-1047: zx_vmar_map_old .. _zx_fifo_write.
VmarCprngFifoDecls ==
  { Decl("zx_vmar_map_old", 2, 0, 0, 0, 0, FALSE),
    Decl("_zx_vmar_map_old", 2, 0, 0, 0, 0, FALSE),
    Decl("zx_vmar_protect_old", 1, 0, 0, 0, 0, FALSE),
    Decl("_zx_vmar_protect_old", 1, 0, 0, 0, 0, FALSE),
    Decl("zx_vmar_allocate", 1, 0, 0, 1, 1, FALSE),
    Decl("_zx_vmar_allocate", 1, 0, 0, 1, 1, FALSE),
    Decl("zx_vmar_destroy", 1, 0, 0, 0, 0, FALSE),
    Decl("_zx_vmar_destroy", 1, 0, 0, 0, 0, FALSE),
    Decl("zx_vmar_map", 2, 0, 0, 0, 0, FALSE),
    Decl("_zx_vmar_map", 2, 0, 0, 0, 0, FALSE),
    Decl("zx_vmar_unmap", 1, 0, 0, 0, 0, FALSE),
    Decl("_zx_vmar_unmap", 1, 0, 0, 0, 0, FALSE),
    Decl("zx_vmar_protect", 1, 0, 0, 0, 0, FALSE),
    Decl("_zx_vmar_protect", 1, 0, 0, 0, 0, FALSE),
    Decl("zx_cprng_draw", 0, 0, 0, 0, 0, FALSE),
    Decl("_zx_cprng_draw", 0, 0, 0, 0, 0, FALSE),
    Decl("zx_cprng_add_entropy", 0, 0, 0, 0, 0, FALSE),
    Decl("_zx_cprng_add_entropy", 0, 0, 0, 0, 0, FALSE),
    Decl("zx_fifo_create", 0, 0, 0, 2, 2, FALSE),
    Decl("_zx_fifo_create", 0, 0, 0, 2, 2, FALSE),
    Decl("zx_fifo_read", 1, 0, 0, 0, 0, FALSE),
    Decl("_zx_fifo_read", 1, 0, 0, 0, 0, FALSE),
    Decl("zx_fifo_write", 1, 0, 0, 0, 0, FALSE),
    Decl("_zx_fifo_write", 1, 0, 0, 0, 0, FALSE) }

\* Lines 1049-1203: zx_profile_create .. _zx_debug_read.
ProfileLogTraceDecls ==
  { Decl("zx_profile_create", 1, 0, 0, 1, 1, FALSE),
    Decl("_zx_profile_create", 1, 0, 0, 1, 1, FALSE),
    Decl("zx_vmar_unmap_handle_close_thread_exit", 1, 0, 1, 0, 0, FALSE),
    Decl("_zx_vmar_unmap_handle_close_thread_exit", 1, 0, 1, 0, 0, FALSE),
    Decl("zx_futex_wake_handle_close_thread_exit", 0, 0, 1, 0, 0, TRUE),
    Decl("_zx_futex_wake_handle_close_thread_exit", 0, 0, 1, 0, 0, TRUE),
    Decl("zx_log_write", 1, 0, 0, 0, 0, FALSE),
    Decl("_zx_log_write", 1, 0, 0, 0, 0, FALSE),
    Decl("zx_log_read", 1, 0, 0, 0, 0, FALSE),
    Decl("_zx_log_read", 1, 0, 0, 0, 0, FALSE),
    Decl("zx_debuglog_create", 1, 0, 0, 1, 1, FALSE),
    Decl("_zx_debuglog_create", 1, 0, 0, 1, 1, FALSE),
    Decl("zx_debuglog_write", 1, 0, 0, 0, 0, FALSE),
    Decl("_zx_debuglog_write", 1, 0, 0, 0, 0, FALSE),
    Decl("zx_debuglog_read", 1, 0, 0, 0, 0, FALSE),
    Decl("_zx_debuglog_read", 1, 0, 0, 0, 0, FALSE),
    Decl("zx_ktrace_read", 1, 0, 0, 0, 0, FALSE),
    Decl("_zx_ktrace_read", 1, 0, 0, 0, 0, FALSE),
    Decl("zx_ktrace_control", 1, 0, 0, 0, 0, FALSE),
    Decl("_zx_ktrace_control", 1, 0, 0, 0, 0, FALSE),
    Decl("zx_ktrace_write", 1, 0, 0, 0, 0, FALSE),
    Decl("_zx_ktrace_write", 1, 0, 0, 0, 0, FALSE),
    Decl("zx_mtrace_control", 1, 0, 0, 0, 0, FALSE),
    Decl("_zx_mtrace_control", 1, 0, 0, 0, 0, FALSE),
    Decl("zx_debug_read", 1, 0, 0, 0, 0, FALSE),
    Decl("_zx_debug_read", 1, 0, 0, 0, 0, FALSE) }

\* Lines 1205-1345: zx_debug_write .. _zx_bti_create.
DebugInterruptIommuDecls ==
  { Decl("zx_debug_write", 0, 0, 0, 0, 0, FALSE),
    Decl("_zx_debug_write", 0, 0, 0, 0, 0, FALSE),
    Decl("zx_debug_send_command", 1, 0, 0, 0, 0, FALSE),
    Decl("_zx_debug_send_command", 1, 0, 0, 0, 0, FALSE),
    Decl("zx_interrupt_create", 1, 0, 0, 0, 1, FALSE),
    Decl("_zx_interrupt_create", 1, 0, 0, 0, 1, FALSE),
    Decl("zx_interrupt_bind", 2, 0, 0, 0, 0, FALSE),
    Decl("_zx_interrupt_bind", 2, 0, 0, 0, 0, FALSE),
    Decl("zx_interrupt_wait", 1, 0, 0, 0, 0, FALSE),
    Decl("_zx_interrupt_wait", 1, 0, 0, 0, 0, FALSE),
    Decl("zx_interrupt_destroy", 1, 0, 0, 0, 0, FALSE),
    Decl("_zx_interrupt_destroy", 1, 0, 0, 0, 0, FALSE),
    Decl("zx_interrupt_ack", 1, 0, 0, 0, 0, FALSE),
    Decl("_zx_interrupt_ack", 1, 0, 0, 0, 0, FALSE),
    Decl("zx_interrupt_trigger", 1, 0, 0, 0, 0, FALSE),
    Decl("_zx_interrupt_trigger", 1, 0, 0, 0, 0, FALSE),
    Decl("zx_interrupt_bind_vcpu", 2, 0, 0, 0, 0, FALSE),
    Decl("_zx_interrupt_bind_vcpu", 2, 0, 0, 0, 0, FALSE),
    Decl("zx_ioports_request", 1, 0, 0, 0, 0, FALSE),
    Decl("_zx_ioports_request", 1, 0, 0, 0, 0, FALSE),
    Decl("zx_vmo_create_contiguous", 1, 0, 0, 1, 1, FALSE),
    Decl("_zx_vmo_create_contiguous", 1, 0, 0, 1, 1, FALSE),
    Decl("zx_vmo_create_physical", 1, 0, 0, 1, 1, FALSE),
    Decl("_zx_vmo_create_physical", 1, 0, 0, 1, 1, FALSE),
    Decl("zx_iommu_create", 1, 0, 0, 1, 1, FALSE),
    Decl("_zx_iommu_create", 1, 0, 0, 1, 1, FALSE),
    Decl("zx_bti_create", 1, 0, 0, 1, 1, FALSE),
    Decl("_zx_bti_create", 1, 0, 0, 1, 1, FALSE) }

\* Lines 1347-1501: zx_bti_pin .. _zx_pci_map_interrupt.
BtiFramebufferPciDecls ==
  { Decl("zx_bti_pin", 2, 0, 0, 1, 1, FALSE),
    Decl("_zx_bti_pin", 2, 0, 0, 1, 1, FALSE),
    Decl("zx_bti_release_quarantine", 1, 0, 0, 0, 0, FALSE),
    Decl("_zx_bti_release_quarantine", 1, 0, 0, 0, 0, FALSE),
    Decl("zx_pmt_unpin", 0, 1, 0, 0, 0, FALSE),
    Decl("_zx_pmt_unpin", 0, 1, 0, 0, 0, FALSE),
    Decl("zx_framebuffer_get_info", 1, 0, 0, 0, 0, FALSE),
    Decl("_zx_framebuffer_get_info", 1, 0, 0, 0, 0, FALSE),
    Decl("zx_framebuffer_set_range", 2, 0, 0, 0, 0, FALSE),
    Decl("_zx_framebuffer_set_range", 2, 0, 0, 0, 0, FALSE),
    Decl("zx_pci_get_nth_device", 1, 0, 0, 1, 1, FALSE),
    Decl("_zx_pci_get_nth_device", 1, 0, 0, 1, 1, FALSE),
    Decl("zx_pci_enable_bus_master", 1, 0, 0, 0, 0, FALSE),
    Decl("_zx_pci_enable_bus_master", 1, 0, 0, 0, 0, FALSE),
    Decl("zx_pci_reset_device", 1, 0, 0, 0, 0, FALSE),
    Decl("_zx_pci_reset_device", 1, 0, 0, 0, 0, FALSE),
    Decl("zx_pci_config_read", 1, 0, 0, 0, 0, FALSE),
    Decl("_zx_pci_config_read", 1, 0, 0, 0, 0, FALSE),
    Decl("zx_pci_config_write", 1, 0, 0, 0, 0, FALSE),
    Decl("_zx_pci_config_write", 1, 0, 0, 0, 0, FALSE),
    Decl("zx_pci_cfg_pio_rw", 1, 0, 0, 0, 0, FALSE),
    Decl("_zx_pci_cfg_pio_rw", 1, 0, 0, 0, 0, FALSE),
    Decl("zx_pci_get_bar", 1, 0, 0, 1, 1, FALSE),
    Decl("_zx_pci_get_bar", 1, 0, 0, 1, 1, FALSE),
    Decl("zx_pci_map_interrupt", 1, 0, 0, 1, 1, FALSE),
    Decl("_zx_pci_map_interrupt", 1, 0, 0, 1, 1, FALSE) }

\* Lines 1503-1651: zx_pci_query_irq_mode .. _zx_vcpu_read_state.
PciGuestVcpuDecls ==
  { Decl("zx_pci_query_irq_mode", 1, 0, 0, 0, 0, FALSE),
    Decl("_zx_pci_query_irq_mode", 1, 0, 0, 0, 0, FALSE),
    Decl("zx_pci_set_irq_mode", 1, 0, 0, 0, 0, FALSE),
    Decl("_zx_pci_set_irq_mode", 1, 0, 0, 0, 0, FALSE),
    Decl("zx_pci_init", 1, 0, 0, 0, 0, FALSE),
    Decl("_zx_pci_init", 1, 0, 0, 0, 0, FALSE),
    Decl("zx_pci_add_subtract_io_range", 1, 0, 0, 0, 0, FALSE),
    Decl("_zx_pci_add_subtract_io_range", 1, 0, 0, 0, 0, FALSE),
    Decl("zx_pc_firmware_tables", 1, 0, 0, 0, 0, FALSE),
    Decl("_zx_pc_firmware_tables", 1, 0, 0, 0, 0, FALSE),
    Decl("zx_smc_call", 1, 0, 0, 0, 0, FALSE),
    Decl("_zx_smc_call", 1, 0, 0, 0, 0, FALSE),
    Decl("zx_resource_create", 1, 0, 0, 1, 1, FALSE),
    Decl("_zx_resource_create", 1, 0, 0, 1, 1, FALSE),
    Decl("zx_guest_create", 1, 0, 0, 2, 2, FALSE),
    Decl("_zx_guest_create", 1, 0, 0, 2, 2, FALSE),
    Decl("zx_guest_set_trap", 2, 0, 0, 0, 0, FALSE),
    Decl("_zx_guest_set_trap", 2, 0, 0, 0, 0, FALSE),
    Decl("zx_vcpu_create", 1, 0, 0, 1, 1, FALSE),
    Decl("_zx_vcpu_create", 1, 0, 0, 1, 1, FALSE),
    Decl("zx_vcpu_resume", 1, 0, 0, 0, 0, FALSE),
    Decl("_zx_vcpu_resume", 1, 0, 0, 0, 0, FALSE),
    Decl("zx_vcpu_interrupt", 1, 0, 0, 0, 0, FALSE),
    Decl("_zx_vcpu_interrupt", 1, 0, 0, 0, 0, FALSE),
    Decl("zx_vcpu_read_state", 1, 0, 0, 0, 0, FALSE),
    Decl("_zx_vcpu_read_state", 1, 0, 0, 0, 0, FALSE) }

\* Lines 1653-1807: zx_vcpu_write_state .. _zx_syscall_test_7.
VcpuSystemPagerTestDecls ==
  { Decl("zx_vcpu_write_state", 1, 0, 0, 0, 0, FALSE),
    Decl("_zx_vcpu_write_state", 1, 0, 0, 0, 0, FALSE),
    Decl("zx_system_mexec", 3, 0, 0, 0, 0, FALSE),
    Decl("_zx_system_mexec", 3, 0, 0, 0, 0, FALSE),
    Decl("zx_system_mexec_payload_get", 1, 0, 0, 0, 0, FALSE),
    Decl("_zx_system_mexec_payload_get", 1, 0, 0, 0, 0, FALSE),
    Decl("zx_system_powerctl", 1, 0, 0, 0, 0, FALSE),
    Decl("_zx_system_powerctl", 1, 0, 0, 0, 0, FALSE),
    Decl("zx_pager_create", 0, 0, 0, 0, 1, FALSE),
    Decl("_zx_pager_create", 0, 0, 0, 0, 1, FALSE),
    Decl("zx_pager_create_vmo", 2, 0, 0, 0, 1, FALSE),
    Decl("_zx_pager_create_vmo", 2, 0, 0, 0, 1, FALSE),
    Decl("zx_syscall_test_0", 0, 0, 0, 0, 0, FALSE),
    Decl("_zx_syscall_test_0", 0, 0, 0, 0, 0, FALSE),
    Decl("zx_syscall_test_1", 0, 0, 0, 0, 0, FALSE),
    Decl("_zx_syscall_test_1", 0, 0, 0, 0, 0, FALSE),
    Decl("zx_syscall_test_2", 0, 0, 0, 0, 0, FALSE),
    Decl("_zx_syscall_test_2", 0, 0, 0, 0, 0, FALSE),
    Decl("zx_syscall_test_3", 0, 0, 0, 0, 0, FALSE),
    Decl("_zx_syscall_test_3", 0, 0, 0, 0, 0, FALSE),
    Decl("zx_syscall_test_4", 0, 0, 0, 0, 0, FALSE),
    Decl("_zx_syscall_test_4", 0, 0, 0, 0, 0, FALSE),
    Decl("zx_syscall_test_5", 0, 0, 0, 0, 0, FALSE),
    Decl("_zx_syscall_test_5", 0, 0, 0, 0, 0, FALSE),
    Decl("zx_syscall_test_6", 0, 0, 0, 0, 0, FALSE),
    Decl("_zx_syscall_test_6", 0, 0, 0, 0, 0, FALSE),
    Decl("zx_syscall_test_7", 0, 0, 0, 0, 0, FALSE),
    Decl("_zx_syscall_test_7", 0, 0, 0, 0, 0, FALSE) }

\* Lines 1809-1837: zx_syscall_test_8 .. _zx_syscall_test_wrapper.
SyscallTestDecls ==
  { Decl("zx_syscall_test_8", 0, 0, 0, 0, 0, FALSE),
    Decl("_zx_syscall_test_8", 0, 0, 0, 0, 0, FALSE),
    Decl("zx_syscall_test_wrapper", 0, 0, 0, 0, 0, FALSE),
    Decl("_zx_syscall_test_wrapper", 0, 0, 0, 0, 0, FALSE) }
AllDecls ==
  ClockSystemHandleDecls \cup ObjectChannelDecls \cup ChannelSocketThreadDecls
  \cup ThreadProcessJobDecls \cup TaskEventFutexPortDecls
  \cup PortTimerVmoVmarDecls \cup VmarCprngFifoDecls \cup ProfileLogTraceDecls
  \cup DebugInterruptIommuDecls \cup BtiFramebufferPciDecls
  \cup PciGuestVcpuDecls \cup VcpuSystemPagerTestDecls \cup SyscallTestDecls

(* What a call does to handles, without its name. *)
Contract(d) ==
  [use |-> d.use, releaseAlways |-> d.releaseAlways, release |-> d.release,
   acquire |-> d.acquire, outs |-> d.outs, noReturn |-> d.noReturn]

(* The public entry points: those whose name is not "_" before another's. *)
PublicDecls ==
  {d \in AllDecls : \A e \in AllDecls : "_" \o e.name # d.name}

(* A declaration whose handle_acquire tags account for every handle it     *)
(* writes back.                                                            *)
TagsMatchTypes(d) == d.acquire = d.outs

(* The distinct handle contracts of a set of declarations.  The model of   *)
(* a caller only needs these: two calls with one contract act alike on     *)
(* the handle table.                                                       *)
ContractsOf(D) == {Contract(d) : d \in D}

(* The header's structural invariant: every public entry point zx_f has a  *)
(* private twin _zx_f with the same handle contract, every declaration is  *)
(* one of the two, and no name is declared twice.                          *)
PairSymmetry ==
  /\ \A d \in PublicDecls :
        \E p \in AllDecls : p.name = "_" \o d.name /\ Contract(p) = Contract(d)
  /\ \A p \in AllDecls \ PublicDecls :
        \E d \in PublicDecls : p.name = "_" \o d.name
  /\ \A d, e \in AllDecls : d.name = e.name => d = e

ASSUME PairSymmetryHolds == PairSymmetry

=============================================================================
