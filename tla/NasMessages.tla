---------------------------- MODULE NasMessages ----------------------------
(***************************************************************************)
(* The session management messages of 24.301 section 8.3.                  *)
(* One layout per function of liblte_mme.cc, named without the prefix      *)
(* liblte_mme_.                                                            *)
(***************************************************************************)
EXTENDS NasEmmMessages

pack_activate_dedicated_eps_bearer_context_accept_msg ==
  <<Fld("eps_bearer_id", 4), Fill(2, 4), Fld("proc_transaction_id", 8), Fill(198, 8),
    PutTagged("protocol_cnfg_opts_present", 8, 39,
      <<Sub("protocol_cnfg_opts", pack_protocol_config_options_ie)>>)>>

unpack_activate_dedicated_eps_bearer_context_accept_msg ==
  <<Fld("eps_bearer_id", 4), Skip(4), Fld("proc_transaction_id", 8), Skip(8),
    GetTagged("protocol_cnfg_opts_present", 8, 39,
      <<Sub("protocol_cnfg_opts", unpack_protocol_config_options_ie)>>)>>

pack_activate_dedicated_eps_bearer_context_reject_msg ==
  <<Fld("eps_bearer_id", 4), Fill(2, 4), Fld("proc_transaction_id", 8), Fill(199, 8),
    Sub("esm_cause", pack_esm_cause_ie),
    PutTagged("protocol_cnfg_opts_present", 8, 39,
      <<Sub("protocol_cnfg_opts", pack_protocol_config_options_ie)>>)>>

unpack_activate_dedicated_eps_bearer_context_reject_msg ==
  <<Fld("eps_bearer_id", 4), Skip(4), Fld("proc_transaction_id", 8), Skip(8),
    Sub("esm_cause", unpack_esm_cause_ie),
    GetTagged("protocol_cnfg_opts_present", 8, 39,
      <<Sub("protocol_cnfg_opts", unpack_protocol_config_options_ie)>>)>>

pack_activate_dedicated_eps_bearer_context_request_msg ==
  <<Fld("eps_bearer_id", 4), Fill(2, 4), Fld("proc_transaction_id", 8), Fill(197, 8), Fill(0, 4),
    Sub("linked_eps_bearer_id", pack_linked_eps_bearer_identity_ie),
    Sub("eps_qos", pack_eps_quality_of_service_ie), Sub("tft", pack_traffic_flow_template_ie),
    PutTagged("transaction_id_present", 8, 93,
      <<Sub("transaction_id", pack_transaction_identifier_ie)>>),
    PutTagged("negotiated_qos_present", 8, 48,
      <<Sub("negotiated_qos", pack_quality_of_service_ie)>>),
    PutTagged("llc_sapi_present", 8, 50,
      <<Sub("llc_sapi", pack_llc_service_access_point_identifier_ie)>>),
    PutTagged("radio_prio_present", 4, 8, <<Sub("radio_prio", pack_radio_priority_ie)>>),
    PutTagged("packet_flow_id_present", 8, 52,
      <<Sub("packet_flow_id", pack_packet_flow_identifier_ie)>>),
    PutTagged("protocol_cnfg_opts_present", 8, 39,
      <<Sub("protocol_cnfg_opts", pack_protocol_config_options_ie)>>)>>

unpack_activate_dedicated_eps_bearer_context_request_msg ==
  <<Fld("eps_bearer_id", 4), Skip(4), Fld("proc_transaction_id", 8), Skip(12),
    Sub("linked_eps_bearer_id", unpack_linked_eps_bearer_identity_ie),
    Sub("eps_qos", unpack_eps_quality_of_service_ie), Sub("tft", unpack_traffic_flow_template_ie),
    GetTagged("transaction_id_present", 8, 93,
      <<Sub("transaction_id", unpack_transaction_identifier_ie)>>),
    GetTagged("negotiated_qos_present", 8, 48,
      <<Sub("negotiated_qos", unpack_quality_of_service_ie)>>),
    GetTagged("llc_sapi_present", 8, 50,
      <<Sub("llc_sapi", unpack_llc_service_access_point_identifier_ie)>>),
    GetTagged("radio_prio_present", 4, 8, <<Sub("radio_prio", unpack_radio_priority_ie)>>),
    GetTagged("packet_flow_id_present", 8, 52,
      <<Sub("packet_flow_id", unpack_packet_flow_identifier_ie)>>),
    GetTagged("protocol_cnfg_opts_present", 8, 39,
      <<Sub("protocol_cnfg_opts", unpack_protocol_config_options_ie)>>)>>

pack_activate_default_eps_bearer_context_accept_msg ==
  <<Fld("eps_bearer_id", 4), Fill(2, 4), Fld("proc_transaction_id", 8), Fill(194, 8),
    PutTagged("protocol_cnfg_opts_present", 8, 39,
      <<Sub("protocol_cnfg_opts", pack_protocol_config_options_ie)>>)>>

unpack_activate_default_eps_bearer_context_accept_msg ==
  <<Fld("eps_bearer_id", 4), Skip(4), Fld("proc_transaction_id", 8), Skip(8),
    GetTagged("protocol_cnfg_opts_present", 8, 39,
      <<Sub("protocol_cnfg_opts", unpack_protocol_config_options_ie)>>)>>

pack_activate_default_eps_bearer_context_reject_msg ==
  <<Fld("eps_bearer_id", 4), Fill(2, 4), Fld("proc_transaction_id", 8), Fill(195, 8),
    Sub("esm_cause", pack_esm_cause_ie),
    PutTagged("protocol_cnfg_opts_present", 8, 39,
      <<Sub("protocol_cnfg_opts", pack_protocol_config_options_ie)>>)>>

unpack_activate_default_eps_bearer_context_reject_msg ==
  <<Fld("eps_bearer_id", 4), Skip(4), Fld("proc_transaction_id", 8), Skip(8),
    Sub("esm_cause", unpack_esm_cause_ie),
    GetTagged("protocol_cnfg_opts_present", 8, 39,
      <<Sub("protocol_cnfg_opts", unpack_protocol_config_options_ie)>>)>>

pack_activate_default_eps_bearer_context_request_msg ==
  <<Fld("eps_bearer_id", 4), Fill(2, 4), Fld("proc_transaction_id", 8), Fill(193, 8),
    Sub("eps_qos", pack_eps_quality_of_service_ie), Sub("apn", pack_access_point_name_ie),
    Sub("pdn_addr", pack_pdn_address_ie),
    PutTagged("transaction_id_present", 8, 93,
      <<Sub("transaction_id", pack_transaction_identifier_ie)>>),
    PutTagged("negotiated_qos_present", 8, 48,
      <<Sub("negotiated_qos", pack_quality_of_service_ie)>>),
    PutTagged("llc_sapi_present", 8, 50,
      <<Sub("llc_sapi", pack_llc_service_access_point_identifier_ie)>>),
    PutTagged("radio_prio_present", 4, 8, <<Sub("radio_prio", pack_radio_priority_ie)>>),
    PutTagged("packet_flow_id_present", 8, 52,
      <<Sub("packet_flow_id", pack_packet_flow_identifier_ie)>>),
    PutTagged("apn_ambr_present", 8, 94,
      <<Sub("apn_ambr", pack_apn_aggregate_maximum_bit_rate_ie)>>),
    PutTagged("esm_cause_present", 8, 88, <<Sub("esm_cause", pack_esm_cause_ie)>>),
    PutTagged("protocol_cnfg_opts_present", 8, 39,
      <<Sub("protocol_cnfg_opts", pack_protocol_config_options_ie)>>),
    PutTagged("connectivity_type_present", 4, 11,
      <<Sub("connectivity_type", pack_connectivity_type_ie)>>)>>

unpack_activate_default_eps_bearer_context_request_msg ==
  <<Fld("eps_bearer_id", 4), Skip(4), Fld("proc_transaction_id", 8), Skip(8),
    Sub("eps_qos", unpack_eps_quality_of_service_ie), Sub("apn", unpack_access_point_name_ie),
    Sub("pdn_addr", unpack_pdn_address_ie),
    GetTagged("transaction_id_present", 8, 93,
      <<Sub("transaction_id", unpack_transaction_identifier_ie)>>),
    GetTagged("negotiated_qos_present", 8, 48,
      <<Sub("negotiated_qos", unpack_quality_of_service_ie)>>),
    GetTagged("llc_sapi_present", 8, 50,
      <<Sub("llc_sapi", unpack_llc_service_access_point_identifier_ie)>>),
    GetTagged("radio_prio_present", 4, 8, <<Sub("radio_prio", unpack_radio_priority_ie)>>),
    GetTagged("packet_flow_id_present", 8, 52,
      <<Sub("packet_flow_id", unpack_packet_flow_identifier_ie)>>),
    GetTagged("apn_ambr_present", 8, 94,
      <<Sub("apn_ambr", unpack_apn_aggregate_maximum_bit_rate_ie)>>),
    GetTagged("esm_cause_present", 8, 88, <<Sub("esm_cause", unpack_esm_cause_ie)>>),
    GetTagged("protocol_cnfg_opts_present", 8, 39,
      <<Sub("protocol_cnfg_opts", unpack_protocol_config_options_ie)>>),
    GetTagged("connectivity_type_present", 4, 11,
      <<Sub("connectivity_type", unpack_connectivity_type_ie)>>)>>

pack_bearer_resource_allocation_reject_msg ==
  <<Fld("eps_bearer_id", 4), Fill(2, 4), Fld("proc_transaction_id", 8), Fill(213, 8),
    Sub("esm_cause", pack_esm_cause_ie),
    PutTagged("protocol_cnfg_opts_present", 8, 39,
      <<Sub("protocol_cnfg_opts", pack_protocol_config_options_ie)>>),
    PutTagged("t3496_present", 8, 55, <<Sub("t3496", pack_gprs_timer_3_ie)>>)>>

unpack_bearer_resource_allocation_reject_msg ==
  <<Fld("eps_bearer_id", 4), Skip(4), Fld("proc_transaction_id", 8), Skip(8),
    Sub("esm_cause", unpack_esm_cause_ie),
    GetTagged("protocol_cnfg_opts_present", 8, 39,
      <<Sub("protocol_cnfg_opts", unpack_protocol_config_options_ie)>>),
    GetTagged("t3496_present", 8, 55, <<Sub("t3496", unpack_gprs_timer_3_ie)>>)>>

pack_bearer_resource_allocation_request_msg ==
  <<Fld("eps_bearer_id", 4), Fill(2, 4), Fld("proc_transaction_id", 8), Fill(212, 8),
    Sub("tfa", pack_traffic_flow_aggregate_description_ie),
    Sub("req_tf_qos", pack_eps_quality_of_service_ie),
    PutTagged("protocol_cnfg_opts_present", 8, 39,
      <<Sub("protocol_cnfg_opts", pack_protocol_config_options_ie)>>),
    PutTagged("device_properties_present", 4, 12,
      <<Sub("device_properties", pack_device_properties_ie)>>)>>

unpack_bearer_resource_allocation_request_msg ==
  <<Fld("eps_bearer_id", 4), Skip(4), Fld("proc_transaction_id", 8), Skip(8),
    Look("linked_eps_bearer_id", 4, 4), Sub("tfa", unpack_traffic_flow_aggregate_description_ie),
    Sub("req_tf_qos", unpack_eps_quality_of_service_ie),
    GetTagged("protocol_cnfg_opts_present", 8, 39,
      <<Sub("protocol_cnfg_opts", unpack_protocol_config_options_ie)>>),
    Peek(8, 192,
      <<Skip(4), Sub("device_properties", unpack_device_properties_ie),
        Put("device_properties_present", 1)>>, <<Put("device_properties_present", 0)>>)>>

pack_bearer_resource_modification_reject_msg ==
  <<Fld("eps_bearer_id", 4), Fill(2, 4), Fld("proc_transaction_id", 8), Fill(215, 8),
    Sub("esm_cause", pack_esm_cause_ie),
    PutTagged("protocol_cnfg_opts_present", 8, 39,
      <<Sub("protocol_cnfg_opts", pack_protocol_config_options_ie)>>),
    PutTagged("t3496_present", 8, 55, <<Sub("t3496", pack_gprs_timer_3_ie)>>)>>

unpack_bearer_resource_modification_reject_msg ==
  <<Fld("eps_bearer_id", 4), Skip(4), Fld("proc_transaction_id", 8), Skip(8),
    Sub("esm_cause", unpack_esm_cause_ie),
    GetTagged("protocol_cnfg_opts_present", 8, 39,
      <<Sub("protocol_cnfg_opts", unpack_protocol_config_options_ie)>>),
    GetTagged("t3496_present", 8, 55, <<Sub("t3496", unpack_gprs_timer_3_ie)>>)>>

pack_bearer_resource_modification_request_msg ==
  <<Fld("eps_bearer_id", 4), Fill(2, 4), Fld("proc_transaction_id", 8), Fill(214, 8),
    Sub("tfa", pack_traffic_flow_aggregate_description_ie),
    PutTagged("req_tf_qos_present", 8, 91, <<Sub("req_tf_qos", pack_eps_quality_of_service_ie)>>),
    PutTagged("esm_cause_present", 8, 88, <<Sub("esm_cause", pack_esm_cause_ie)>>),
    PutTagged("protocol_cnfg_opts_present", 8, 39,
      <<Sub("protocol_cnfg_opts", pack_protocol_config_options_ie)>>),
    PutTagged("device_properties_present", 4, 12,
      <<Sub("device_properties", pack_device_properties_ie)>>)>>

unpack_bearer_resource_modification_request_msg ==
  <<Fld("eps_bearer_id", 4), Skip(4), Fld("proc_transaction_id", 8), Skip(8),
    Look("linked_eps_bearer_id", 4, 4), Sub("tfa", unpack_traffic_flow_aggregate_description_ie),
    GetTagged("req_tf_qos_present", 8, 91, <<Sub("req_tf_qos", unpack_eps_quality_of_service_ie)>>),
    GetTagged("esm_cause_present", 8, 88, <<Sub("esm_cause", unpack_esm_cause_ie)>>),
    GetTagged("protocol_cnfg_opts_present", 8, 39,
      <<Sub("protocol_cnfg_opts", unpack_protocol_config_options_ie)>>),
    Peek(8, 192,
      <<Skip(4), Sub("device_properties", unpack_device_properties_ie),
        Put("device_properties_present", 1)>>, <<Put("device_properties_present", 0)>>)>>

pack_deactivate_eps_bearer_context_accept_msg ==
  <<Fld("eps_bearer_id", 4), Fill(2, 4), Fld("proc_transaction_id", 8), Fill(206, 8),
    PutTagged("protocol_cnfg_opts_present", 8, 39,
      <<Sub("protocol_cnfg_opts", pack_protocol_config_options_ie)>>)>>

unpack_deactivate_eps_bearer_context_accept_msg ==
  <<Fld("eps_bearer_id", 4), Skip(4), Fld("proc_transaction_id", 8), Skip(8),
    GetTagged("protocol_cnfg_opts_present", 8, 39,
      <<Sub("protocol_cnfg_opts", unpack_protocol_config_options_ie)>>)>>

pack_deactivate_eps_bearer_context_request_msg ==
  <<Fld("eps_bearer_id", 4), Fill(2, 4), Fld("proc_transaction_id", 8), Fill(205, 8),
    Sub("esm_cause", pack_esm_cause_ie),
    PutTagged("protocol_cnfg_opts_present", 8, 39,
      <<Sub("protocol_cnfg_opts", pack_protocol_config_options_ie)>>)>>

unpack_deactivate_eps_bearer_context_request_msg ==
  <<Fld("eps_bearer_id", 4), Skip(4), Fld("proc_transaction_id", 8), Skip(8),
    Sub("esm_cause", unpack_esm_cause_ie),
    GetTagged("protocol_cnfg_opts_present", 8, 39,
      <<Sub("protocol_cnfg_opts", unpack_protocol_config_options_ie)>>)>>

pack_esm_information_request_msg ==
  <<Fld("eps_bearer_id", 4), Fill(2, 4), Fld("proc_transaction_id", 8), Fill(217, 8)>>

unpack_esm_information_request_msg ==
  <<Fld("eps_bearer_id", 4), Skip(4), Fld("proc_transaction_id", 8), Skip(8)>>

pack_esm_information_response_msg ==
  <<Fld("eps_bearer_id", 4), Fill(2, 4), Fld("proc_transaction_id", 8), Fill(218, 8),
    PutTagged("apn_present", 8, 40, <<Sub("apn", pack_access_point_name_ie)>>),
    PutTagged("protocol_cnfg_opts_present", 8, 39,
      <<Sub("protocol_cnfg_opts", pack_protocol_config_options_ie)>>)>>

unpack_esm_information_response_msg ==
  <<Fld("eps_bearer_id", 4), Skip(4), Fld("proc_transaction_id", 8), Skip(8),
    GetTagged("apn_present", 8, 40, <<Sub("apn", unpack_access_point_name_ie)>>),
    GetTagged("protocol_cnfg_opts_present", 8, 39,
      <<Sub("protocol_cnfg_opts", unpack_protocol_config_options_ie)>>)>>

pack_esm_status_msg ==
  <<Fld("eps_bearer_id", 4), Fill(2, 4), Fld("proc_transaction_id", 8), Fill(232, 8),
    Sub("esm_cause", pack_esm_cause_ie)>>

unpack_esm_status_msg ==
  <<Fld("eps_bearer_id", 4), Skip(4), Fld("proc_transaction_id", 8), Skip(8),
    Sub("esm_cause", unpack_esm_cause_ie)>>

pack_modify_eps_bearer_context_accept_msg ==
  <<Fld("eps_bearer_id", 4), Fill(2, 4), Fld("proc_transaction_id", 8), Fill(202, 8),
    PutTagged("protocol_cnfg_opts_present", 8, 39,
      <<Sub("protocol_cnfg_opts", pack_protocol_config_options_ie)>>)>>

unpack_modify_eps_bearer_context_accept_msg ==
  <<Fld("eps_bearer_id", 4), Skip(4), Fld("proc_transaction_id", 8), Skip(8),
    GetTagged("protocol_cnfg_opts_present", 8, 39,
      <<Sub("protocol_cnfg_opts", unpack_protocol_config_options_ie)>>)>>

pack_modify_eps_bearer_context_reject_msg ==
  <<Fld("eps_bearer_id", 4), Fill(2, 4), Fld("proc_transaction_id", 8), Fill(203, 8),
    Sub("esm_cause", pack_esm_cause_ie),
    PutTagged("protocol_cnfg_opts_present", 8, 39,
      <<Sub("protocol_cnfg_opts", pack_protocol_config_options_ie)>>)>>

unpack_modify_eps_bearer_context_reject_msg ==
  <<Fld("eps_bearer_id", 4), Skip(4), Fld("proc_transaction_id", 8), Skip(8),
    Sub("esm_cause", unpack_esm_cause_ie),
    GetTagged("protocol_cnfg_opts_present", 8, 39,
      <<Sub("protocol_cnfg_opts", unpack_protocol_config_options_ie)>>)>>

pack_modify_eps_bearer_context_request_msg ==
  <<Fld("eps_bearer_id", 4), Fill(2, 4), Fld("proc_transaction_id", 8), Fill(201, 8),
    PutTagged("new_eps_qos_present", 8, 91, <<Sub("new_eps_qos", pack_eps_quality_of_service_ie)>>),
    PutTagged("tft_present", 8, 54, <<Sub("tft", pack_traffic_flow_template_ie)>>),
    PutTagged("new_qos_present", 8, 48, <<Sub("new_qos", pack_quality_of_service_ie)>>),
    PutTagged("negotiated_llc_sapi_present", 8, 50,
      <<Sub("negotiated_llc_sapi", pack_llc_service_access_point_identifier_ie)>>),
    PutTagged("radio_prio_present", 4, 8, <<Sub("radio_prio", pack_radio_priority_ie)>>),
    PutTagged("packet_flow_id_present", 8, 52,
      <<Sub("packet_flow_id", pack_packet_flow_identifier_ie)>>),
    PutTagged("apn_ambr_present", 8, 94,
      <<Sub("apn_ambr", pack_apn_aggregate_maximum_bit_rate_ie)>>),
    PutTagged("protocol_cnfg_opts_present", 8, 39,
      <<Sub("protocol_cnfg_opts", pack_protocol_config_options_ie)>>)>>

unpack_modify_eps_bearer_context_request_msg ==
  <<Fld("eps_bearer_id", 4), Skip(4), Fld("proc_transaction_id", 8), Skip(8),
    GetTagged("new_eps_qos_present", 8, 91,
      <<Sub("new_eps_qos", unpack_eps_quality_of_service_ie)>>),
    GetTagged("tft_present", 8, 54, <<Sub("tft", unpack_traffic_flow_template_ie)>>),
    GetTagged("new_qos_present", 8, 48, <<Sub("new_qos", unpack_quality_of_service_ie)>>),
    GetTagged("negotiated_llc_sapi_present", 8, 50,
      <<Sub("negotiated_llc_sapi", unpack_llc_service_access_point_identifier_ie)>>),
    Peek(8, 128,
      <<Skip(4), Sub("radio_prio", unpack_radio_priority_ie), Put("radio_prio_present", 1)>>,
      <<Put("radio_prio_present", 0)>>),
    GetTagged("packet_flow_id_present", 8, 52,
      <<Sub("packet_flow_id", unpack_packet_flow_identifier_ie)>>),
    GetTagged("apn_ambr_present", 8, 94,
      <<Sub("apn_ambr", unpack_apn_aggregate_maximum_bit_rate_ie)>>),
    GetTagged("protocol_cnfg_opts_present", 8, 39,
      <<Sub("protocol_cnfg_opts", unpack_protocol_config_options_ie)>>)>>

pack_notification_msg ==
  <<Fld("eps_bearer_id", 4), Fill(2, 4), Fld("proc_transaction_id", 8), Fill(219, 8),
    Sub("notification_ind", pack_notification_indicator_ie)>>

unpack_notification_msg ==
  <<Fld("eps_bearer_id", 4), Skip(4), Fld("proc_transaction_id", 8), Skip(8),
    Sub("notification_ind", unpack_notification_indicator_ie)>>

pack_pdn_connectivity_reject_msg ==
  <<Fld("eps_bearer_id", 4), Fill(2, 4), Fld("proc_transaction_id", 8), Fill(209, 8),
    Sub("esm_cause", pack_esm_cause_ie),
    PutTagged("protocol_cnfg_opts_present", 8, 39,
      <<Sub("protocol_cnfg_opts", pack_protocol_config_options_ie)>>),
    PutTagged("t3496_present", 8, 55, <<Sub("t3496", pack_gprs_timer_3_ie)>>)>>

unpack_pdn_connectivity_reject_msg ==
  <<Fld("eps_bearer_id", 4), Skip(4), Fld("proc_transaction_id", 8), Skip(8),
    Sub("esm_cause", unpack_esm_cause_ie),
    GetTagged("protocol_cnfg_opts_present", 8, 39,
      <<Sub("protocol_cnfg_opts", unpack_protocol_config_options_ie)>>),
    GetTagged("t3496_present", 8, 55, <<Sub("t3496", unpack_gprs_timer_3_ie)>>)>>

pack_pdn_connectivity_request_msg ==
  <<Fld("eps_bearer_id", 4), Fill(2, 4), Fld("proc_transaction_id", 8), Fill(208, 8),
    Sub("pdn_type", pack_pdn_type_ie), Sub("request_type", pack_request_type_ie),
    PutTagged("esm_info_transfer_flag_present", 4, 13,
      <<Sub("esm_info_transfer_flag", pack_esm_info_transfer_flag_ie)>>),
    PutTagged("apn_present", 8, 40, <<Sub("apn", pack_access_point_name_ie)>>),
    PutTagged("protocol_cnfg_opts_present", 8, 39,
      <<Sub("protocol_cnfg_opts", pack_protocol_config_options_ie)>>),
    PutTagged("device_properties_present", 4, 12,
      <<Sub("device_properties", pack_device_properties_ie)>>)>>

unpack_pdn_connectivity_request_msg ==
  <<Fld("eps_bearer_id", 4), Skip(4), Fld("proc_transaction_id", 8), Skip(8),
    Sub("pdn_type", unpack_pdn_type_ie), Sub("request_type", unpack_request_type_ie),
    GetTagged("esm_info_transfer_flag_present", 4, 13,
      <<Sub("esm_info_transfer_flag", unpack_esm_info_transfer_flag_ie)>>),
    GetTagged("apn_present", 8, 40, <<Sub("apn", unpack_access_point_name_ie)>>),
    GetTagged("protocol_cnfg_opts_present", 8, 39,
      <<Sub("protocol_cnfg_opts", unpack_protocol_config_options_ie)>>),
    GetTagged("device_properties_present", 4, 12,
      <<Sub("device_properties", unpack_device_properties_ie)>>)>>

pack_pdn_disconnect_reject_msg ==
  <<Fld("eps_bearer_id", 4), Fill(2, 4), Fld("proc_transaction_id", 8), Fill(211, 8),
    Sub("esm_cause", pack_esm_cause_ie),
    PutTagged("protocol_cnfg_opts_present", 8, 39,
      <<Sub("protocol_cnfg_opts", pack_protocol_config_options_ie)>>)>>

unpack_pdn_disconnect_reject_msg ==
  <<Fld("eps_bearer_id", 4), Skip(4), Fld("proc_transaction_id", 8), Skip(8),
    Sub("esm_cause", unpack_esm_cause_ie),
    GetTagged("protocol_cnfg_opts_present", 8, 39,
      <<Sub("protocol_cnfg_opts", unpack_protocol_config_options_ie)>>)>>

pack_pdn_disconnect_request_msg ==
  <<Fld("eps_bearer_id", 4), Fill(2, 4), Fld("proc_transaction_id", 8), Fill(210, 8), Fill(0, 4),
    Sub("linked_eps_bearer_id", pack_linked_eps_bearer_identity_ie),
    PutTagged("protocol_cnfg_opts_present", 8, 39,
      <<Sub("protocol_cnfg_opts", pack_protocol_config_options_ie)>>)>>

unpack_pdn_disconnect_request_msg ==
  <<Fld("eps_bearer_id", 4), Skip(4), Fld("proc_transaction_id", 8), Skip(12),
    Sub("linked_eps_bearer_id", unpack_linked_eps_bearer_identity_ie),
    GetTagged("protocol_cnfg_opts_present", 8, 39,
      <<Sub("protocol_cnfg_opts", unpack_protocol_config_options_ie)>>)>>

============================================================================
